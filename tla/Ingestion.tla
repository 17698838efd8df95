----------------------------- MODULE Ingestion -----------------------------
(***************************************************************************)
(* trust_domain/ingestion/loader.py: load_file_mapped reads one data set   *)
(* from a sheet a person made, whose columns may have other names, whose   *)
(* rows may be blank, short or long and whose cells may hold anything.  It *)
(* returns a record for every row or names the row and column it rejects.  *)
(*                                                                         *)
(* The code reads all lines, renames all rows and then casts one row after *)
(* another; here a line is read when it is cast.                           *)
(***************************************************************************)
EXTENDS Integers, Sequences, FiniteSets

CONSTANTS
  Heading,                              \* column names: of the fields and of the client
  IdField, FloatFields, DateFields,     \* fields of the data set
  ComputedDateFields,                   \* the dates that rules compute with
  Folders,                              \* what an input directory may hold
  ColumnMaps                            \* what a client may configure

NoHeading == ""
ASSUME FieldsAssumption ==
  /\ NoHeading \in Heading
  /\ FloatFields \cup DateFields \cup {IdField} \subseteq Heading \ {NoHeading}
  /\ FloatFields \cap DateFields = {}
  /\ IdField \notin FloatFields \cup DateFields
  /\ ComputedDateFields \subseteq DateFields

\* What a cell shows to the casts: a figure is a number in text, commas and spaces
\* included; iso and dmy are valid dates in text, nodate one that the calendar lacks.
BlankKind == {"none", "blank"}
NumberKind == {"number", "figure"}
DateKind == {"date", "iso", "dmy"}
Cell == [kind : BlankKind \cup NumberKind \cup DateKind \cup {"nodate", "word"}, value : Int]
NoCell == [kind |-> "none", value |-> 0]

Sheet == [readable : BOOLEAN,           \* UTF-8, or an intact workbook
          sortable : BOOLEAN,           \* headings are not numbers and text mixed
          headings : Seq(Heading), lines : Seq(Seq(Cell))]
Folder == UNION {[s -> Sheet] : s \in SUBSET {"csv", "xlsx", "xls"}}
Mapping == [internal : Heading, client : Heading]
ASSUME FoldersAssumption ==
  \A f \in Folders : DOMAIN f \subseteq {"csv", "xlsx", "xls"} /\ \A x \in DOMAIN f : f[x] \in Sheet
\* A table of the client's TOML file: a field has one entry.
ASSUME MapsAssumption ==
  \A m \in ColumnMaps :
    /\ m \in Seq(Mapping)
    /\ \A i, j \in DOMAIN m : m[i].internal = m[j].internal => i = j

VARIABLES
  folder, openpyxl,      \* the input directory, and whether .xlsx can be read
  columnMap,             \* the client's names of this data set's columns, in order
  line,                  \* the line of the sheet that is next; 0 before the columns are checked
  index,                 \* the index of the row that is next
  records, blanks,       \* the result, and the blank rows so far
  outcome, error         \* of the call, and the row and column its message names

config == <<folder, openpyxl, columnMap>>
vars == <<config, line, index, records, blanks, outcome, error>>

NoError == [row |-> 0, column |-> NoHeading]

-----------------------------------------------------------------------------
(***************************************************************************)
(* The sheet and its columns.                                              *)
(***************************************************************************)
Format == IF "csv" \in DOMAIN folder THEN "csv" ELSE "xlsx"
Headings == folder[Format].headings
Lines == folder[Format].lines

\* reverse: the field a client's column holds; of two entries the later one counts.
\* Mutant: the table is read in the wrong direction.
InternalForward(h) ==
  IF \E i \in DOMAIN columnMap : columnMap[i].internal = h
    THEN columnMap[CHOOSE i \in DOMAIN columnMap : columnMap[i].internal = h].client
    ELSE h
Internal(h) ==
  LET own == {i \in DOMAIN columnMap : columnMap[i].client = h}
  IN IF own = {} THEN h
     ELSE columnMap[CHOOSE i \in own : \A j \in own : j <= i].internal

\* csv.DictReader gives a short line None; zip() ends with the shorter of the two.
CellsOf(cells) ==
  IF Format = "csv"
    THEN [p \in DOMAIN Headings |-> IF p <= Len(cells) THEN cells[p] ELSE NoCell]
    ELSE [p \in DOMAIN Headings \cap DOMAIN cells |-> cells[p]]

\* DictReader drops empty lines, the .xlsx reader lines without a value.
Dropped(cells) ==
  IF Format = "csv" THEN cells = <<>> ELSE \A p \in DOMAIN cells : cells[p].kind = "none"

\* The columns of a line that end up under one field.
ColumnsOf(f, cells) == {p \in DOMAIN CellsOf(cells) : Internal(Headings[p]) = f}
FirstAt(h) == CHOOSE p \in DOMAIN Headings :
                Headings[p] = h /\ \A q \in DOMAIN Headings : Headings[q] = h => p <= q
\* Two dicts in a row: a heading keeps its first place and its last value, and of two
\* headings renamed to one field the later place counts.
Source(f, cells) ==
  CHOOSE p \in ColumnsOf(f, cells) : \A q \in ColumnsOf(f, cells) :
    /\ FirstAt(Headings[q]) <= FirstAt(Headings[p])
    /\ Headings[q] = Headings[p] => q <= p
RowOf(cells) ==
  [f \in {Internal(Headings[p]) : p \in DOMAIN CellsOf(cells)} |-> CellsOf(cells)[Source(f, cells)]]

IsBlankValue(c) == c.kind \in BlankKind
IsBlankRow(row) == \A f \in DOMAIN row : IsBlankValue(row[f])

-----------------------------------------------------------------------------
(***************************************************************************)
(* Casts.                                                                  *)
(***************************************************************************)
CastNumeric(c) == IF IsBlankValue(c) THEN NoCell ELSE [kind |-> "number", value |-> c.value]
NormalizeDate(c) ==
  IF IsBlankValue(c) THEN [kind |-> "blank", value |-> 0] ELSE [kind |-> "iso", value |-> c.value]
CastRow(row) ==
  [f \in DOMAIN row |->
     IF f \in FloatFields THEN CastNumeric(row[f])
     ELSE IF f \in DateFields THEN NormalizeDate(row[f])
     ELSE row[f]]

\* The fields whose cast raises.
Unreadable(row) ==
  {f \in DOMAIN row :
     \/ f \in FloatFields /\ row[f].kind \notin BlankKind \cup NumberKind
     \/ f \in DateFields /\ row[f].kind \notin BlankKind \cup DateKind}
MissesId(row) == IdField \notin DOMAIN row \/ IsBlankValue(row[IdField])

\* row.items() follows the first place of each field.
FirstIn(fields, cells) ==
  CHOOSE f \in fields : \E p \in ColumnsOf(f, cells) :
    \A g \in fields : \A q \in ColumnsOf(g, cells) : FirstAt(Headings[p]) <= FirstAt(Headings[q])

\* The header is row 1.
\* Mutant: rows are counted from the header on.
RowFromHeader(i) == i + 1
RowLabel(i) == i + 2

-----------------------------------------------------------------------------
Init ==
  /\ folder \in Folders
  /\ openpyxl \in BOOLEAN
  /\ columnMap \in ColumnMaps
  /\ line = 0
  /\ index = 0
  /\ records = <<>>
  /\ blanks = 0
  /\ outcome = "none"
  /\ error = NoError

Fail(kind, e) ==
  /\ outcome' = kind
  /\ error' = e
  /\ UNCHANGED <<config, line, index, records, blanks>>

AtStart == outcome = "none" /\ line = 0

NoFile ==
  /\ AtStart
  /\ DOMAIN folder \cap {"csv", "xlsx"} = {}
  /\ Fail("config_error", NoError)

\* _load_csv_raw and _load_xlsx_raw, when they raise.
Unloadable == ~folder[Format].readable \/ (Format = "xlsx" /\ ~openpyxl)
BadHeader == Headings = <<>> \/ (Format = "xlsx" /\ \E p \in DOMAIN Headings : Headings[p] = NoHeading)
CannotRead ==
  /\ AtStart
  /\ DOMAIN folder \cap {"csv", "xlsx"} # {}
  /\ Unloadable \/ BadHeader
  /\ Fail(IF (Format = "csv" \/ openpyxl) /\ ~folder[Format].readable THEN "raw_error"
          ELSE "config_error", NoError)

RequiredFields == {IdField} \cup FloatFields \cup ComputedDateFields
Available == {Headings[p] : p \in DOMAIN Headings}
\* Mutant: the fields of the table count as there.
ColumnsForward == RequiredFields \subseteq Available \cup {columnMap[i].internal : i \in DOMAIN columnMap}
RequiredThere == RequiredFields \subseteq {Internal(h) : h \in Available}
ColumnsThere ==
  /\ \A i \in DOMAIN columnMap : columnMap[i].client \in Available
  /\ RequiredThere

\* The message sorts the headings, which raises if one of them is a number.
ValidateColumns ==
  /\ AtStart
  /\ DOMAIN folder \cap {"csv", "xlsx"} # {}
  /\ ~Unloadable /\ ~BadHeader
  /\ IF ColumnsThere
       THEN line' = 1 /\ UNCHANGED <<config, index, records, blanks, outcome, error>>
       ELSE Fail(IF folder[Format].sortable THEN "config_error" ELSE "raw_error", NoError)

-----------------------------------------------------------------------------
AtLine == outcome = "none" /\ line > 0 /\ line \in DOMAIN Lines
Row == RowOf(Lines[line])

\* Mutant: dropped lines are counted.
CountLine ==
  /\ AtLine /\ Dropped(Lines[line])
  /\ line' = line + 1
  /\ index' = index + 1
  /\ UNCHANGED <<config, records, blanks, outcome, error>>
DropLine ==
  /\ AtLine /\ Dropped(Lines[line])
  /\ line' = line + 1
  /\ UNCHANGED <<config, index, records, blanks, outcome, error>>

AtRow == AtLine /\ ~Dropped(Lines[line])

SkipBlank ==
  /\ AtRow /\ IsBlankRow(Row)
  /\ blanks' = blanks + 1
  /\ line' = line + 1
  /\ index' = index + 1
  /\ UNCHANGED <<config, records, outcome, error>>

RejectCell ==
  /\ AtRow /\ ~IsBlankRow(Row)
  /\ Unreadable(Row) # {}
  /\ Fail("config_error", [row |-> RowLabel(index), column |-> FirstIn(Unreadable(Row), Lines[line])])

RejectId ==
  /\ AtRow /\ ~IsBlankRow(Row)
  /\ Unreadable(Row) = {}
  /\ MissesId(Row)
  /\ Fail("config_error", [row |-> RowLabel(index), column |-> IdField])

Accept ==
  /\ AtRow /\ ~IsBlankRow(Row)
  /\ Unreadable(Row) = {}
  /\ ~MissesId(Row)
  /\ records' = Append(records, CastRow(Row))
  /\ line' = line + 1
  /\ index' = index + 1
  /\ UNCHANGED <<config, blanks, outcome, error>>

Return ==
  /\ outcome = "none"
  /\ line > 0
  /\ line = Len(Lines) + 1
  /\ outcome' = "ok"
  /\ UNCHANGED <<config, line, index, records, blanks, error>>

Next ==
  \/ NoFile \/ CannotRead \/ ValidateColumns
  \/ DropLine \/ SkipBlank \/ RejectCell \/ RejectId \/ Accept \/ Return

Spec == Init /\ [][Next]_vars

-----------------------------------------------------------------------------
DroppedBefore(k) == {j \in 1..(k - 1) : Dropped(Lines[j])}

\* Types of what changes, and: every line passed is a record, a blank row or dropped, and the row
\* counter leaves out the dropped ones only.
TypeOK ==
  /\ line \in Nat /\ index \in Nat /\ blanks \in Nat
  /\ outcome \in {"none", "ok", "config_error", "raw_error"}
  /\ error.row \in Nat /\ error.column \in Heading
  /\ line = 0 => records = <<>> /\ index = 0 /\ blanks = 0
  /\ Len(records) + blanks = index
  /\ line > 0 => /\ line <= Len(Lines) + 1
                 /\ index + Cardinality(DroppedBefore(line)) = line - 1

(***************************************************************************)
(* What the rules take for granted of a record (module TrustRules): it has *)
(* an identifier, its amounts are numbers or nothing and its dates ISO or  *)
(* blank; from a .csv file it has every field the engine depends on,       *)
(* whatever the column map and however short the line.                     *)
(***************************************************************************)
LoadedRowsAreTyped ==
  \A i \in DOMAIN records :
    /\ ~MissesId(records[i])
    /\ \A f \in FloatFields \cap DOMAIN records[i] : records[i][f].kind \in {"none", "number"}
    /\ \A f \in DateFields \cap DOMAIN records[i] : records[i][f].kind \in {"blank", "iso"}
    /\ Format = "csv" => RequiredFields \subseteq DOMAIN records[i]

(***************************************************************************)
(* The fields a column is meant for, as a reader of the client's file      *)
(* would say, and the files in which columns and fields are one to one.    *)
(***************************************************************************)
Meant(p) ==
  LET named == {i \in DOMAIN columnMap : columnMap[i].client = Headings[p]}
  IN IF named = {} THEN {Headings[p]} ELSE {columnMap[i].internal : i \in named}
OneToOne ==
  \A p, q \in DOMAIN Headings : \A f \in Meant(p), g \in Meant(q) : f = g <=> p = q

Shown(k) == DOMAIN Headings \cap DOMAIN Lines[k]
Filled(k) == \E p \in Shown(k) : ~IsBlankValue(Lines[k][p])
ReadsAs(cell, f, value) ==
  IF IsBlankValue(cell) THEN IsBlankValue(value)
  ELSE value.value = cell.value /\ (f \notin FloatFields \cup DateFields => value = cell)

(***************************************************************************)
(* No row is lost, doubled or shifted: the filled lines so far and the     *)
(* records correspond one to one and in order, and each cell has arrived   *)
(* in a field its column is meant for, whatever the order and the names    *)
(* of the columns.                                                         *)
(***************************************************************************)
FilledUpTo(k) == {j \in 1..k : Filled(j)}
RowsBecomeRecords ==
  line > 0 /\ OneToOne =>
    /\ Len(records) = Cardinality(FilledUpTo(line - 1))
    /\ \A k \in FilledUpTo(line - 1) : \A p \in Shown(k) : \E f \in Meant(p) :
         LET record == records[Cardinality(FilledUpTo(k))]
         IN f \in DOMAIN record /\ ReadsAs(Lines[k][p], f, record[f])

(***************************************************************************)
(* A message names the first faulty cell of the sheet by its column, and   *)
(* its row by a number that is short of the row in the sheet by exactly    *)
(* the dropped lines above it (SheetRowsAreNamed of module MCIngestion is  *)
(* what the comments of loader.py claim); and a file is loaded only if no  *)
(* filled line has a faulty cell or lacks its identifier.                  *)
(***************************************************************************)
Faulty(k) ==
  {p \in Shown(k) : \E f \in Meant(p) :
     \/ f \in FloatFields /\ Lines[k][p].kind \in DateKind \cup {"nodate", "word"}
     \/ f \in DateFields /\ Lines[k][p].kind \in NumberKind \cup {"nodate", "word"}}
Named(k) == \E p \in Shown(k) : IdField \in Meant(p) /\ ~IsBlankValue(Lines[k][p])
Sound(k) == Filled(k) => Faulty(k) = {} /\ Named(k)
MessagesNameTheFault ==
  /\ error.row # 0 /\ OneToOne =>
       \E k \in DOMAIN Lines :
         /\ error.row + Cardinality(DroppedBefore(k)) = k + 1
         /\ Filled(k)
         /\ \/ \E p \in Faulty(k) : /\ error.column \in Meant(p)
                                   /\ \A q \in Faulty(k) : p <= q
            \/ Faulty(k) = {} /\ ~Named(k) /\ error.column = IdField
         /\ \A j \in 1..(k - 1) : Sound(j)
  /\ outcome = "ok" /\ OneToOne => \A k \in DOMAIN Lines : Sound(k)
=============================================================================
