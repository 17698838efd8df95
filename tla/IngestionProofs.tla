-------------------------- MODULE IngestionProofs --------------------------
(***************************************************************************)
(* No row of a sheet is lost, doubled or shifted, and messages point at    *)
(* the first faulty cell: for all sheets, column maps and data sets.       *)
(*                                                                         *)
(* If columns and fields are one to one, the two dicts a row goes through  *)
(* lose nothing (OneColumn): the row is the line under other names, so     *)
(* what the code asks of a row is what a reader asks of the line           *)
(* (RowIsBlank, RowIsUnreadable, RowLacksId).  The invariant then counts   *)
(* along the sheet: dropped lines, blank rows and records add up.          *)
(***************************************************************************)
EXTENDS Ingestion, Recursion

-----------------------------------------------------------------------------
(***************************************************************************)
(* The sheet that is read.                                                 *)
(***************************************************************************)
Open ==
  /\ folder \in Folders
  /\ columnMap \in ColumnMaps
  /\ DOMAIN folder \cap {"csv", "xlsx"} # {}

LEMMA SheetType ==
  ASSUME Open
  PROVE  /\ Format \in {"csv", "xlsx"}
         /\ Headings \in Seq(Heading)
         /\ Lines \in Seq(Seq(Cell))
         /\ columnMap \in Seq(Mapping)
         /\ \A i, j \in DOMAIN columnMap : columnMap[i].internal = columnMap[j].internal => i = j
<1>1. Format \in DOMAIN folder /\ Format \in {"csv", "xlsx"}
  BY FoldersAssumption DEF Open, Format
<1>2. folder[Format] \in Sheet
  BY <1>1, FoldersAssumption DEF Open
<1>3. /\ columnMap \in Seq(Mapping)
      /\ \A i, j \in DOMAIN columnMap : columnMap[i].internal = columnMap[j].internal => i = j
  BY MapsAssumption DEF Open
<1> QED
  BY <1>1, <1>2, <1>3 DEF Sheet, Headings, Lines

LEMMA ShownIsCells ==
  ASSUME Open, NEW k \in DOMAIN Lines
  PROVE  /\ DOMAIN Headings \subseteq Nat
         /\ Shown(k) \subseteq DOMAIN CellsOf(Lines[k])
         /\ DOMAIN CellsOf(Lines[k]) \subseteq DOMAIN Headings
         /\ \A p \in Shown(k) : CellsOf(Lines[k])[p] = Lines[k][p] /\ Lines[k][p] \in Cell
         /\ \A p \in DOMAIN CellsOf(Lines[k]) \ Shown(k) : CellsOf(Lines[k])[p] = NoCell
         /\ Format = "csv" => DOMAIN CellsOf(Lines[k]) = DOMAIN Headings
<1>1. Headings \in Seq(Heading) /\ Lines[k] \in Seq(Cell) /\ Format \in {"csv", "xlsx"}
  BY SheetType
<1> DEFINE cells == Lines[k]
<1>2. cells \in Seq(Cell)
  BY <1>1
<1> HIDE DEF cells
<1>3. DOMAIN Headings \cap DOMAIN cells = {p \in DOMAIN Headings : p <= Len(cells)}
  BY <1>1, <1>2
<1>4. /\ DOMAIN Headings \cap DOMAIN cells \subseteq DOMAIN CellsOf(cells)
      /\ DOMAIN CellsOf(cells) \subseteq DOMAIN Headings
      /\ \A p \in DOMAIN Headings \cap DOMAIN cells : CellsOf(cells)[p] = cells[p] /\ cells[p] \in Cell
      /\ \A p \in DOMAIN CellsOf(cells) \ (DOMAIN Headings \cap DOMAIN cells) : CellsOf(cells)[p] = NoCell
      /\ Format = "csv" => DOMAIN CellsOf(cells) = DOMAIN Headings
  <2>1. CASE Format = "csv"
    BY <1>1, <1>2, <1>3, <2>1 DEF CellsOf
  <2>2. CASE Format = "xlsx"
    BY <1>1, <1>2, <1>3, <2>2 DEF CellsOf
  <2> QED
    BY <1>1, <2>1, <2>2
<1> QED
  BY <1>1, <1>4 DEF Shown, cells

-----------------------------------------------------------------------------
(***************************************************************************)
(* One column for each field.                                              *)
(***************************************************************************)
LEMMA InternalIsMeant ==
  ASSUME Open, OneToOne, NEW p \in DOMAIN Headings
  PROVE  Meant(p) = {Internal(Headings[p])}
<1> DEFINE named == {i \in DOMAIN columnMap : columnMap[i].client = Headings[p]}
<1>1. CASE named = {}
  BY <1>1 DEF Meant, Internal
<1>2. CASE named # {}
  <2>1. PICK i \in named : TRUE
    BY <1>2
  <2>2. Meant(p) = {columnMap[j].internal : j \in named}
    BY <1>2 DEF Meant
  <2>3. \A f, g \in Meant(p) : f = g
    BY DEF OneToOne
  <2>4. \A j \in named : columnMap[j].internal = columnMap[i].internal
    BY <2>1, <2>2, <2>3
  <2>5. named = {i}
    BY <2>1, <2>4, SheetType
  <2>6. i \in Nat
    BY <2>1, SheetType
  <2>7. (CHOOSE x \in {i} : \A y \in {i} : y <= x) = i
    BY <2>6
  <2>8. Internal(Headings[p]) = columnMap[CHOOSE x \in named : \A y \in named : y <= x].internal
    BY <1>2 DEF Internal
  <2>9. Internal(Headings[p]) = columnMap[i].internal
    BY <2>5, <2>7, <2>8
  <2> QED
    BY <2>2, <2>5, <2>9
<1> QED
  BY <1>1, <1>2

LEMMA OneColumn ==
  ASSUME Open, OneToOne, NEW cells \in Seq(Cell), NEW p \in DOMAIN CellsOf(cells),
         DOMAIN CellsOf(cells) \subseteq DOMAIN Headings
  PROVE  /\ ColumnsOf(Internal(Headings[p]), cells) = {p}
         /\ FirstAt(Headings[p]) = p
         /\ Internal(Headings[p]) \in DOMAIN RowOf(cells)
         /\ RowOf(cells)[Internal(Headings[p])] = CellsOf(cells)[p]
<1> DEFINE f == Internal(Headings[p])
<1>1. \A q \in DOMAIN Headings : Internal(Headings[q]) = f <=> q = p
  BY InternalIsMeant DEF OneToOne
<1>2. \A q \in DOMAIN Headings : Headings[q] = Headings[p] => q = p
  BY <1>1
<1>3. ColumnsOf(f, cells) = {p}
  BY <1>1 DEF ColumnsOf
<1>4. p \in Nat
  BY SheetType
<1>5. FirstAt(Headings[p]) = p
  <2>1. \A q \in DOMAIN Headings :
          Headings[q] = Headings[p] /\ (\A x \in DOMAIN Headings : Headings[x] = Headings[p] => q <= x)
            <=> q = p
    BY <1>2, <1>4
  <2> QED
    BY <2>1 DEF FirstAt
<1>6. Source(f, cells) = p
  <2>1. FirstAt(Headings[p]) <= FirstAt(Headings[p]) /\ p <= p
    BY <1>4, <1>5
  <2>2. Source(f, cells) = CHOOSE x \in {p} : \A q \in {p} :
                             /\ FirstAt(Headings[q]) <= FirstAt(Headings[x])
                             /\ Headings[q] = Headings[x] => q <= x
    BY <1>3 DEF Source
  <2> QED
    BY <2>1, <2>2
<1> QED
  BY <1>3, <1>5, <1>6 DEF RowOf

-----------------------------------------------------------------------------
(***************************************************************************)
(* What the code asks of a row and a reader of its line.                   *)
(***************************************************************************)
LEMMA DroppedIsBlank ==
  ASSUME Open, NEW k \in DOMAIN Lines, Dropped(Lines[k])
  PROVE  ~Filled(k)
<1>1. Lines[k] \in Seq(Cell) /\ Format \in {"csv", "xlsx"}
  BY SheetType
<1>2. CASE Format = "csv"
  BY <1>1, <1>2 DEF Dropped, Filled, Shown
<1>3. CASE Format = "xlsx"
  BY <1>1, <1>3 DEF Dropped, Filled, Shown, IsBlankValue, BlankKind
<1> QED
  BY <1>1, <1>2, <1>3

LEMMA RowOfLine ==
  ASSUME Open, OneToOne, NEW k \in DOMAIN Lines
  PROVE  /\ \A f : f \in DOMAIN RowOf(Lines[k])
                 <=> \E p \in DOMAIN CellsOf(Lines[k]) : f = Internal(Headings[p])
         /\ \A p \in DOMAIN CellsOf(Lines[k]) : RowOf(Lines[k])[Internal(Headings[p])] = CellsOf(Lines[k])[p]
         /\ \A p \in DOMAIN CellsOf(Lines[k]) : Meant(p) = {Internal(Headings[p])}
<1>1. Lines[k] \in Seq(Cell)
  BY SheetType
<1>2. DOMAIN CellsOf(Lines[k]) \subseteq DOMAIN Headings
  BY ShownIsCells
<1>3. \A f : f \in DOMAIN RowOf(Lines[k])
               <=> \E p \in DOMAIN CellsOf(Lines[k]) : f = Internal(Headings[p])
  BY DEF RowOf
<1>4. \A p \in DOMAIN CellsOf(Lines[k]) : RowOf(Lines[k])[Internal(Headings[p])] = CellsOf(Lines[k])[p]
  BY <1>1, <1>2, OneColumn
<1>5. \A p \in DOMAIN CellsOf(Lines[k]) : Meant(p) = {Internal(Headings[p])}
  BY <1>2, InternalIsMeant
<1> QED
  BY <1>3, <1>4, <1>5

LEMMA RowIsBlank ==
  ASSUME Open, OneToOne, NEW k \in DOMAIN Lines
  PROVE  IsBlankRow(RowOf(Lines[k])) <=> ~Filled(k)
<1>1. IsBlankValue(NoCell)
  BY DEF IsBlankValue, NoCell, BlankKind
<1>2. IsBlankRow(RowOf(Lines[k])) <=> \A p \in DOMAIN CellsOf(Lines[k]) : IsBlankValue(CellsOf(Lines[k])[p])
  <2> DEFINE row == RowOf(Lines[k])
             cells == CellsOf(Lines[k])
             F(p) == Internal(Headings[p])
  <2>1. /\ \A f : f \in DOMAIN row <=> \E p \in DOMAIN cells : f = F(p)
        /\ \A p \in DOMAIN cells : row[F(p)] = cells[p]
    BY RowOfLine
  <2> HIDE DEF row, cells, F
  <2>2. (\A f \in DOMAIN row : IsBlankValue(row[f])) <=> \A p \in DOMAIN cells : IsBlankValue(cells[p])
    BY <2>1
  <2> QED
    BY <2>2 DEF IsBlankRow, row, cells
<1>3. (\A p \in DOMAIN CellsOf(Lines[k]) : IsBlankValue(CellsOf(Lines[k])[p]))
        <=> \A p \in Shown(k) : IsBlankValue(Lines[k][p])
  BY <1>1, ShownIsCells
<1> QED
  BY <1>2, <1>3 DEF Filled

LEMMA RowLacksId ==
  ASSUME Open, OneToOne, NEW k \in DOMAIN Lines
  PROVE  MissesId(RowOf(Lines[k])) <=> ~Named(k)
<1>1. IsBlankValue(NoCell)
  BY DEF IsBlankValue, NoCell, BlankKind
<1>2. MissesId(RowOf(Lines[k])) <=>
        ~\E p \in DOMAIN CellsOf(Lines[k]) : IdField = Internal(Headings[p]) /\ ~IsBlankValue(CellsOf(Lines[k])[p])
  <2> DEFINE row == RowOf(Lines[k])
             cells == CellsOf(Lines[k])
             F(p) == Internal(Headings[p])
  <2>1. /\ \A f : f \in DOMAIN row <=> \E p \in DOMAIN cells : f = F(p)
        /\ \A p \in DOMAIN cells : row[F(p)] = cells[p]
    BY RowOfLine
  <2> HIDE DEF row, cells, F
  <2>2. (IdField \notin DOMAIN row \/ IsBlankValue(row[IdField]))
          <=> ~\E p \in DOMAIN cells : IdField = F(p) /\ ~IsBlankValue(cells[p])
    BY <2>1
  <2> QED
    BY <2>2 DEF MissesId, row, cells, F
<1>3. Named(k) <=>
        \E p \in DOMAIN CellsOf(Lines[k]) : IdField = Internal(Headings[p]) /\ ~IsBlankValue(CellsOf(Lines[k])[p])
  <2>1. \A p \in Shown(k) : IdField \in Meant(p) <=> IdField = Internal(Headings[p])
    BY RowOfLine, ShownIsCells
  <2> QED
    BY <1>1, <2>1, ShownIsCells DEF Named
<1> QED
  BY <1>2, <1>3

LEMMA RowIsUnreadable ==
  ASSUME Open, OneToOne, NEW k \in DOMAIN Lines
  PROVE  Unreadable(RowOf(Lines[k])) = {Internal(Headings[p]) : p \in Faulty(k)}
<1> DEFINE row == RowOf(Lines[k])
           Bad(f, c) == \/ f \in FloatFields /\ c.kind \notin BlankKind \cup NumberKind
                        \/ f \in DateFields /\ c.kind \notin BlankKind \cup DateKind
<1>1. \A f : ~Bad(f, NoCell)
  BY DEF NoCell, BlankKind
<1>2. ASSUME NEW p \in Shown(k)
      PROVE  p \in Faulty(k) <=> Bad(Internal(Headings[p]), CellsOf(Lines[k])[p])
  <2>1. Meant(p) = {Internal(Headings[p])} /\ CellsOf(Lines[k])[p] = Lines[k][p] /\ Lines[k][p] \in Cell
    BY RowOfLine, ShownIsCells
  <2>2. /\ Lines[k][p].kind \notin BlankKind \cup NumberKind
             <=> Lines[k][p].kind \in DateKind \cup {"nodate", "word"}
        /\ Lines[k][p].kind \notin BlankKind \cup DateKind
             <=> Lines[k][p].kind \in NumberKind \cup {"nodate", "word"}
    BY <2>1 DEF Cell, BlankKind, NumberKind, DateKind
  <2> QED
    BY <2>1, <2>2 DEF Faulty
<1>3. Unreadable(row) = {f \in DOMAIN row : Bad(f, row[f])}
  BY DEF Unreadable
<1> HIDE DEF Bad
<1>4. Unreadable(row) = {Internal(Headings[p]) :
                           p \in {q \in DOMAIN CellsOf(Lines[k]) : Bad(Internal(Headings[q]), CellsOf(Lines[k])[q])}}
  <2> DEFINE cells == CellsOf(Lines[k])
             F(p) == Internal(Headings[p])
  <2>1. /\ \A f : f \in DOMAIN row <=> \E p \in DOMAIN cells : f = F(p)
        /\ \A p \in DOMAIN cells : row[F(p)] = cells[p]
    BY RowOfLine
  <2> HIDE DEF row, cells, F
  <2>2. {f \in DOMAIN row : Bad(f, row[f])} = {F(p) : p \in {q \in DOMAIN cells : Bad(F(q), cells[q])}}
    BY <2>1
  <2> QED
    BY <1>3, <2>2 DEF cells, F
<1>5. {q \in DOMAIN CellsOf(Lines[k]) : Bad(Internal(Headings[q]), CellsOf(Lines[k])[q])} = Faulty(k)
  <2>1. Faulty(k) \subseteq Shown(k)
    BY DEF Faulty
  <2> QED
    BY <1>1, <1>2, <2>1, ShownIsCells
<1> QED
  BY <1>4, <1>5

\* The cell of a column, in the field the column is meant for.
LEMMA CellArrives ==
  ASSUME Open, OneToOne, NEW k \in DOMAIN Lines, NEW p \in Shown(k)
  PROVE  \E f \in Meant(p) : /\ f \in DOMAIN CastRow(RowOf(Lines[k]))
                             /\ ReadsAs(Lines[k][p], f, CastRow(RowOf(Lines[k]))[f])
<1> DEFINE f == Internal(Headings[p])
           c == Lines[k][p]
<1>1. /\ f \in Meant(p)
      /\ f \in DOMAIN RowOf(Lines[k])
      /\ RowOf(Lines[k])[f] = c
  <2>1. p \in DOMAIN CellsOf(Lines[k]) /\ CellsOf(Lines[k])[p] = c
    BY ShownIsCells
  <2> QED
    BY <2>1, RowOfLine
<1> HIDE DEF f, c
<1>2. /\ f \in DOMAIN CastRow(RowOf(Lines[k]))
      /\ CastRow(RowOf(Lines[k]))[f] = IF f \in FloatFields THEN CastNumeric(c)
                                      ELSE IF f \in DateFields THEN NormalizeDate(c) ELSE c
  BY <1>1 DEF CastRow
<1>3. ReadsAs(c, f, CastNumeric(c)) \/ f \notin FloatFields
  BY DEF ReadsAs, CastNumeric, IsBlankValue, NoCell, BlankKind
<1>4. ReadsAs(c, f, NormalizeDate(c)) \/ f \notin DateFields
  BY DEF ReadsAs, NormalizeDate, IsBlankValue, BlankKind
<1>5. ReadsAs(c, f, c) \/ f \in FloatFields \cup DateFields
  BY DEF ReadsAs
<1>6. ReadsAs(c, f, CastRow(RowOf(Lines[k]))[f])
  BY <1>2, <1>3, <1>4, <1>5
<1> QED
  BY <1>1, <1>2, <1>6 DEF c

-----------------------------------------------------------------------------
(***************************************************************************)
(* The column that a message names.                                        *)
(***************************************************************************)
LEMMA FirstAtIsColumn ==
  ASSUME Open, NEW p \in DOMAIN Headings
  PROVE  FirstAt(Headings[p]) \in Nat
<1> DEFINE S == {q \in DOMAIN Headings : Headings[q] = Headings[p]}
<1>1. S \in SUBSET Nat /\ S # {}
  BY SheetType
<1>2. PICK x \in S : \A y \in S : x <= y
  BY <1>1, SmallestOf
<1>3. \E z \in DOMAIN Headings :
         Headings[z] = Headings[p] /\ \A q \in DOMAIN Headings : Headings[q] = Headings[p] => z <= q
  BY <1>2
<1>4. FirstAt(Headings[p]) \in DOMAIN Headings
  BY <1>3 DEF FirstAt
<1> QED
  BY <1>4, SheetType

LEMMA FirstInIsFirst ==
  ASSUME Open, NEW k \in DOMAIN Lines, NEW fields, fields # {},
         fields \subseteq DOMAIN RowOf(Lines[k])
  PROVE  /\ FirstIn(fields, Lines[k]) \in fields
         /\ \E p \in ColumnsOf(FirstIn(fields, Lines[k]), Lines[k]) :
              \A g \in fields : \A q \in ColumnsOf(g, Lines[k]) :
                FirstAt(Headings[p]) <= FirstAt(Headings[q])
<1> DEFINE cells == Lines[k]
           S == {FirstAt(Headings[p]) : p \in {q \in DOMAIN CellsOf(cells) : Internal(Headings[q]) \in fields}}
<1>1. DOMAIN CellsOf(cells) \subseteq DOMAIN Headings
  BY ShownIsCells
<1>2. S \in SUBSET Nat
  BY <1>1, FirstAtIsColumn
<1>3. S # {}
  <2>1. PICK f \in fields : TRUE
    OBVIOUS
  <2>2. \E p \in DOMAIN CellsOf(cells) : Internal(Headings[p]) = f
    BY <2>1 DEF RowOf
  <2> QED
    BY <2>2
<1>4. PICK x \in S : \A y \in S : x <= y
  BY <1>2, <1>3, SmallestOf
<1>5. PICK p \in DOMAIN CellsOf(cells) : Internal(Headings[p]) \in fields /\ x = FirstAt(Headings[p])
  OBVIOUS
<1>6. \A g \in fields : \A q \in ColumnsOf(g, cells) : FirstAt(Headings[p]) <= FirstAt(Headings[q])
  BY <1>4, <1>5 DEF ColumnsOf
<1>7. p \in ColumnsOf(Internal(Headings[p]), cells)
  BY <1>5 DEF ColumnsOf
<1>8. \E f \in fields : \E z \in ColumnsOf(f, cells) :
        \A g \in fields : \A q \in ColumnsOf(g, cells) : FirstAt(Headings[z]) <= FirstAt(Headings[q])
  BY <1>5, <1>6, <1>7
<1> HIDE DEF cells, S
<1> QED
  BY <1>8 DEF FirstIn, cells

LEMMA FirstFaulty ==
  ASSUME Open, OneToOne, NEW k \in DOMAIN Lines, Unreadable(RowOf(Lines[k])) # {}
  PROVE  \E p \in Faulty(k) : /\ FirstIn(Unreadable(RowOf(Lines[k])), Lines[k]) \in Meant(p)
                              /\ \A q \in Faulty(k) : p <= q
<1> DEFINE fields == Unreadable(RowOf(Lines[k]))
           f == FirstIn(fields, Lines[k])
<1>1. fields \subseteq DOMAIN RowOf(Lines[k])
  BY DEF Unreadable
<1>2. PICK p \in ColumnsOf(f, Lines[k]) :
        \A g \in fields : \A q \in ColumnsOf(g, Lines[k]) : FirstAt(Headings[p]) <= FirstAt(Headings[q])
  BY <1>1, FirstInIsFirst
<1>3. f \in fields
  BY <1>1, FirstInIsFirst
<1>4. Faulty(k) \subseteq DOMAIN CellsOf(Lines[k]) /\ DOMAIN CellsOf(Lines[k]) \subseteq DOMAIN Headings
  BY ShownIsCells DEF Faulty
<1>5. \A q \in DOMAIN CellsOf(Lines[k]) :
        ColumnsOf(Internal(Headings[q]), Lines[k]) = {q} /\ FirstAt(Headings[q]) = q
  <2>1. Lines[k] \in Seq(Cell)
    BY SheetType
  <2> QED
    BY <1>4, <2>1, OneColumn
<1>6. p \in DOMAIN CellsOf(Lines[k]) /\ Internal(Headings[p]) = f
  BY <1>2 DEF ColumnsOf
<1>7. fields = {Internal(Headings[q]) : q \in Faulty(k)}
  BY RowIsUnreadable
<1> HIDE DEF fields, f
<1>8. p \in Faulty(k)
  <2>1. PICK q \in Faulty(k) : f = Internal(Headings[q])
    BY <1>3, <1>7
  <2>2. ColumnsOf(f, Lines[k]) = {q}
    BY <1>4, <1>5, <2>1
  <2> QED
    BY <1>2, <2>1, <2>2
<1>9. \A q \in Faulty(k) : p <= q
  BY <1>2, <1>4, <1>5, <1>6, <1>7
<1>10. f \in Meant(p)
  BY <1>4, <1>6, RowOfLine
<1> QED
  BY <1>8, <1>9, <1>10 DEF f, fields

-----------------------------------------------------------------------------
(***************************************************************************)
(* The invariant.                                                          *)
(***************************************************************************)
Casts == {CastRow(RowOf(Lines[k])) : k \in DOMAIN Lines}
Config ==
  /\ folder \in Folders
  /\ columnMap \in ColumnMaps
  /\ records # <<>> => line > 0
  /\ line > 0 => Open /\ ColumnsThere /\ records \in Seq(Casts)
  /\ outcome = "ok" => line = Len(Lines) + 1

SoundSoFar == line > 0 /\ OneToOne => \A k \in 1..(line - 1) : Sound(k)

IInv ==
  /\ Config
  /\ TypeOK
  /\ LoadedRowsAreTyped
  /\ RowsBecomeRecords
  /\ SoundSoFar
  /\ MessagesNameTheFault

\* The sheet and the column map stay as they are, and so does what is said of them.
LEMMA SameSheet ==
  ASSUME UNCHANGED config
  PROVE  /\ Format' = Format /\ Headings' = Headings /\ Lines' = Lines
         /\ Open' = Open /\ ColumnsThere' = ColumnsThere /\ OneToOne' = OneToOne
         /\ \A p : Meant(p)' = Meant(p)
         /\ \A k : Shown(k)' = Shown(k) /\ Filled(k)' = Filled(k)
         /\ \A k : Faulty(k)' = Faulty(k) /\ Named(k)' = Named(k) /\ Sound(k)' = Sound(k)
         /\ \A k : DroppedBefore(k)' = DroppedBefore(k) /\ FilledUpTo(k)' = FilledUpTo(k)
         /\ Casts' = Casts
<1>1. folder' = folder /\ columnMap' = columnMap
  BY DEF config
<1>2. Format' = Format
  BY <1>1 DEF Format
<1>3. Headings' = Headings /\ Lines' = Lines
  BY <1>1, <1>2 DEF Headings, Lines
<1>4. Open' = Open
  BY <1>1 DEF Open
<1>5. \A h : Internal(h)' = Internal(h)
  BY <1>1 DEF Internal
<1>6. ColumnsThere' = ColumnsThere
  BY <1>1, <1>3, <1>5 DEF ColumnsThere, RequiredThere, Available
<1>7. \A p : Meant(p)' = Meant(p)
  BY <1>1, <1>3 DEF Meant
<1>8. OneToOne' = OneToOne
  BY <1>3, <1>7 DEF OneToOne
<1>9. \A k : Shown(k)' = Shown(k)
  BY <1>3 DEF Shown
<1>10. \A k : Filled(k)' = Filled(k)
  BY <1>3, <1>9 DEF Filled
<1>11. \A k : Faulty(k)' = Faulty(k)
  BY <1>3, <1>7, <1>9 DEF Faulty
<1>12. \A k : Named(k)' = Named(k)
  BY <1>3, <1>7, <1>9 DEF Named
<1>13. \A k : Sound(k)' = Sound(k)
  BY <1>10, <1>11, <1>12 DEF Sound
<1>14. \A c : Dropped(c)' = Dropped(c)
  BY <1>2 DEF Dropped
<1>15. \A k : DroppedBefore(k)' = DroppedBefore(k)
  BY <1>3, <1>14 DEF DroppedBefore
<1>16. \A k : FilledUpTo(k)' = FilledUpTo(k)
  BY <1>10 DEF FilledUpTo
<1>17. \A c : CellsOf(c)' = CellsOf(c)
  BY <1>2, <1>3 DEF CellsOf
<1>18. \A f, c : ColumnsOf(f, c)' = ColumnsOf(f, c)
  BY <1>3, <1>5, <1>17 DEF ColumnsOf
<1>19. \A h : FirstAt(h)' = FirstAt(h)
  BY <1>3 DEF FirstAt
<1>20. \A f, c : Source(f, c)' = Source(f, c)
  BY <1>3, <1>18, <1>19 DEF Source
<1>21. \A c : RowOf(c)' = RowOf(c)
  BY <1>3, <1>5, <1>17, <1>20 DEF RowOf
<1>22. Casts' = Casts
  BY <1>3, <1>21 DEF Casts
<1> QED
  BY <1>2, <1>3, <1>4, <1>6, <1>7, <1>8, <1>9, <1>10, <1>11, <1>12, <1>13, <1>15, <1>16, <1>22

\* Counting lines, one at a time.
LEMMA CountDropped ==
  ASSUME NEW k \in Nat \ {0}
  PROVE  /\ IsFiniteSet(DroppedBefore(k)) /\ Cardinality(DroppedBefore(k)) \in Nat
         /\ Cardinality(DroppedBefore(k + 1))
              = Cardinality(DroppedBefore(k)) + (IF Dropped(Lines[k]) THEN 1 ELSE 0)
<1>1. IsFiniteSet(1..(k - 1))
  BY FS_Interval
<1>2. DroppedBefore(k) \subseteq 1..(k - 1)
  BY DEF DroppedBefore
<1>3. IsFiniteSet(DroppedBefore(k)) /\ Cardinality(DroppedBefore(k)) \in Nat
  BY <1>1, <1>2, FS_Subset, FS_CardinalityType
<1>4. DroppedBefore(k + 1) = DroppedBefore(k) \cup (IF Dropped(Lines[k]) THEN {k} ELSE {})
  BY DEF DroppedBefore
<1>5. k \notin DroppedBefore(k)
  BY DEF DroppedBefore
<1>6. CASE Dropped(Lines[k])
  BY <1>3, <1>4, <1>5, <1>6, FS_AddElement
<1>7. CASE ~Dropped(Lines[k])
  <2>1. DroppedBefore(k + 1) = DroppedBefore(k)
    BY <1>4, <1>7
  <2> QED
    BY <1>3, <1>7, <2>1
<1> QED
  BY <1>3, <1>6, <1>7

LEMMA CountFilled ==
  ASSUME NEW k \in Nat \ {0}
  PROVE  /\ IsFiniteSet(FilledUpTo(k - 1)) /\ Cardinality(FilledUpTo(k - 1)) \in Nat
         /\ FilledUpTo(k) = FilledUpTo(k - 1) \cup (IF Filled(k) THEN {k} ELSE {})
         /\ Cardinality(FilledUpTo(k))
              = Cardinality(FilledUpTo(k - 1)) + (IF Filled(k) THEN 1 ELSE 0)
<1>1. IsFiniteSet(1..(k - 1))
  BY FS_Interval
<1>2. FilledUpTo(k - 1) \subseteq 1..(k - 1)
  BY DEF FilledUpTo
<1>3. IsFiniteSet(FilledUpTo(k - 1)) /\ Cardinality(FilledUpTo(k - 1)) \in Nat
  BY <1>1, <1>2, FS_Subset, FS_CardinalityType
<1>4. FilledUpTo(k) = FilledUpTo(k - 1) \cup (IF Filled(k) THEN {k} ELSE {})
  BY DEF FilledUpTo
<1>5. k \notin FilledUpTo(k - 1)
  BY DEF FilledUpTo
<1>6. CASE Filled(k)
  BY <1>3, <1>4, <1>5, <1>6, FS_AddElement
<1>7. CASE ~Filled(k)
  <2>1. FilledUpTo(k) = FilledUpTo(k - 1)
    BY <1>4, <1>7
  <2> QED
    BY <1>3, <1>4, <1>7, <2>1
<1> QED
  BY <1>3, <1>4, <1>6, <1>7

LEMMA EarlierAreFewer ==
  ASSUME NEW j \in Nat, NEW k \in Nat, j <= k
  PROVE  Cardinality(FilledUpTo(j)) \in Nat /\ Cardinality(FilledUpTo(j)) <= Cardinality(FilledUpTo(k))
<1>1. FilledUpTo(j) \subseteq FilledUpTo(k)
  BY DEF FilledUpTo
<1>2. IsFiniteSet(1..k)
  BY FS_Interval
<1>3. FilledUpTo(k) \subseteq 1..k
  BY DEF FilledUpTo
<1>4. IsFiniteSet(FilledUpTo(k))
  BY <1>2, <1>3, FS_Subset
<1> QED
  BY <1>1, <1>4, FS_Subset, FS_CardinalityType

-----------------------------------------------------------------------------
(***************************************************************************)
(* Steps.                                                                  *)
(***************************************************************************)
Arrived(k, record) ==
  \A p \in Shown(k) : \E f \in Meant(p) : f \in DOMAIN record /\ ReadsAs(Lines[k][p], f, record[f])

LEMMA AtLineFacts ==
  ASSUME IInv, AtLine
  PROVE  /\ Open /\ ColumnsThere
         /\ line \in Nat \ {0} /\ line \in DOMAIN Lines
         /\ Lines \in Seq(Seq(Cell)) /\ Len(Lines) \in Nat /\ line <= Len(Lines)
         /\ index \in Nat /\ blanks \in Nat /\ Len(records) + blanks = index
         /\ index + Cardinality(DroppedBefore(line)) = line - 1
         /\ records \in Seq(Casts) /\ Row = RowOf(Lines[line]) /\ CastRow(Row) \in Casts
<1>1. /\ line \in Nat /\ line > 0 /\ line \in DOMAIN Lines /\ Open /\ ColumnsThere
      /\ records \in Seq(Casts)
  BY DEF IInv, Config, AtLine, TypeOK
<1>2. Lines \in Seq(Seq(Cell))
  BY <1>1, SheetType
<1>3. /\ index \in Nat /\ blanks \in Nat /\ Len(records) + blanks = index
      /\ index + Cardinality(DroppedBefore(line)) = line - 1
  BY <1>1 DEF IInv, TypeOK
<1>4. Row = RowOf(Lines[line]) /\ CastRow(Row) \in Casts
  BY <1>1 DEF Row, Casts
<1> QED
  BY <1>1, <1>2, <1>3, <1>4

\* A line passed without a record, because it is not filled, or with the record it became.
LEMMA StepOver ==
  ASSUME IInv, AtLine, UNCHANGED config, UNCHANGED <<outcome, error>>, line' = line + 1,
         OneToOne => Sound(line),
         \/ records' = records /\ (OneToOne => ~Filled(line))
         \/ records' = Append(records, CastRow(Row)) /\ (OneToOne => Filled(line))
  PROVE  (Config /\ RowsBecomeRecords /\ SoundSoFar /\ MessagesNameTheFault)'
<1>0. /\ Open /\ ColumnsThere
      /\ line \in Nat \ {0} /\ line \in DOMAIN Lines
      /\ records \in Seq(Casts) /\ CastRow(Row) \in Casts
      /\ line' - 1 = line /\ line' > 0 /\ line' = line + 1
  BY AtLineFacts
<1>1. folder' = folder /\ columnMap' = columnMap
  BY DEF config
<1>2. Config'
  <2>1. records' \in Seq(Casts)
    BY <1>0
  <2> QED
    BY <1>0, <1>1, <2>1, SameSheet DEF IInv, Config, AtLine
<1>3. SoundSoFar'
  <2> SUFFICES ASSUME OneToOne, NEW k \in 1..line
               PROVE  Sound(k)
    <3>1. SoundSoFar' <=> (OneToOne => \A k \in 1..line : Sound(k))
      <4>1. SoundSoFar' <=> (line' > 0 /\ OneToOne' => \A k \in 1..(line' - 1) : Sound(k)')
        BY DEF SoundSoFar
      <4> QED
        BY <1>0, <4>1, SameSheet
    <3> QED
      BY <3>1
  <2>1. CASE k = line
    BY <2>1
  <2>2. CASE k # line
    BY <1>0, <2>2 DEF IInv, SoundSoFar
  <2> QED
    BY <2>1, <2>2
<1>4. MessagesNameTheFault'
  BY SameSheet DEF IInv, MessagesNameTheFault
<1>5. RowsBecomeRecords'
  <2> SUFFICES ASSUME OneToOne
               PROVE  /\ Len(records') = Cardinality(FilledUpTo(line))
                      /\ \A k \in FilledUpTo(line) : Arrived(k, records'[Cardinality(FilledUpTo(k))])
    <3>1. FilledUpTo(line - 1)' = FilledUpTo(line)
      <4>1. FilledUpTo(line - 1)' = {j \in 1..(line' - 1) : Filled(j)'}
        BY DEF FilledUpTo
      <4> QED
        BY <1>0, <4>1, SameSheet DEF FilledUpTo
    <3>2. RowsBecomeRecords' <=>
            (line' > 0 /\ OneToOne' =>
               /\ Len(records') = Cardinality(FilledUpTo(line - 1)')
               /\ \A k \in FilledUpTo(line - 1)' : \A p \in Shown(k)' : \E f \in Meant(p)' :
                    LET record == records'[Cardinality(FilledUpTo(k)')]
                    IN f \in DOMAIN record /\ ReadsAs(Lines'[k][p], f, record[f]))
      BY DEF RowsBecomeRecords
    <3> QED
      BY <3>1, <3>2, SameSheet DEF Arrived
  <2>1. /\ Len(records) = Cardinality(FilledUpTo(line - 1))
        /\ \A k \in FilledUpTo(line - 1) : Arrived(k, records[Cardinality(FilledUpTo(k))])
    BY <1>0 DEF IInv, RowsBecomeRecords, Arrived
  <2>2. /\ Cardinality(FilledUpTo(line - 1)) \in Nat
        /\ FilledUpTo(line) = FilledUpTo(line - 1) \cup (IF Filled(line) THEN {line} ELSE {})
        /\ Cardinality(FilledUpTo(line)) = Cardinality(FilledUpTo(line - 1)) + (IF Filled(line) THEN 1 ELSE 0)
    BY <1>0, CountFilled
  <2>3. CASE records' = records /\ ~Filled(line)
    BY <2>1, <2>2, <2>3
  <2>4. CASE records' = Append(records, CastRow(Row)) /\ Filled(line)
    <3>1. Len(records') = Len(records) + 1 /\ records'[Len(records) + 1] = CastRow(Row)
      BY <2>4
    <3>2. ASSUME NEW k \in FilledUpTo(line - 1)
          PROVE  Arrived(k, records'[Cardinality(FilledUpTo(k))])
      <4>1. k \in Nat \ {0} /\ k <= line - 1 /\ Filled(k)
        BY <1>0 DEF FilledUpTo
      <4>2. Cardinality(FilledUpTo(k)) \in Nat /\ Cardinality(FilledUpTo(k)) <= Len(records)
        BY <1>0, <2>1, <4>1, EarlierAreFewer
      <4>3. Cardinality(FilledUpTo(k)) >= 1
        BY <4>1, CountFilled
      <4>4. records'[Cardinality(FilledUpTo(k))] = records[Cardinality(FilledUpTo(k))]
        BY <2>4, <4>2, <4>3
      <4> QED
        BY <2>1, <4>4
    <3>3. Arrived(line, CastRow(Row))
      BY <1>0, CellArrives DEF Arrived, Row
    <3>4. Cardinality(FilledUpTo(line)) = Len(records) + 1
      BY <2>1, <2>2, <2>4
    <3> QED
      BY <2>2, <2>4, <3>1, <3>2, <3>3, <3>4
  <2> QED
    BY <2>3, <2>4
<1> QED
  BY <1>2, <1>3, <1>4, <1>5

LEMMA FailKeepsRest ==
  ASSUME IInv, NEW kind \in {"config_error", "raw_error"}, NEW e, Fail(kind, e), outcome = "none"
  PROVE  /\ (Config /\ LoadedRowsAreTyped /\ RowsBecomeRecords /\ SoundSoFar)'
         /\ e.row \in Nat /\ e.column \in Heading => TypeOK'
<1>1. /\ UNCHANGED config /\ UNCHANGED <<line, index, records, blanks>>
      /\ outcome' = kind /\ error' = e
      /\ folder' = folder /\ columnMap' = columnMap
  BY DEF Fail, config
<1>2. Config'
  BY <1>1, SameSheet DEF IInv, Config
<1>3. LoadedRowsAreTyped'
  BY <1>1, SameSheet DEF IInv, LoadedRowsAreTyped, MissesId, RequiredFields, IsBlankValue
<1>4. RowsBecomeRecords' /\ SoundSoFar'
  BY <1>1, SameSheet DEF IInv, RowsBecomeRecords, SoundSoFar
<1>5. e.row \in Nat /\ e.column \in Heading => TypeOK'
  BY <1>1, SameSheet DEF IInv, TypeOK
<1> QED
  BY <1>2, <1>3, <1>4, <1>5

LEMMA CastTypes ==
  ASSUME Open, ColumnsThere, NEW k \in DOMAIN Lines, ~MissesId(RowOf(Lines[k]))
  PROVE  LET record == CastRow(RowOf(Lines[k]))
         IN /\ ~MissesId(record)
            /\ \A f \in FloatFields \cap DOMAIN record : record[f].kind \in {"none", "number"}
            /\ \A f \in DateFields \cap DOMAIN record : record[f].kind \in {"blank", "iso"}
            /\ Format = "csv" => RequiredFields \subseteq DOMAIN record
<1> DEFINE row == RowOf(Lines[k])
           record == CastRow(row)
<1>1. DOMAIN record = DOMAIN row
  BY DEF CastRow
<1>2. \A f \in DOMAIN row : record[f] = IF f \in FloatFields THEN CastNumeric(row[f])
                                        ELSE IF f \in DateFields THEN NormalizeDate(row[f]) ELSE row[f]
  BY DEF CastRow
<1>3. Format = "csv" => RequiredFields \subseteq DOMAIN row
  <2>1. SUFFICES ASSUME Format = "csv" PROVE RequiredFields \subseteq DOMAIN row
    OBVIOUS
  <2>2. DOMAIN CellsOf(Lines[k]) = DOMAIN Headings
    BY <2>1, ShownIsCells
  <2>3. DOMAIN row = {Internal(Headings[p]) : p \in DOMAIN Headings}
    BY <2>2 DEF RowOf
  <2>4. {Internal(h) : h \in Available} = {Internal(Headings[p]) : p \in DOMAIN Headings}
    BY DEF Available
  <2> QED
    BY <2>3, <2>4 DEF ColumnsThere, RequiredThere
<1>4. ~MissesId(row)
  OBVIOUS
<1> HIDE DEF row, record
<1>5. ~MissesId(record)
  BY <1>1, <1>2, <1>4, FieldsAssumption DEF MissesId
<1>6. \A c : CastNumeric(c).kind \in {"none", "number"} /\ NormalizeDate(c).kind \in {"blank", "iso"}
  BY DEF CastNumeric, NormalizeDate, NoCell
<1>7. \A f \in FloatFields \cap DOMAIN record : record[f].kind \in {"none", "number"}
  BY <1>1, <1>2, <1>6
<1>8. \A f \in DateFields \cap DOMAIN record : record[f].kind \in {"blank", "iso"}
  BY <1>1, <1>2, <1>6, FieldsAssumption
<1> QED
  BY <1>1, <1>3, <1>5, <1>7, <1>8 DEF record, row

LEMMA StillTyped ==
  ASSUME IInv, AtLine, UNCHANGED config, UNCHANGED <<outcome, error>>, line' = line + 1,
         index' = index + (IF Dropped(Lines[line]) THEN 0 ELSE 1),
         blanks' \in Nat, Len(records') + blanks' = index'
  PROVE  TypeOK'
<1>1. /\ line \in Nat \ {0} /\ Len(Lines) \in Nat /\ line <= Len(Lines)
      /\ index \in Nat /\ index + Cardinality(DroppedBefore(line)) = line - 1
  BY AtLineFacts
<1>2. DroppedBefore(line)' = DroppedBefore(line + 1)
  <2>1. DroppedBefore(line)' = {j \in 1..(line' - 1) : Dropped(Lines[j])'}
    BY DEF DroppedBefore
  <2>2. \A j : Dropped(Lines[j])' = Dropped(Lines[j])
    BY SameSheet DEF Dropped
  <2> QED
    BY <2>1, <2>2 DEF DroppedBefore
<1>3. /\ Cardinality(DroppedBefore(line)) \in Nat
      /\ Cardinality(DroppedBefore(line + 1))
           = Cardinality(DroppedBefore(line)) + (IF Dropped(Lines[line]) THEN 1 ELSE 0)
  BY <1>1, CountDropped
<1>4. index' + Cardinality(DroppedBefore(line + 1)) = line
  BY <1>1, <1>3
<1>5. outcome' = outcome /\ error' = error
  OBVIOUS
<1> QED
  BY <1>1, <1>2, <1>4, <1>5, SameSheet DEF IInv, TypeOK

LEMMA Skips ==
  ASSUME IInv, DropLine \/ SkipBlank
  PROVE  IInv'
<1>1. AtLine /\ UNCHANGED config /\ UNCHANGED <<outcome, error, records>> /\ line' = line + 1
  BY DEF DropLine, SkipBlank, AtRow
<1>2. /\ Open /\ ColumnsThere /\ line \in DOMAIN Lines /\ Row = RowOf(Lines[line])
      /\ index \in Nat /\ blanks \in Nat /\ Len(records) + blanks = index /\ records \in Seq(Casts)
  BY <1>1, AtLineFacts
<1>3. OneToOne => ~Filled(line)
  BY <1>2, DroppedIsBlank, RowIsBlank DEF DropLine, SkipBlank
<1>4. OneToOne => Sound(line)
  BY <1>3 DEF Sound
<1>5. /\ index' = index + (IF Dropped(Lines[line]) THEN 0 ELSE 1)
      /\ blanks' \in Nat /\ Len(records') + blanks' = index'
  BY <1>1, <1>2 DEF DropLine, SkipBlank, AtRow
<1>6. LoadedRowsAreTyped'
  BY <1>1, SameSheet DEF IInv, LoadedRowsAreTyped, MissesId, RequiredFields, IsBlankValue
<1>7. TypeOK'
  BY <1>1, <1>5, StillTyped
<1> QED
  BY <1>1, <1>3, <1>4, <1>6, <1>7, StepOver DEF IInv

LEMMA Accepts ==
  ASSUME IInv, Accept
  PROVE  IInv'
<1>1. /\ AtLine /\ ~Dropped(Lines[line]) /\ ~IsBlankRow(Row) /\ Unreadable(Row) = {} /\ ~MissesId(Row)
      /\ UNCHANGED config /\ UNCHANGED <<outcome, error, blanks>> /\ line' = line + 1
      /\ index' = index + 1 /\ records' = Append(records, CastRow(Row))
  BY DEF Accept, AtRow
<1>2. /\ Open /\ ColumnsThere /\ line \in DOMAIN Lines /\ Row = RowOf(Lines[line])
      /\ index \in Nat /\ blanks \in Nat /\ Len(records) + blanks = index
      /\ records \in Seq(Casts) /\ CastRow(Row) \in Casts
  BY <1>1, AtLineFacts
<1>3. OneToOne => Filled(line)
  BY <1>1, <1>2, RowIsBlank
<1>4. OneToOne => Sound(line)
  <2> SUFFICES ASSUME OneToOne PROVE Sound(line)
    OBVIOUS
  <2>1. Faulty(line) = {}
    <3>1. {Internal(Headings[p]) : p \in Faulty(line)} = {}
      BY <1>1, <1>2, RowIsUnreadable
    <3> QED
      BY <3>1
  <2>2. Named(line)
    BY <1>1, <1>2, RowLacksId
  <2> QED
    BY <2>1, <2>2 DEF Sound
<1>5. Len(records') + blanks' = index'
  BY <1>1, <1>2
<1>6. TypeOK'
  BY <1>1, <1>2, <1>5, StillTyped
<1>7. LoadedRowsAreTyped'
  <2> DEFINE Typed(record) ==
               /\ ~MissesId(record)
               /\ \A f \in FloatFields \cap DOMAIN record : record[f].kind \in {"none", "number"}
               /\ \A f \in DateFields \cap DOMAIN record : record[f].kind \in {"blank", "iso"}
               /\ Format = "csv" => RequiredFields \subseteq DOMAIN record
  <2>1. Typed(CastRow(Row))
    BY <1>1, <1>2, CastTypes
  <2>2. \A i \in DOMAIN records : Typed(records[i])
    BY DEF IInv, LoadedRowsAreTyped
  <2>3. LoadedRowsAreTyped' <=> \A i \in DOMAIN records' : Typed(records'[i])
    BY <1>1, SameSheet DEF LoadedRowsAreTyped, MissesId, RequiredFields, IsBlankValue
  <2> HIDE DEF Typed
  <2>4. \A i \in DOMAIN records' : Typed(records'[i])
    BY <1>1, <1>2, <2>1, <2>2
  <2> QED
    BY <2>3, <2>4
<1> QED
  BY <1>1, <1>3, <1>4, <1>6, <1>7, StepOver DEF IInv

\* What a message about a row needs in order to point at it.
LEMMA Points ==
  ASSUME IInv, AtLine, ~Dropped(Lines[line]), NEW column,
         UNCHANGED config, outcome' = "config_error", error' = [row |-> RowLabel(index), column |-> column],
         OneToOne => /\ Filled(line)
                     /\ \/ \E p \in Faulty(line) : column \in Meant(p) /\ \A q \in Faulty(line) : p <= q
                        \/ Faulty(line) = {} /\ ~Named(line) /\ column = IdField
  PROVE  MessagesNameTheFault'
<1>1. /\ line \in Nat \ {0} /\ line \in DOMAIN Lines
      /\ index \in Nat /\ index + Cardinality(DroppedBefore(line)) = line - 1
  BY AtLineFacts
<1>2. Cardinality(DroppedBefore(line)) \in Nat
  BY <1>1, CountDropped
<1>3. error'.row + Cardinality(DroppedBefore(line)) = line + 1 /\ error'.column = column
  <2>1. error'.row = index + 2 /\ error'.column = column
    BY DEF RowLabel
  <2>2. \A l, i, n \in Nat : i + n = l - 1 => (i + 2) + n = l + 1
    OBVIOUS
  <2>3. (index + 2) + Cardinality(DroppedBefore(line)) = line + 1
    BY <1>1, <1>2, <2>2
  <2> QED
    BY <2>1, <2>3
<1>4. OneToOne => \A j \in 1..(line - 1) : Sound(j)
  BY <1>1 DEF IInv, SoundSoFar
<1>5. outcome' # "ok"
  OBVIOUS
<1>6. OneToOne =>
        \E k \in DOMAIN Lines :
          /\ error'.row + Cardinality(DroppedBefore(k)) = k + 1
          /\ Filled(k)
          /\ \/ \E p \in Faulty(k) : error'.column \in Meant(p) /\ \A q \in Faulty(k) : p <= q
             \/ Faulty(k) = {} /\ ~Named(k) /\ error'.column = IdField
          /\ \A j \in 1..(k - 1) : Sound(j)
  BY <1>1, <1>3, <1>4
<1>7. MessagesNameTheFault' <=>
        /\ error'.row # 0 /\ OneToOne' =>
             \E k \in DOMAIN Lines' :
               /\ error'.row + Cardinality(DroppedBefore(k)') = k + 1
               /\ Filled(k)'
               /\ \/ \E p \in Faulty(k)' : error'.column \in Meant(p)' /\ \A q \in Faulty(k)' : p <= q
                  \/ Faulty(k)' = {} /\ ~Named(k)' /\ error'.column = IdField
               /\ \A j \in 1..(k - 1) : Sound(j)'
        /\ outcome' = "ok" /\ OneToOne' => \A k \in DOMAIN Lines' : Sound(k)'
  BY DEF MessagesNameTheFault
<1> QED
  BY <1>5, <1>6, <1>7, SameSheet

LEMMA Rejects ==
  ASSUME IInv, RejectCell \/ RejectId
  PROVE  IInv'
<1>1. AtLine /\ ~Dropped(Lines[line]) /\ ~IsBlankRow(Row) /\ outcome = "none"
  BY DEF RejectCell, RejectId, AtRow, AtLine
<1>2. Open /\ line \in DOMAIN Lines /\ Row = RowOf(Lines[line]) /\ RowLabel(index) \in Nat
  BY <1>1, AtLineFacts DEF RowLabel
<1>3. OneToOne => Filled(line)
  BY <1>1, <1>2, RowIsBlank
<1>4. CASE RejectCell
  <2> DEFINE column == FirstIn(Unreadable(Row), Lines[line])
  <2>1. Unreadable(Row) # {} /\ Fail("config_error", [row |-> RowLabel(index), column |-> column])
    BY <1>4 DEF RejectCell
  <2>2. column \in Heading
    <3>1. Unreadable(Row) \subseteq DOMAIN Row /\ Unreadable(Row) \subseteq FloatFields \cup DateFields
      BY DEF Unreadable
    <3>2. column \in Unreadable(Row)
      BY <1>2, <2>1, <3>1, FirstInIsFirst
    <3> QED
      BY <3>1, <3>2, FieldsAssumption
  <2>3. OneToOne => \E p \in Faulty(line) : column \in Meant(p) /\ \A q \in Faulty(line) : p <= q
    BY <1>2, <2>1, FirstFaulty
  <2> HIDE DEF column
  <2>4. UNCHANGED config /\ outcome' = "config_error" /\ error' = [row |-> RowLabel(index), column |-> column]
    BY <2>1 DEF Fail
  <2>5. MessagesNameTheFault'
    BY <1>1, <1>3, <2>3, <2>4, Points
  <2> QED
    BY <1>1, <1>2, <2>1, <2>2, <2>5, FailKeepsRest DEF IInv
<1>5. CASE RejectId
  <2>1. /\ Unreadable(Row) = {} /\ MissesId(Row)
        /\ Fail("config_error", [row |-> RowLabel(index), column |-> IdField])
    BY <1>5 DEF RejectId
  <2>2. IdField \in Heading
    BY FieldsAssumption
  <2>3. OneToOne => Faulty(line) = {} /\ ~Named(line)
    <3> SUFFICES ASSUME OneToOne PROVE Faulty(line) = {} /\ ~Named(line)
      OBVIOUS
    <3>1. {Internal(Headings[p]) : p \in Faulty(line)} = {}
      BY <1>2, <2>1, RowIsUnreadable
    <3>2. Faulty(line) = {}
      BY <3>1
    <3>3. ~Named(line)
      BY <1>2, <2>1, RowLacksId
    <3> QED
      BY <3>2, <3>3
  <2>4. UNCHANGED config /\ outcome' = "config_error" /\ error' = [row |-> RowLabel(index), column |-> IdField]
    BY <2>1 DEF Fail
  <2>5. MessagesNameTheFault'
    BY <1>1, <1>3, <2>3, <2>4, Points
  <2> QED
    BY <1>1, <1>2, <2>1, <2>2, <2>5, FailKeepsRest DEF IInv
<1> QED
  BY <1>4, <1>5

LEMMA Starts ==
  ASSUME IInv, NoFile \/ CannotRead \/ ValidateColumns
  PROVE  IInv'
<1>1. outcome = "none" /\ line = 0
  BY DEF NoFile, CannotRead, ValidateColumns, AtStart
<1>2. ASSUME NEW kind \in {"config_error", "raw_error"}, Fail(kind, NoError)
      PROVE  IInv'
  <2>1. NoError.row \in Nat /\ NoError.column \in Heading
    BY FieldsAssumption DEF NoError
  <2>2. error'.row = 0 /\ outcome' # "ok"
    BY <1>2 DEF Fail, NoError
  <2>3. MessagesNameTheFault'
    BY <2>2 DEF MessagesNameTheFault
  <2> QED
    BY <1>1, <1>2, <2>1, <2>3, FailKeepsRest DEF IInv
<1>3. CASE ValidateColumns /\ line' = 1 /\ UNCHANGED <<config, index, records, blanks, outcome, error>>
  <2>1. Open /\ ColumnsThere
    BY <1>3 DEF ValidateColumns, IInv, Config, Open, Fail
  <2>2. records = <<>> /\ index = 0 /\ blanks = 0
    BY <1>1 DEF IInv, TypeOK
  <2>3. folder' = folder /\ columnMap' = columnMap
    BY <1>3 DEF config
  <2>4. Lines \in Seq(Seq(Cell)) /\ Len(Lines) \in Nat
    BY <2>1, SheetType
  <2>5. Config'
    <3>1. records' \in Seq(Casts)
      BY <1>3, <2>2
    <3> QED
      BY <1>1, <1>3, <2>1, <2>3, <3>1, SameSheet DEF IInv, Config
  <2>6. DroppedBefore(line)' = {} /\ FilledUpTo(line - 1)' = {}
    BY <1>3 DEF DroppedBefore, FilledUpTo
  <2>7. TypeOK'
    <3>1. line' = 1 /\ index' = 0 /\ blanks' = 0 /\ records' = <<>> /\ outcome' = outcome /\ error' = error
      BY <1>3, <2>2
    <3>2. Cardinality(DroppedBefore(line)') = 0
      BY <2>6, FS_EmptySet
    <3>3. Lines' = Lines
      BY <1>3, SameSheet
    <3> QED
      BY <2>4, <3>1, <3>2, <3>3 DEF IInv, TypeOK
  <2>8. LoadedRowsAreTyped'
    BY <1>3, <2>2 DEF LoadedRowsAreTyped
  <2>9. RowsBecomeRecords'
    BY <1>3, <2>2, <2>6, FS_EmptySet DEF RowsBecomeRecords
  <2>10. SoundSoFar'
    BY <1>3 DEF SoundSoFar
  <2>11. MessagesNameTheFault'
    BY <1>1, <1>3, SameSheet DEF IInv, MessagesNameTheFault
  <2> QED
    BY <2>5, <2>7, <2>8, <2>9, <2>10, <2>11 DEF IInv
<1>4. \/ \E kind \in {"config_error", "raw_error"} : Fail(kind, NoError)
      \/ ValidateColumns /\ line' = 1 /\ UNCHANGED <<config, index, records, blanks, outcome, error>>
  BY DEF NoFile, CannotRead, ValidateColumns
<1> QED
  BY <1>2, <1>3, <1>4

LEMMA Returns ==
  ASSUME IInv, Return
  PROVE  IInv'
<1>1. /\ outcome = "none" /\ line > 0 /\ line = Len(Lines) + 1 /\ outcome' = "ok"
      /\ UNCHANGED config /\ UNCHANGED <<line, index, records, blanks, error>>
      /\ folder' = folder /\ columnMap' = columnMap
  BY DEF Return, config
<1>2. Open /\ Lines \in Seq(Seq(Cell))
  BY <1>1, SheetType DEF IInv, Config
<1>3. Config'
  BY <1>1, SameSheet DEF IInv, Config
<1>4. TypeOK'
  BY <1>1, SameSheet DEF IInv, TypeOK
<1>5. LoadedRowsAreTyped'
  BY <1>1, SameSheet DEF IInv, LoadedRowsAreTyped, MissesId, RequiredFields, IsBlankValue
<1>6. RowsBecomeRecords' /\ SoundSoFar'
  BY <1>1, SameSheet DEF IInv, RowsBecomeRecords, SoundSoFar
<1>7. OneToOne => \A k \in DOMAIN Lines : Sound(k)
  <2>1. DOMAIN Lines = 1..(line - 1)
    BY <1>1, <1>2
  <2> QED
    BY <1>1, <2>1 DEF IInv, SoundSoFar
<1>8. MessagesNameTheFault'
  BY <1>1, <1>7, SameSheet DEF IInv, MessagesNameTheFault
<1> QED
  BY <1>3, <1>4, <1>5, <1>6, <1>8 DEF IInv

LEMMA StartsRight ==
  ASSUME Init
  PROVE  IInv
<1>1. /\ folder \in Folders /\ columnMap \in ColumnMaps
      /\ line = 0 /\ index = 0 /\ records = <<>> /\ blanks = 0 /\ outcome = "none" /\ error = NoError
  BY DEF Init
<1>2. NoError.row = 0 /\ NoError.column \in Heading
  BY FieldsAssumption DEF NoError
<1>3. Config
  BY <1>1 DEF Config
<1>4. TypeOK
  BY <1>1, <1>2 DEF TypeOK
<1>5. LoadedRowsAreTyped
  BY <1>1 DEF LoadedRowsAreTyped
<1>6. RowsBecomeRecords /\ SoundSoFar
  BY <1>1 DEF RowsBecomeRecords, SoundSoFar
<1>7. MessagesNameTheFault
  BY <1>1, <1>2 DEF MessagesNameTheFault
<1> QED
  BY <1>3, <1>4, <1>5, <1>6, <1>7 DEF IInv

LEMMA Stutters ==
  ASSUME IInv, UNCHANGED vars
  PROVE  IInv'
<1>1. /\ UNCHANGED config /\ UNCHANGED <<line, index, records, blanks, outcome, error>>
      /\ folder' = folder /\ columnMap' = columnMap
  BY DEF vars, config
<1>2. Config'
  BY <1>1, SameSheet DEF IInv, Config
<1>3. TypeOK'
  BY <1>1, SameSheet DEF IInv, TypeOK
<1>4. LoadedRowsAreTyped'
  BY <1>1, SameSheet DEF IInv, LoadedRowsAreTyped, MissesId, RequiredFields, IsBlankValue
<1>5. RowsBecomeRecords' /\ SoundSoFar'
  BY <1>1, SameSheet DEF IInv, RowsBecomeRecords, SoundSoFar
<1>6. MessagesNameTheFault'
  BY <1>1, SameSheet DEF IInv, MessagesNameTheFault
<1> QED
  BY <1>2, <1>3, <1>4, <1>5, <1>6 DEF IInv

\* The counts and positions of load_file_mapped, kept by each of its steps.
THEOREM Invariance == Spec => []IInv
<1>1. Init => IInv
  BY StartsRight
<1>2. IInv /\ [Next]_vars => IInv'
  <2> SUFFICES ASSUME IInv, [Next]_vars
               PROVE  IInv'
    OBVIOUS
  <2>1. CASE NoFile \/ CannotRead \/ ValidateColumns
    BY <2>1, Starts
  <2>2. CASE DropLine \/ SkipBlank
    BY <2>2, Skips
  <2>3. CASE RejectCell \/ RejectId
    BY <2>3, Rejects
  <2>4. CASE Accept
    BY <2>4, Accepts
  <2>5. CASE Return
    BY <2>5, Returns
  <2>6. CASE UNCHANGED vars
    BY <2>6, Stutters
  <2> QED
    BY <2>1, <2>2, <2>3, <2>4, <2>5, <2>6 DEF Next
<1> QED
  BY <1>1, <1>2, PTL DEF Spec

\* Types, and: each line is dropped, blank or a record, and the row counter of loader.py:354
\* leaves out the dropped ones only.
THEOREM EveryLineIsCounted == Spec => []TypeOK
<1>1. IInv => TypeOK
  BY DEF IInv
<1> QED
  BY <1>1, Invariance, PTL

\* What the rules are given: casts leave no text where rules compute, and no record of a .csv
\* file lacks a field they index.
THEOREM RulesGetTypedRecords == Spec => []LoadedRowsAreTyped
<1>1. IInv => LoadedRowsAreTyped
  BY DEF IInv
<1> QED
  BY <1>1, Invariance, PTL

\* Renaming rows by the reversed column map (loader.py:283 and :301) loses no filled row or cell.
THEOREM NoRowIsLost == Spec => []RowsBecomeRecords
<1>1. IInv => RowsBecomeRecords
  BY DEF IInv
<1> QED
  BY <1>1, Invariance, PTL

\* The row label and the field in a message of loader.py:362-373 belong to the first faulty cell,
\* and a file that is loaded has none.
THEOREM FaultsAreNamed == Spec => []MessagesNameTheFault
<1>1. IInv => MessagesNameTheFault
  BY DEF IInv
<1> QED
  BY <1>1, Invariance, PTL
=============================================================================
