---------------------------- MODULE MCIngestion ----------------------------
(***************************************************************************)
(* A data set with one field of each kind, the columns of which may have   *)
(* other names: sheets of up to three lines drawn from empty, blank, short,*)
(* long, faulty and sound ones, with the columns in several orders, named  *)
(* twice, missing or blank.                                                *)
(***************************************************************************)
EXTENDS Ingestion

MCHeading == {"", "id", "amount", "due", "made", "Sum", "Day", "note"}
MCFloatFields == {"amount"}
MCDateFields == {"due", "made"}
MCComputed == {"due"}

Is(kind, n) == [kind |-> kind, value |-> n]
Blank == Is("blank", 0)
Figure(n) == Is("figure", n)

\* Lines of a text file, for columns of an identifier, an amount and two dates.
CsvLines ==
  {<<>>, <<Blank>>,
   <<Is("word", 1), Figure(5), Is("iso", 7), Is("dmy", 8)>>,
   <<Figure(2), Figure(6), Is("dmy", 9)>>,
   <<Is("word", 3), Blank, Blank, Blank, Figure(4)>>,
   <<Blank, Figure(5), Is("iso", 7), Blank>>,
   <<Is("word", 4), Is("word", 5), Is("nodate", 7), Blank>>,
   <<Is("word", 5), Is("iso", 6), Is("iso", 7), Blank>>}
XlsxLines ==
  {<<NoCell, NoCell>>, <<NoCell, Blank, NoCell>>,
   <<Is("number", 1), Is("number", 5), Is("date", 7), NoCell>>,
   <<Is("word", 2), Figure(6)>>,
   <<Is("word", 3), Is("number", 5), Is("number", 7)>>}

CsvHeadings ==
  {<<"id", "amount", "due", "made">>, <<"id", "amount", "due", "made", "note">>,
   <<"id", "Sum", "Day", "made">>, <<"id", "amount", "Day">>, <<"id", "Day", "Sum">>,
   <<"id", "due", "amount", "made">>, <<"id", "amount", "made", "note", "due">>,
   <<"id", "amount", "due", "amount">>, <<"id", "amount", "due", "Sum">>, <<"id", "Sum", "Day", "amount">>}
XlsxHeadings == {<<"id", "amount", "due">>, <<"id", "Sum", "Day", "note">>, <<"id", "", "due">>}

UpTo(n, s) == UNION {[1..k -> s] : k \in 0..n}
Sheets(headings, lines) ==
  {[readable |-> TRUE, sortable |-> TRUE, headings |-> h, lines |-> l] : h \in headings, l \in lines}
CsvSheets == Sheets(CsvHeadings, UpTo(3, CsvLines))
XlsxSheets == Sheets(XlsxHeadings, UpTo(3, XlsxLines))

aSheet == [readable |-> TRUE, sortable |-> TRUE, headings |-> <<"id", "amount", "due">>,
           lines |-> <<<<Is("word", 1), Figure(5), Is("iso", 7)>>>>]
Odd == {[aSheet EXCEPT !.readable = FALSE], [aSheet EXCEPT !.headings = <<>>],
        [aSheet EXCEPT !.headings = <<"id", "amount">>], [aSheet EXCEPT !.headings = <<"id", "amount">>, !.sortable = FALSE]}

MCFolders ==
  {[x \in {"csv"} |-> s] : s \in CsvSheets \cup Odd} \cup
  {[x \in {"xlsx"} |-> s] : s \in XlsxSheets \cup Odd} \cup
  {[x \in {"csv", "xlsx", "xls"} |-> aSheet], [x \in {"xls"} |-> aSheet], [x \in {} |-> aSheet]}

Entry(internal, client) == [internal |-> internal, client |-> client]
MCColumnMaps ==
  {<<>>,
   <<Entry("amount", "Sum"), Entry("due", "Day")>>,
   <<Entry("due", "Day")>>,
   <<Entry("amount", "Day"), Entry("due", "Day")>>,
   <<Entry("amount", "due"), Entry("due", "amount")>>,
   <<Entry("due", "made"), Entry("made", "note"), Entry("note", "due")>>}

-----------------------------------------------------------------------------
\* loader.py:122 on the label of a row: "matching what a user sees in Excel (row 1 =
\* header, so the first data row is row 2)", and :355 "matching Excel": the row a message
\* names is, in a workbook, a row with a faulty cell or without its identifier.
SheetRowsAreNamed ==
  error.row # 0 /\ Format = "xlsx" /\ OneToOne =>
    error.row - 1 \in DOMAIN Lines /\ ~Sound(error.row - 1)
=============================================================================
