------------------------------ MODULE Reviews ------------------------------
(***************************************************************************)
(* What successive reviews of the same books find, as the report date and  *)
(* the sensitivity vary: the loop of run_pipeline over the rules (run.py   *)
(* 109-212) with the rules of module RuleSet.  Module Pipeline has what a  *)
(* review does with its findings; here a review is one step.               *)
(***************************************************************************)
EXTENDS RuleSet

CONSTANTS
  AllBooks,      \* the books that may be reviewed
  ReportDates    \* the dates a review may be run as at

ASSUME BooksAssumption == AllBooks \subseteq Books
ASSUME DateAssumption == ReportDates \subseteq Date

VARIABLES
  books,         \* the data, the same for all reviews
  asAt,          \* the date of the last review
  mode,          \* its sensitivity
  outcome,       \* how it ended
  findings       \* the rows each rule failed

vars == <<books, asAt, mode, outcome, findings>>

-----------------------------------------------------------------------------
Nothing == [r \in Rule |-> {}]

Init ==
  /\ books \in AllBooks
  /\ asAt = NoDate
  /\ mode = "standard"
  /\ outcome = "none"
  /\ findings = Nothing

\* Mutant: the findings of the other rules are kept.
KeepGoing(at, m) ==
  /\ asAt' = at
  /\ mode' = m
  /\ outcome' = IF Raised(books, at, m) THEN "raw_error" ELSE "ok"
  /\ findings' = [r \in Rule |-> RowsWith("failed", books, r, at, m)]
  /\ UNCHANGED books
\* A rule that raises ends the review, and nothing is reported.
Review(at, m) ==
  /\ asAt' = at
  /\ mode' = m
  /\ IF Raised(books, at, m)
       THEN outcome' = "raw_error" /\ findings' = Nothing
       ELSE outcome' = "ok" /\ findings' = [r \in Rule |-> RowsWith("failed", books, r, at, m)]
  /\ UNCHANGED books

Next == \E at \in ReportDates : \E m \in Mode : Review(at, m)

Spec == Init /\ [][Next]_vars

-----------------------------------------------------------------------------
\* Types, and: a review that raised reports nothing.
TypeOK ==
  /\ books \in AllBooks
  /\ asAt \in Date
  /\ mode \in Mode
  /\ outcome \in {"none", "ok", "raw_error"}
  /\ findings \in [Rule -> SUBSET Nat]
  /\ outcome # "ok" => findings = Nothing

(***************************************************************************)
(* Later and broader reviews find more: nothing found once is lost when    *)
(* the same books are reviewed as at a later date or at a broader          *)
(* sensitivity, whatever the rounding of the thresholds.  With the same    *)
(* date and sensitivity the findings are the same.                         *)
(***************************************************************************)
Width(m) == CASE m = "broad" -> 3 [] m = "standard" -> 2 [] m = "precise" -> 1
WiderFindsMore ==
  [][outcome = "ok" /\ outcome' = "ok" /\ asAt' >= asAt /\ Width(mode') >= Width(mode)
       => \A r \in Rule : findings[r] \subseteq findings'[r]]_vars

(***************************************************************************)
(* Rules R07 to R10 divide the fees between them without gap or overlap,   *)
(* unless an invoice register has no column of matters: a fee nobody       *)
(* reports has an invoice of its matter which, if it names the matter,     *)
(* covers it and was not issued later; a fee without a usable reference is *)
(* R07's alone; and one without an invoice of its matter is R08's alone,   *)
(* if the invoice names a matter at all.                                   *)
(***************************************************************************)
Backed(e, register) ==
  \E i \in DOMAIN register :
    /\ register[i].id = e.reference
    /\ MatterGet(register[i], Unnamed) = MatterGet(e, Unnamed)
    /\ register[i].matter # NoField =>
         register[i].amount >= e.payment /\ (e.date # NoDate => register[i].issued <= e.date)
FeesAreBacked ==
  outcome = "ok" =>
    /\ \A i \in DOMAIN books.ledger :
         LET e == books.ledger[i]
         IN e.description = "fee" /\ e.payment # 0 =>
              \/ \E r \in {"R07", "R08", "R09", "R10"} : i \in findings[r]
              \/ Backed(e, books.register)
    /\ findings["R07"] \cap (findings["R08"] \cup findings["R09"] \cup findings["R10"]) = {}
    /\ \A i \in findings["R08"] \cap (findings["R09"] \cup findings["R10"]) :
         Unmattered(books.ledger[i], books.register)

(***************************************************************************)
(* R14 reports a reconciliation exactly if it was made after the last      *)
(* Monday to Friday of the first two weeks of the next month (three weeks, *)
(* if that is a January): there are 10 (15) working days up to then,       *)
(* whatever day of the week the month starts with.                         *)
(***************************************************************************)
DeadlineIsStatutory ==
  outcome = "ok" => \A i \in DOMAIN books.periods :
    LET p == books.periods[i]
        first == FirstDay[p.month + 1]
        last == first + (IF p.month % 12 = 0 THEN 20 ELSE 13)
    IN i \in findings["R14"] <=>
         p.month # NoMonth /\
         \E d \in first..last : /\ d % 7 < 5
                                /\ \A x \in (d + 1)..last : x % 7 >= 5
                                /\ p.recon > d
=============================================================================
