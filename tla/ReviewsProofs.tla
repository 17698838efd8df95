--------------------------- MODULE ReviewsProofs ---------------------------
(***************************************************************************)
(* Later and broader reviews find more, the fee rules leave no gap, and    *)
(* the deadline of a reconciliation is its tenth working day: for all      *)
(* books, thresholds and dates.                                            *)
(*                                                                         *)
(* The findings of a review are a function of books, date and sensitivity  *)
(* (Determined).  What is left is arithmetic on two points: the scaled     *)
(* thresholds are monotone whatever the rounding, and each rule is         *)
(* monotone in its threshold and date.  R04 needs a third: a line that     *)
(* failed once has both amounts, so it does not raise later.  The deadline *)
(* is an induction over the days of a month, at the end of the module.     *)
(***************************************************************************)
EXTENDS Reviews, Recursion

Determined ==
  outcome = "ok" => /\ findings = [r \in Rule |-> RowsWith("failed", books, r, asAt, mode)]
                    /\ ~Raised(books, asAt, mode)

Typed ==
  /\ books \in AllBooks
  /\ asAt \in Date
  /\ mode \in Mode
  /\ outcome \in {"none", "ok", "raw_error"}

IInv == Typed /\ Determined /\ (outcome # "ok" => findings = Nothing)

-----------------------------------------------------------------------------
(***************************************************************************)
(* Thresholds.                                                             *)
(***************************************************************************)
LEMMA DaysScale ==
  ASSUME NEW d \in Nat, NEW m \in Mode, NEW n \in Mode, Width(n) >= Width(m)
  PROVE  /\ ScaleDays(d, m) \in Nat
         /\ ScaleDays(d, n) \in Nat
         /\ ScaleDays(d, n) <= ScaleDays(d, m)
<1>1. /\ Halves(m) \in 1..3
      /\ Halves(n) \in 1..3
      /\ Halves(n) <= Halves(m)
  BY DEF Halves, Width, Mode
<1>2. /\ d * Halves(m) \in Nat
      /\ d * Halves(n) \in Nat
      /\ d * Halves(n) <= d * Halves(m)
  <2>1. Halves(m) = 1 \/ Halves(m) = 2 \/ Halves(m) = 3
    BY <1>1
  <2>2. Halves(n) = 1 \/ Halves(n) = 2 \/ Halves(n) = 3
    BY <1>1
  <2> QED
    BY <1>1, <2>1, <2>2
<1> QED
  BY <1>2 DEF ScaleDays

\* Rounding to the nearest cent is monotone, whichever way ties go.
LEMMA RoundingGrows ==
  ASSUME NEW a \in Nat, NEW b \in Nat, a <= b, NEW d \in Nat \ {0}
  PROVE  /\ ToCents(a, d) \in Nat
         /\ ToCents(b, d) \in Nat
         /\ ToCents(a, d) <= ToCents(b, d)
<1> DEFINE p == a \div d
           q == b \div d
           r == a % d
           s == b % d
<1>1. p \in Nat /\ q \in Nat /\ r \in 0..(d - 1) /\ s \in 0..(d - 1)
  OBVIOUS
<1>2. a = d * p + r /\ b = d * q + s
  OBVIOUS
<1> HIDE DEF p, q, r, s
<1>3. p <= q
  <2> SUFFICES ASSUME q < p PROVE FALSE
    BY <1>1
  <2>1. PICK k \in Nat : p = q + 1 + k
    <3>1. p - q - 1 \in Nat /\ p = q + 1 + (p - q - 1)
      BY <1>1
    <3> QED
      BY <3>1
  <2>2. d * p = d * q + d + d * k /\ d * k \in Nat /\ d * q \in Nat
    BY <1>1, <2>1
  <2> QED
    BY <1>1, <1>2, <2>2
<1>4. p = q => r <= s
  BY <1>1, <1>2
<1>5. p = q /\ r = s => a = b
  BY <1>2
<1>6. /\ ToCents(a, d) = IF 2 * r > d \/ (2 * r = d /\ a \in RoundedUp) THEN p + 1 ELSE p
      /\ ToCents(b, d) = IF 2 * s > d \/ (2 * s = d /\ b \in RoundedUp) THEN q + 1 ELSE q
  BY DEF ToCents, RoundsUp, p, q, r, s
<1>7. CASE p < q
  BY <1>1, <1>6, <1>7
<1>8. CASE p = q
  BY <1>1, <1>4, <1>5, <1>6, <1>8
<1> QED
  BY <1>1, <1>3, <1>7, <1>8

LEMMA AmountsScale ==
  ASSUME NEW c \in Nat, NEW m \in Mode, NEW n \in Mode, Width(n) >= Width(m)
  PROVE  /\ ScaleAmount(c, m) \in Nat
         /\ ScaleAmount(c, n) \in Nat
         /\ ScaleAmount(c, n) <= ScaleAmount(c, m)
<1>1. /\ Halves(m) \in 1..3
      /\ Halves(n) \in 1..3
      /\ Halves(n) <= Halves(m)
  BY DEF Halves, Width, Mode
<1>2. /\ c * Halves(m) \in Nat
      /\ c * Halves(n) \in Nat
      /\ c * Halves(n) <= c * Halves(m)
  <2>1. Halves(m) = 1 \/ Halves(m) = 2 \/ Halves(m) = 3
    BY <1>1
  <2>2. Halves(n) = 1 \/ Halves(n) = 2 \/ Halves(n) = 3
    BY <1>1
  <2> QED
    BY <1>1, <2>1, <2>2
<1>3. 2 * Parts \in Nat \ {0}
  BY ThresholdAssumption
<1> QED
  BY <1>2, <1>3, RoundingGrows DEF ScaleAmount

(***************************************************************************)
(* Each rule that has a threshold, on one record.                          *)
(***************************************************************************)
LEMMA AgeGrows ==
  ASSUME NEW date \in Date, NEW k \in Nat, NEW l \in Nat, l <= k,
         NEW at \in Date, NEW later \in Date, at <= later,
         CheckAge(date, k, at) = "failed"
  PROVE  CheckAge(date, l, later) = "failed"
BY DEF CheckAge, Verdict, Date, NoDate

LEMMA R02Grows ==
  ASSUME NEW m \in Matter, NEW k \in Nat, NEW l \in Nat, l <= k,
         NEW at \in Date, NEW later \in Date, at <= later,
         R02(m, k, at) = "failed"
  PROVE  R02(m, l, later) = "failed"
<1>1. m.active \in Date
  BY DEF Matter
<1>2. ~(m.balance = 0 \/ m.active = NoDate) /\ CheckAge(m.active, k, at) = "failed"
  BY DEF R02
<1> QED
  BY <1>1, <1>2, AgeGrows DEF R02

LEMMA R06Grows ==
  ASSUME NEW m \in Matter, NEW k \in Nat, NEW l \in Nat, l <= k,
         NEW at \in Date, NEW later \in Date, at <= later,
         R06(m, k, at) = "failed"
  PROVE  R06(m, l, later) = "failed"
BY R02Grows DEF R06

LEMMA R04Grows ==
  ASSUME NEW x \in Line, NEW k \in Nat, NEW l \in Nat, l <= k,
         NEW at \in Date, NEW later \in Date, at <= later,
         R04(x, k, at) = "failed"
  PROVE  R04(x, l, later) = "failed"
<1>1. x.date \in Date
  BY DEF Line
<1>2. x.matched = NoId /\ x.complete /\ CheckAge(x.date, k, at) = "failed"
  BY DEF R04
<1> QED
  BY <1>1, <1>2, AgeGrows DEF R04

LEMMA R05Grows ==
  ASSUME NEW e \in Entry, NEW k \in Nat, NEW l \in Nat, l <= k,
         NEW at \in Date, NEW later \in Date, at <= later,
         R05(e, k, at) = "failed"
  PROVE  R05(e, l, later) = "failed"
<1>1. e.date \in Date
  BY DEF Entry
<1>2. ~e.reconciled /\ CheckAge(e.date, k, at) = "failed"
  BY DEF R05
<1> QED
  BY <1>1, <1>2, AgeGrows DEF R05

LEMMA R12Grows ==
  ASSUME NEW x \in Line, NEW allocations, NEW ledger,
         NEW k \in Nat, NEW l \in Nat, l <= k,
         R12(x, allocations, ledger, k) = "failed"
  PROVE  R12(x, allocations, ledger, l) = "failed"
<1>1. x.credit \in Int
  BY DEF Line
<1> QED
  BY <1>1 DEF R12, Verdict

-----------------------------------------------------------------------------
(***************************************************************************)
(* All rules, on all rows.                                                 *)
(***************************************************************************)
LEMMA RowsGrow ==
  ASSUME NEW b \in Books, NEW r \in Rule,
         NEW at \in Date, NEW later \in Date, at <= later,
         NEW m \in Mode, NEW n \in Mode, Width(n) >= Width(m)
  PROVE  RowsWith("failed", b, r, at, m) \subseteq RowsWith("failed", b, r, later, n)
<1> USE ThresholdAssumption
<1>0. /\ \A i \in DOMAIN b.matters : b.matters[i] \in Matter
      /\ \A i \in DOMAIN b.ledger : b.ledger[i] \in Entry
      /\ \A i \in DOMAIN b.lines : b.lines[i] \in Line
  BY DEF Books
<1>1. CASE r = "R02"
  <2> DEFINE k == ScaleDays(Thresholds.dormancy, m)
             l == ScaleDays(Thresholds.dormancy, n)
  <2>1. k \in Nat /\ l \in Nat /\ l <= k
    BY DaysScale
  <2>2. \A i \in DOMAIN b.matters : R02(b.matters[i], k, at) = "failed"
                                      => R02(b.matters[i], l, later) = "failed"
    <3> HIDE DEF k, l
    <3> QED
      BY <1>0, <2>1, R02Grows
  <2> QED
    BY <1>1, <2>2 DEF RowsWith, VerdictsOn
<1>2. CASE r = "R04"
  <2> DEFINE k == ScaleDays(Thresholds.unmatched, m)
             l == ScaleDays(Thresholds.unmatched, n)
  <2>1. k \in Nat /\ l \in Nat /\ l <= k
    BY DaysScale
  <2>2. \A i \in DOMAIN b.lines : R04(b.lines[i], k, at) = "failed"
                                    => R04(b.lines[i], l, later) = "failed"
    <3> HIDE DEF k, l
    <3> QED
      BY <1>0, <2>1, R04Grows
  <2> QED
    BY <1>2, <2>2 DEF RowsWith, VerdictsOn
<1>3. CASE r = "R05"
  <2> DEFINE k == ScaleDays(Thresholds.unreconciled, m)
             l == ScaleDays(Thresholds.unreconciled, n)
  <2>1. k \in Nat /\ l \in Nat /\ l <= k
    BY DaysScale
  <2>2. \A i \in DOMAIN b.ledger : R05(b.ledger[i], k, at) = "failed"
                                     => R05(b.ledger[i], l, later) = "failed"
    <3> HIDE DEF k, l
    <3> QED
      BY <1>0, <2>1, R05Grows
  <2> QED
    BY <1>3, <2>2 DEF RowsWith, VerdictsOn
<1>4. CASE r = "R06"
  <2> DEFINE k == ScaleDays(Thresholds.fit, m)
             l == ScaleDays(Thresholds.fit, n)
  <2>1. k \in Nat /\ l \in Nat /\ l <= k
    BY DaysScale
  <2>2. \A i \in DOMAIN b.matters : R06(b.matters[i], k, at) = "failed"
                                      => R06(b.matters[i], l, later) = "failed"
    <3> HIDE DEF k, l
    <3> QED
      BY <1>0, <2>1, R06Grows
  <2> QED
    BY <1>4, <2>2 DEF RowsWith, VerdictsOn
<1>5. CASE r = "R12"
  <2> DEFINE k == ScaleAmount(Thresholds.bulkMin, m)
             l == ScaleAmount(Thresholds.bulkMin, n)
  <2>1. k \in Nat /\ l \in Nat /\ l <= k
    BY AmountsScale
  <2>2. \A i \in DOMAIN b.lines : R12(b.lines[i], b.allocations, b.ledger, k) = "failed"
                                    => R12(b.lines[i], b.allocations, b.ledger, l) = "failed"
    <3> HIDE DEF k, l
    <3> QED
      BY <1>0, <2>1, R12Grows
  <2> QED
    BY <1>5, <2>2 DEF RowsWith, VerdictsOn
<1>6. CASE r \notin {"R02", "R04", "R05", "R06", "R12"}
  BY <1>6 DEF RowsWith, VerdictsOn, Rule
<1> QED
  BY <1>1, <1>2, <1>3, <1>4, <1>5, <1>6

-----------------------------------------------------------------------------
LEMMA InitIInv == Init => IInv
BY DEF Init, IInv, Typed, Determined, Date, Mode, NoDate, Nothing

LEMMA ReviewIInv ==
  ASSUME IInv, NEW at \in ReportDates, NEW m \in Mode, Review(at, m)
  PROVE  IInv'
<1>1. Typed'
  BY DateAssumption DEF IInv, Typed, Review
<1>2. CASE Raised(books, at, m)
  BY <1>1, <1>2 DEF IInv, Determined, Review, Nothing
<1>3. CASE ~Raised(books, at, m)
  <2>1. /\ findings' = [r \in Rule |-> RowsWith("failed", books, r, at, m)]
        /\ outcome' = "ok" /\ books' = books /\ asAt' = at /\ mode' = m
    BY <1>3 DEF Review
  <2>2. Determined'
    BY <1>3, <2>1 DEF Determined
  <2> QED
    BY <1>1, <2>1, <2>2 DEF IInv
<1> QED
  BY <1>2, <1>3

LEMMA StepIInv == IInv /\ [Next]_vars => IInv'
<1> SUFFICES ASSUME IInv, [Next]_vars PROVE IInv'
  OBVIOUS
<1>1. CASE Next
  BY <1>1, ReviewIInv DEF Next
<1>2. CASE UNCHANGED vars
  BY <1>2 DEF vars, IInv, Typed, Determined, Nothing
<1> QED
  BY <1>1, <1>2

\* The inductive invariant: the findings of a successful review are those of its
\* books, date and sensitivity.
THEOREM FindingsAreDetermined == Spec => []IInv
BY InitIInv, StepIInv, PTL DEF Spec

-----------------------------------------------------------------------------
\* Types, and a review in which a rule raised reports nothing.
THEOREM TypesHold == Spec => []TypeOK
<1>1. IInv => TypeOK
  <2> SUFFICES ASSUME IInv PROVE TypeOK
    OBVIOUS
  <2>1. findings \in [Rule -> SUBSET Nat]
    <3>1. books \in Books
      BY BooksAssumption DEF IInv, Typed
    <3>2. \A r \in Rule : RowsWith("failed", books, r, asAt, mode) \subseteq Nat
      <4>1. /\ DOMAIN books.ledger \subseteq Nat
            /\ DOMAIN books.matters \subseteq Nat
            /\ DOMAIN books.periods \subseteq Nat
            /\ DOMAIN books.lines \subseteq Nat
        BY <3>1 DEF Books
      <4>2. ASSUME NEW r \in Rule
            PROVE  DOMAIN VerdictsOn(books, r, asAt, mode) \in
                     {DOMAIN books.ledger, DOMAIN books.matters,
                      DOMAIN books.periods, DOMAIN books.lines}
        BY <4>2 DEF VerdictsOn, Rule
      <4> QED
        BY <4>1, <4>2 DEF RowsWith
    <3>3. CASE outcome = "ok"
      BY <3>2, <3>3 DEF IInv, Determined
    <3>4. CASE outcome # "ok"
      BY <3>4 DEF IInv, Nothing
    <3> QED
      BY <3>3, <3>4
  <2> QED
    BY <2>1 DEF IInv, Typed, TypeOK
<1> QED
  BY <1>1, FindingsAreDetermined, PTL

\* run.py and apply_sensitivity: a later or broader review of the same books loses no
\* finding of an earlier or narrower one, for all thresholds of load_config.
THEOREM WiderReviewsFindMore == Spec => WiderFindsMore
<1>1. IInv /\ IInv' /\ [Next]_vars =>
        [outcome = "ok" /\ outcome' = "ok" /\ asAt' >= asAt /\ Width(mode') >= Width(mode)
           => \A r \in Rule : findings[r] \subseteq findings'[r]]_vars
  <2> SUFFICES ASSUME IInv, IInv', [Next]_vars, outcome = "ok", outcome' = "ok",
                      asAt' >= asAt, Width(mode') >= Width(mode),
                      NEW r \in Rule
               PROVE  findings[r] \subseteq findings'[r]
    OBVIOUS
  <2>1. /\ books' = books
        /\ books \in Books
    BY BooksAssumption DEF IInv, Typed, Next, Review, vars
  <2>2. PICK at, m : at = asAt' /\ m = mode'
    OBVIOUS
  <2>3. at \in Date /\ m \in Mode /\ asAt \in Date /\ mode \in Mode /\ asAt <= at
    BY <2>2 DEF IInv, Typed, Date
  <2>4. findings[r] = RowsWith("failed", books, r, asAt, mode)
    BY DEF IInv, Determined
  <2>5. findings'[r] = RowsWith("failed", books, r, at, m)
    BY <2>1, <2>2 DEF IInv, Determined
  <2>6. Width(m) >= Width(mode)
    BY <2>2 DEF Width
  <2> QED
    BY <2>1, <2>3, <2>4, <2>5, <2>6, RowsGrow
<1> QED
  BY <1>1, FindingsAreDetermined, PTL DEF Spec, WiderFindsMore

-----------------------------------------------------------------------------
(***************************************************************************)
(* The four rules on fees.                                                 *)
(***************************************************************************)
\* The two lookups differ only on an invoice without the field.
LEMMA LookupsDiffer ==
  ASSUME NEW e, NEW register, NEW inv \in Lookup(register, e.reference), inv.matter # NoField
  PROVE  inv \in InvoiceForR08(e, register) <=> inv \in MatterInvoice(e, register)
BY DEF InvoiceForR08, MatterInvoice, MatterGet

LEMMA ReportedOrBacked ==
  ASSUME NEW e \in Entry, NEW register \in Seq(Invoice), e.description = "fee", e.payment # 0,
         R07(e) = "passed", R08(e, register) = "passed",
         R09(e, register) = "passed", R10(e, register) = "passed"
  PROVE  Backed(e, register)
<1>1. Refers(e)
  BY DEF R07, FeeVerdict, FeePayment, Verdict
<1>2. PICK inv : inv \in InvoiceForR08(e, register)
  BY <1>1 DEF R08, FeeVerdict, Verdict
<1>3. PICK i \in DOMAIN register : inv = register[i] /\ register[i].id = e.reference
  BY <1>2 DEF InvoiceForR08, Lookup, LastIndex
<1>4. MatterGet(register[i], Unnamed) = MatterGet(e, Unnamed)
  BY <1>2, <1>3 DEF InvoiceForR08
<1>5. ASSUME inv.matter # NoField
      PROVE  e.payment <= inv.amount /\ (e.date # NoDate => inv.issued <= e.date)
  <2>1. inv \in Lookup(register, e.reference)
    BY <1>2 DEF InvoiceForR08
  <2>2. inv \in MatterInvoice(e, register)
    BY <1>2, <1>5, <2>1, LookupsDiffer
  <2>3. e.payment <= inv.amount
    BY <1>1, <2>2 DEF R09, FeeVerdict, Verdict
  <2>4. ~Postdates(inv, e)
    BY <1>1, <2>2 DEF R10, FeeVerdict, Verdict
  <2>5. register[i] \in Invoice
    BY <1>3
  <2>6. inv.issued \in Nat /\ e.date \in Nat
    BY <1>3, <2>5 DEF Invoice, Entry, Date
  <2> QED
    BY <2>3, <2>4, <2>6 DEF Postdates, NoDate
<1>6. register[i].matter # NoField => register[i].amount >= e.payment
  <2>1. register[i] \in Invoice
    BY <1>3
  <2>2. inv.amount \in Int /\ e.payment \in Int
    BY <1>3, <2>1 DEF Invoice, Entry
  <2> QED
    BY <1>3, <1>5, <2>2
<1> QED
  BY <1>3, <1>4, <1>5, <1>6 DEF Backed

\* A fee that R08 reports is R09's or R10's too only if its invoice has no matter.
LEMMA OverlapIsUnmattered ==
  ASSUME NEW e, NEW register, R08(e, register) = "failed",
         R09(e, register) = "failed" \/ R10(e, register) = "failed"
  PROVE  Unmattered(e, register)
<1>1. InvoiceForR08(e, register) = {}
  BY DEF R08, FeeVerdict, Verdict
<1>2. PICK inv : inv \in MatterInvoice(e, register)
  BY DEF R09, R10, FeeVerdict, Verdict
<1>3. inv \in Lookup(register, e.reference)
  BY <1>2 DEF MatterInvoice
<1>4. inv.matter = NoField
  BY <1>1, <1>2, <1>3, LookupsDiffer
<1> QED
  BY <1>3, <1>4 DEF Unmattered

\* R07 to R10: a fee that nobody reports is backed by an invoice of its matter, and no
\* fee is reported by two rules that exclude each other, but for invoices without a
\* matter_ref, for all ledgers and registers.
THEOREM FeesDivide == Spec => []FeesAreBacked
<1>1. IInv => FeesAreBacked
  <2> SUFFICES ASSUME IInv, outcome = "ok" PROVE
        /\ \A i \in DOMAIN books.ledger :
             LET e == books.ledger[i]
             IN e.description = "fee" /\ e.payment # 0 =>
                  \/ \E r \in {"R07", "R08", "R09", "R10"} : i \in findings[r]
                  \/ Backed(e, books.register)
        /\ findings["R07"] \cap (findings["R08"] \cup findings["R09"] \cup findings["R10"]) = {}
        /\ \A i \in findings["R08"] \cap (findings["R09"] \cup findings["R10"]) :
             Unmattered(books.ledger[i], books.register)
    BY DEF FeesAreBacked
  <2>1. books \in Books
    BY BooksAssumption DEF IInv, Typed
  <2>2. /\ books.register \in Seq(Invoice)
        /\ \A i \in DOMAIN books.ledger : books.ledger[i] \in Entry
    BY <2>1 DEF Books
  <2>3. /\ findings["R07"] = {i \in DOMAIN books.ledger : R07(books.ledger[i]) = "failed"}
        /\ findings["R08"] = {i \in DOMAIN books.ledger : R08(books.ledger[i], books.register) = "failed"}
        /\ findings["R09"] = {i \in DOMAIN books.ledger : R09(books.ledger[i], books.register) = "failed"}
        /\ findings["R10"] = {i \in DOMAIN books.ledger : R10(books.ledger[i], books.register) = "failed"}
    <3>1. \A r \in Rule : findings[r] = RowsWith("failed", books, r, asAt, mode)
      BY DEF IInv, Determined
    <3> QED
      BY <3>1 DEF RowsWith, VerdictsOn, Rule
  <2>4. \A i \in DOMAIN books.ledger : R07(books.ledger[i]) # "raises"
    <3>1. RowsWith("raises", books, "R07", asAt, mode) = {}
      BY DEF IInv, Determined, Raised, Rule
    <3> QED
      BY <3>1 DEF RowsWith, VerdictsOn
  <2>5. ASSUME NEW e, NEW register, R07(e) # "raises"
        PROVE  /\ R07(e) \in {"passed", "failed"}
               /\ R08(e, register) \in {"passed", "failed"}
               /\ R09(e, register) \in {"passed", "failed"}
               /\ R10(e, register) \in {"passed", "failed"}
    BY <2>5 DEF R07, R08, R09, R10, FeeVerdict, Verdict
  <2>6. ASSUME NEW i \in DOMAIN books.ledger,
               books.ledger[i].description = "fee", books.ledger[i].payment # 0,
               ~\E r \in {"R07", "R08", "R09", "R10"} : i \in findings[r]
        PROVE  Backed(books.ledger[i], books.register)
    <3> DEFINE e == books.ledger[i]
    <3>1. R07(e) = "passed" /\ R08(e, books.register) = "passed"
      BY <2>3, <2>4, <2>5, <2>6
    <3>2. R09(e, books.register) = "passed" /\ R10(e, books.register) = "passed"
      BY <2>3, <2>4, <2>5, <2>6
    <3> QED
      BY <2>2, <2>6, <3>1, <3>2, ReportedOrBacked
  <2>7. findings["R07"] \cap (findings["R08"] \cup findings["R09"] \cup findings["R10"]) = {}
    BY <2>3 DEF R07, R08, R09, R10, Refers, FeePayment, FeeVerdict, Verdict
  <2>8. \A i \in findings["R08"] \cap (findings["R09"] \cup findings["R10"]) :
          Unmattered(books.ledger[i], books.register)
    BY <2>3, OverlapIsUnmattered
  <2> QED
    BY <2>6, <2>7, <2>8
<1> QED
  BY <1>1, FindingsAreDetermined, PTL

-----------------------------------------------------------------------------
(***************************************************************************)
(* The deadline of a reconciliation.  The loop of _nth_working_day counts  *)
(* the working days (DaysAreCounted); any seven days in a row have five of *)
(* them (FiveInSeven), whatever day the month starts with, so the tenth    *)
(* is the last of the first fortnight.                                     *)
(***************************************************************************)
Worked(first) == [k \in 1..28 |-> IF WorkingDay(first + k - 1) THEN 1 ELSE 0]

LEMMA DaysAreCounted ==
  ASSUME NEW first \in Date
  PROVE  Sums(WorkingDaysFrom(first), 28, Worked(first))
<1> DEFINE w == Worked(first)
           Counts(f) == f = [k \in 0..28 |->
             IF k = 0 THEN 0 ELSE f[k - 1] + (IF WorkingDay(first + k - 1) THEN 1 ELSE 0)]
<1>1. w \in [1..28 -> Int] /\ 28 \in Nat
  BY DEF Worked
<1>2. PICK f : Sums(f, 28, w)
  <2> HIDE DEF w
  <2> QED
    BY <1>1, SumsExist
<1>3. ASSUME NEW g
      PROVE  [k \in 0..28 |-> IF k = 0 THEN 0 ELSE g[k - 1] + w[k]]
               = [k \in 0..28 |-> IF k = 0 THEN 0
                                  ELSE g[k - 1] + (IF WorkingDay(first + k - 1) THEN 1 ELSE 0)]
  <2>1. \A k \in 1..28 : w[k] = IF WorkingDay(first + k - 1) THEN 1 ELSE 0
    BY DEF Worked
  <2> HIDE DEF w
  <2>2. \A k \in 0..28 : k # 0 => k \in 1..28
    OBVIOUS
  <2> QED
    BY <2>1, <2>2
<1>4. Counts(f)
  <2>1. f = [k \in 0..28 |-> IF k = 0 THEN 0 ELSE f[k - 1] + w[k]]
    <3> HIDE DEF w
    <3> QED
      BY <1>1, <1>2, SumsAsFunction
  <2> QED
    BY <1>3, <2>1
<1>5. Counts(WorkingDaysFrom(first))
  <2>1. WorkingDaysFrom(first) = CHOOSE g : Counts(g)
    BY DEF WorkingDaysFrom
  <2> HIDE DEF Counts
  <2> QED
    BY <1>4, <2>1
<1>6. WorkingDaysFrom(first) =
        [k \in 0..28 |-> IF k = 0 THEN 0 ELSE WorkingDaysFrom(first)[k - 1] + w[k]]
  BY <1>3, <1>5
<1> HIDE DEF w
<1> QED
  BY <1>1, <1>6, FunctionAsSums DEF w

LEMMA CountGrows ==
  ASSUME NEW first \in Date, NEW i \in 0..28, NEW j \in 0..28, i <= j
  PROVE  WorkingDaysFrom(first)[i] <= WorkingDaysFrom(first)[j]
<1> DEFINE c == WorkingDaysFrom(first)
           S == {k \in 0..28 : \A m \in 0..k : c[m] <= c[k]}
<1>1. /\ c \in [0..28 -> Int]
      /\ \A k \in 1..28 : c[k] = c[k - 1] \/ c[k] = c[k - 1] + 1
  <2>1. \A k \in 1..28 : Worked(first)[k] \in {0, 1}
    BY DEF Worked
  <2> QED
    BY <2>1, DaysAreCounted DEF Sums
<1> HIDE DEF c
<1>2. 0 \in S
  BY <1>1
<1>3. ASSUME NEW k \in 1..28, k - 1 \in S
      PROVE  k \in S
  BY <1>1, <1>3
<1> HIDE DEF S
<1>4. 0..28 \subseteq S
  BY <1>2, <1>3, UpTo
<1> QED
  BY <1>4 DEF S, c

LEMMA FiveInSeven ==
  ASSUME NEW first \in Date, NEW k \in 0..21
  PROVE  WorkingDaysFrom(first)[k + 7] = WorkingDaysFrom(first)[k] + 5
<1> DEFINE c == WorkingDaysFrom(first)
           w == Worked(first)
           r == (first + k) % 7
<1>1. /\ c \in [0..28 -> Int]
      /\ \A i \in 1..28 : c[i] = c[i - 1] + w[i]
  BY DaysAreCounted DEF Sums
<1>2. r \in 0..6
  BY DEF Date
<1>3. \A j \in 0..6 : (first + k + j) % 7 = IF r + j < 7 THEN r + j ELSE r + j - 7
  BY DEF Date
<1>4. \A j \in 0..6 : w[k + j + 1] = IF (IF r + j < 7 THEN r + j ELSE r + j - 7) < 5 THEN 1 ELSE 0
  <2>1. \A j \in 0..6 : k + j + 1 \in 1..28 /\ first + (k + j + 1) - 1 = first + k + j
    BY DEF Date
  <2> QED
    BY <1>3, <2>1 DEF Worked, WorkingDay
<1> HIDE DEF c, w, r
<1>5. /\ c[k + 1] = c[k] + w[k + 1]
      /\ c[k + 2] = c[k + 1] + w[k + 2]
      /\ c[k + 3] = c[k + 2] + w[k + 3]
      /\ c[k + 4] = c[k + 3] + w[k + 4]
      /\ c[k + 5] = c[k + 4] + w[k + 5]
      /\ c[k + 6] = c[k + 5] + w[k + 6]
      /\ c[k + 7] = c[k + 6] + w[k + 7]
  BY <1>1
<1>6. /\ w[k + 1] = IF r < 5 THEN 1 ELSE 0
      /\ w[k + 2] = IF r < 4 \/ r = 6 THEN 1 ELSE 0
      /\ w[k + 3] = IF r < 3 \/ r > 4 THEN 1 ELSE 0
      /\ w[k + 4] = IF r < 2 \/ r > 3 THEN 1 ELSE 0
      /\ w[k + 5] = IF r < 1 \/ r > 2 THEN 1 ELSE 0
      /\ w[k + 6] = IF r > 1 THEN 1 ELSE 0
      /\ w[k + 7] = IF r > 0 /\ r < 6 THEN 1 ELSE 0
  BY <1>2, <1>4
<1>7. c[k] \in Int
  BY <1>1
<1>8. w[k + 1] + w[k + 2] + w[k + 3] + w[k + 4] + w[k + 5] + w[k + 6] + w[k + 7] = 5
  BY <1>2, <1>6
<1>9. /\ w[k + 1] \in Int /\ w[k + 2] \in Int /\ w[k + 3] \in Int /\ w[k + 4] \in Int
      /\ w[k + 5] \in Int /\ w[k + 6] \in Int /\ w[k + 7] \in Int
  BY <1>6
<1>10. c[k + 7] = c[k] + 5
  BY <1>5, <1>7, <1>8, <1>9
<1> QED
  BY <1>10 DEF c

\* The last working day of the first two (three) weeks is the tenth (fifteenth).
LEMMA LastIsNth ==
  ASSUME NEW first \in Date, NEW weeks \in {2, 3}, NEW k \in 1..(7 * weeks),
         WorkingDay(first + k - 1),
         \A j \in (k + 1)..(7 * weeks) : ~WorkingDay(first + j - 1)
  PROVE  NthWorkingDay(first, 5 * weeks) = first + k - 1
<1> DEFINE c == WorkingDaysFrom(first)
<1>1. /\ c \in [0..28 -> Int]
      /\ c[0] = 0
      /\ \A j \in 1..28 : c[j] = c[j - 1] + (IF WorkingDay(first + j - 1) THEN 1 ELSE 0)
  BY DaysAreCounted DEF Sums, Worked
<1>2. c[7 * weeks] = 5 * weeks
  <2>1. c[7] = 5 /\ c[14] = 10 /\ c[21] = 15
    <3>1. c[0 + 7] = c[0] + 5 /\ c[7 + 7] = c[7] + 5 /\ c[14 + 7] = c[14] + 5
      BY FiveInSeven
    <3> HIDE DEF c
    <3> QED
      BY <1>1, <3>1
  <2> QED
    BY <2>1
<1>3. \A i, j \in 0..28 : i <= j => c[i] <= c[j]
  BY CountGrows
<1> HIDE DEF c
<1>4. c[k] = c[7 * weeks]
  <2> DEFINE S == {i \in 0..(7 * weeks - k) : c[k + i] = c[k]}
  <2>1. 0 \in S
    OBVIOUS
  <2>2. ASSUME NEW i \in 1..(7 * weeks - k), i - 1 \in S
        PROVE  i \in S
    <3>1. k + i \in 1..28 /\ k + i \in (k + 1)..(7 * weeks) /\ (k + i) - 1 = k + (i - 1)
      OBVIOUS
    <3>2. c[k + i] = c[(k + i) - 1]
      <4>1. PICK j : j = k + i
        OBVIOUS
      <4>2. j \in 1..28 /\ ~WorkingDay(first + j - 1)
        BY <3>1, <4>1
      <4>3. c[j] = c[j - 1]
        <5>1. c[j] = c[j - 1] + 0
          BY <1>1, <4>2
        <5>2. c[j - 1] \in Int
          BY <1>1, <4>2
        <5> QED
          BY <5>1, <5>2
      <4> QED
        BY <4>1, <4>3
    <3> QED
      BY <2>2, <3>1, <3>2
  <2>3. 7 * weeks - k \in Nat
    OBVIOUS
  <2> HIDE DEF S
  <2>4. 0..(7 * weeks - k) \subseteq S
    BY <2>1, <2>2, <2>3, UpTo
  <2>5. 7 * weeks - k \in S
    BY <2>3, <2>4
  <2> QED
    BY <2>5 DEF S
<1>5. ASSUME NEW j \in 1..28, WorkingDay(first + j - 1), c[j] = 5 * weeks
      PROVE  j = k
  <2>1. k \in 1..28
    OBVIOUS
  <2>2. CASE j < k
    <3>1. c[j] <= c[k - 1] /\ c[k] = c[k - 1] + 1
      BY <1>1, <1>3, <2>1, <2>2
    <3>2. c[k - 1] \in Int
      BY <1>1, <2>1
    <3> QED
      BY <1>1, <1>2, <1>4, <1>5, <3>1, <3>2
  <2>3. CASE j > k
    <3>1. c[k] <= c[j - 1] /\ c[j] = c[j - 1] + 1
      BY <1>1, <1>3, <1>5, <2>1, <2>3
    <3>2. c[j - 1] \in Int
      BY <1>1, <2>1
    <3> QED
      BY <1>1, <1>2, <1>4, <1>5, <3>1, <3>2
  <2> QED
    BY <2>2, <2>3
<1>6. NthWorkingDay(first, 5 * weeks) =
        first - 1 + CHOOSE j \in 1..28 : WorkingDay(first + j - 1) /\ c[j] = 5 * weeks
  BY DEF NthWorkingDay, c
<1>7. (CHOOSE j \in 1..28 : WorkingDay(first + j - 1) /\ c[j] = 5 * weeks) = k
  <2>1. k \in 1..28 /\ WorkingDay(first + k - 1) /\ c[k] = 5 * weeks
    BY <1>2, <1>4
  <2> QED
    BY <1>5, <2>1
<1>8. NthWorkingDay(first, 5 * weeks) = first - 1 + k
  BY <1>6, <1>7, Zenon
<1> QED
  BY <1>8 DEF Date

\* There is such a day: of three days in a row one is a working day.
LEMMA LastExists ==
  ASSUME NEW first \in Date, NEW weeks \in {2, 3}
  PROVE  \E k \in 1..(7 * weeks) : /\ WorkingDay(first + k - 1)
                                   /\ \A j \in (k + 1)..(7 * weeks) : ~WorkingDay(first + j - 1)
<1> DEFINE n == 7 * weeks
           Works(k) == WorkingDay(first + k - 1)
<1>1. n \in Nat /\ n > 3
  OBVIOUS
<1>2. Works(n) \/ Works(n - 1) \/ Works(n - 2)
  BY <1>1 DEF WorkingDay, Date
<1> HIDE DEF n, Works
<1>3. CASE Works(n)
  BY <1>1, <1>3 DEF n, Works
<1>4. CASE ~Works(n) /\ Works(n - 1)
  <2>1. \A j \in (n - 1 + 1)..n : ~Works(j)
    BY <1>1, <1>4
  <2>2. n - 1 \in 1..n
    BY <1>1
  <2> QED
    BY <1>4, <2>1, <2>2 DEF n, Works
<1>5. CASE ~Works(n) /\ ~Works(n - 1) /\ Works(n - 2)
  <2>1. \A j \in (n - 2 + 1)..n : j = n - 1 \/ j = n
    BY <1>1
  <2>2. n - 2 \in 1..n
    BY <1>1
  <2> QED
    BY <1>5, <2>1, <2>2 DEF n, Works
<1> QED
  BY <1>2, <1>3, <1>4, <1>5

\* The day of the property, for one month, is the deadline that R14 computes.
LEMMA DeadlineIsLast ==
  ASSUME NEW month \in Month, NEW d
  PROVE  LET first == FirstDay[month + 1]
             last == first + (IF month % 12 = 0 THEN 20 ELSE 13)
         IN d = DeadlineForPeriod(month) <=>
              d \in first..last /\ d % 7 < 5 /\ \A x \in (d + 1)..last : x % 7 >= 5
<1> DEFINE first == FirstDay[month + 1]
           weeks == IF month % 12 = 0 THEN 3 ELSE 2
           last == first + (IF month % 12 = 0 THEN 20 ELSE 13)
<1>1. first \in Nat /\ weeks \in {2, 3} /\ last = first + 7 * weeks - 1
  BY CalendarAssumption DEF Month, Date
<1>2. DeadlineForPeriod(month) = NthWorkingDay(first, 5 * weeks)
  BY DEF DeadlineForPeriod
<1>3. first \in Date
  BY <1>1 DEF Date
<1> HIDE DEF first, weeks, last
<1>4. PICK k \in 1..(7 * weeks) : /\ WorkingDay(first + k - 1)
                                  /\ \A j \in (k + 1)..(7 * weeks) : ~WorkingDay(first + j - 1)
  BY <1>1, <1>3, LastExists
<1>5. DeadlineForPeriod(month) = first + k - 1
  BY <1>1, <1>2, <1>3, <1>4, LastIsNth
<1>6. /\ first + k - 1 \in first..last
      /\ (first + k - 1) % 7 < 5
      /\ \A x \in (first + k - 1 + 1)..last : x % 7 >= 5
  <2>1. ASSUME NEW x \in (first + k - 1 + 1)..last
        PROVE  x % 7 >= 5
    <3>1. x - first + 1 \in (k + 1)..(7 * weeks) /\ first + (x - first + 1) - 1 = x
      BY <1>1
    <3>2. ~WorkingDay(x)
      BY <1>4, <3>1
    <3> QED
      BY <1>1, <3>2 DEF WorkingDay
  <2> QED
    BY <1>1, <1>4, <2>1 DEF WorkingDay
<1>7. ASSUME d \in first..last, d % 7 < 5, \A x \in (d + 1)..last : x % 7 >= 5
      PROVE  d = first + k - 1
  <2>1. CASE d < first + k - 1
    <3>1. PICK e : e = first + k - 1
      OBVIOUS
    <3>2. e \in (d + 1)..last /\ e % 7 < 5 /\ e \in Int
      BY <1>1, <1>6, <1>7, <2>1, <3>1
    <3>3. e % 7 >= 5
      BY <1>7, <3>2
    <3> QED
      BY <3>2, <3>3
  <2>2. CASE d > first + k - 1
    BY <1>1, <1>6, <1>7, <2>2
  <2> QED
    BY <1>1, <1>7, <2>1, <2>2
<1> QED
  BY <1>5, <1>6, <1>7 DEF first, last

\* r14_reconciliation_timing.py: R14 reports a reconciliation exactly if it came after the
\* last working day of the first two (in January three) weeks of the next month, for every
\* calendar, whatever the day of the week on which a month starts.
THEOREM DeadlineHolds == Spec => []DeadlineIsStatutory
<1>1. IInv => DeadlineIsStatutory
  <2> SUFFICES ASSUME IInv, outcome = "ok", NEW i \in DOMAIN books.periods
               PROVE  LET p == books.periods[i]
                          first == FirstDay[p.month + 1]
                          last == first + (IF p.month % 12 = 0 THEN 20 ELSE 13)
                      IN i \in findings["R14"] <=>
                           p.month # NoMonth /\
                           \E d \in first..last : /\ d % 7 < 5
                                                  /\ \A x \in (d + 1)..last : x % 7 >= 5
                                                  /\ p.recon > d
    BY DEF DeadlineIsStatutory
  <2> DEFINE p == books.periods[i]
             first == FirstDay[p.month + 1]
             last == first + (IF p.month % 12 = 0 THEN 20 ELSE 13)
             due == DeadlineForPeriod(p.month)
  <2>1. p \in Period
    BY BooksAssumption DEF IInv, Typed, Books
  <2>2. p.recon \in Nat /\ p.month \in Month \cup {NoMonth}
    BY <2>1 DEF Period, Date
  <2>3. i \in findings["R14"] <=> R14(p) = "failed"
    <3>1. findings["R14"] = RowsWith("failed", books, "R14", asAt, mode)
      BY DEF IInv, Determined, Rule
    <3> QED
      BY <3>1 DEF RowsWith, VerdictsOn
  <2>4. R14(p) = "failed" <=> ~(p.month = NoMonth \/ p.recon = NoDate \/ p.recon <= due)
    BY DEF R14, Verdict
  <2>5. CASE p.month = NoMonth
    BY <2>3, <2>4, <2>5
  <2>6. CASE p.month # NoMonth
    <3>1. p.month \in Month
      BY <2>2, <2>6
    <3>2. first \in Nat /\ last \in Nat
      BY <3>1, CalendarAssumption DEF Month, Date
    <3>3. \A d : d = due <=>
            d \in first..last /\ d % 7 < 5 /\ \A x \in (d + 1)..last : x % 7 >= 5
      BY <3>1, DeadlineIsLast
    <3> HIDE DEF p, first, last, due
    <3>4. due \in Nat
      BY <3>2, <3>3
    <3>5. (\E d \in first..last : /\ d % 7 < 5
                                  /\ \A x \in (d + 1)..last : x % 7 >= 5
                                  /\ p.recon > d)
            <=> p.recon > due
      BY <3>3
    <3> QED
      BY <2>2, <2>3, <2>4, <2>6, <3>4, <3>5 DEF NoDate, p, first, last
  <2> QED
    BY <2>5, <2>6
<1> QED
  BY <1>1, FindingsAreDetermined, PTL
=============================================================================
