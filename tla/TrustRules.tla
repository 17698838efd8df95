----------------------------- MODULE TrustRules -----------------------------
(***************************************************************************)
(* The predicates of trust_domain/rules: what each of the thirteen rules   *)
(* says of one record.  A rule passes a record, fails it, or raises.       *)
(*                                                                         *)
(* Amounts are whole cents, dates are days; a record has the fields the    *)
(* rules read, as load_file_mapped leaves them.  A blank amount is 0, which*)
(* is what every rule but R03 and R04 takes it for.                        *)
(***************************************************************************)
EXTENDS Integers, Sequences

CONSTANTS
  FirstDay,      \* the first day of each month
  Id             \* identifiers of records; month m is a January iff m % 12 = 1

NoDate == 0      \* a blank date
NoId == ""       \* a blank identifier
Null == "None"   \* the blank cell of a workbook or of a short line
NoField == "no column"      \* the data set has no such column
NoText == "no text"         \* a cell that holds something else than text
NoMonth == 0     \* a period_end_date that is no date

Date == Nat
\* The months whose next month has a first day: the deadline falls into that one.
Month == {m \in DOMAIN FirstDay : m + 1 \in DOMAIN FirstDay}

ASSUME CalendarAssumption ==
  \A m \in DOMAIN FirstDay : m \in Nat \ {NoMonth} /\ FirstDay[m] \in Date
ASSUME IdAssumption == Id \cap {NoId, Null, NoField, NoText} = {}

\* The loader does not ask for a column of matters.
MatterRef == Id \cup {NoId, Null, NoField}

(***************************************************************************)
(* The six data sets.                                                      *)
(***************************************************************************)
Matter == [id : Id, fit : BOOLEAN, balance : Int, active : Date]
Entry == [id : Id, matter : MatterRef, date : Date, balance : Int, payment : Int,
          description : {"fee", "other", NoText},
          reference : Id \cup {NoId, NoText}, \* NoId: blank, or text but not INV-NNNNN
          reconciled : BOOLEAN]
Line == [id : Id, date : Date, credit : Int, balance : Int,
         complete : BOOLEAN,                 \* neither amount is blank
         matched : Id \cup {NoId}]
Period == [id : Id, month : Month \cup {NoMonth},
           final : BOOLEAN,                  \* not in progress, neither amount is blank
           ledger : Int, bank : Int, recon : Date]
Invoice == [id : Id, matter : MatterRef, amount : Int, issued : Date]
Allocation == [line : Id, entry : Id \cup {NoId}, amount : Int]

Verdict(passed) == IF passed THEN "passed" ELSE "failed"

-----------------------------------------------------------------------------
\* StalenessChecker.check_age() on one record; a blank date is no date at all.
CheckAge(date, limit, asAt) ==
  IF date = NoDate THEN "raises" ELSE Verdict(asAt - date <= limit)

R01(e) == Verdict(e.balance >= 0)

R02(m, limit, asAt) ==
  IF m.balance = 0 \/ m.active = NoDate THEN "passed" ELSE CheckAge(m.active, limit, asAt)

\* run_pipeline passes no bank statement: the cross-check with it is off.
R03(p) == Verdict(~p.final \/ p.ledger = p.bank)

\* The evidence of a failed line formats both amounts, and a blank one raises.
R04(l, limit, asAt) ==
  IF l.matched # NoId THEN "passed"
  ELSE IF CheckAge(l.date, limit, asAt) = "failed" /\ ~l.complete THEN "raises"
  ELSE CheckAge(l.date, limit, asAt)

R05(e, limit, asAt) == IF e.reconciled THEN "passed" ELSE CheckAge(e.date, limit, asAt)

R06(m, limit, asAt) == IF ~m.fit THEN "passed" ELSE R02(m, limit, asAt)

(***************************************************************************)
(* R07 to R10: a fee or disbursement and the invoice it refers to.  Each   *)
(* calls lower() on the description of every entry, and strip() on the     *)
(* reference of every fee.                                                 *)
(***************************************************************************)
\* Mutant: credits are left out, as the comments of R08 to R10 say.
FeeDebit(e) == e.description = "fee" /\ e.payment > 0
FeePayment(e) == e.description = "fee" /\ e.payment # 0
Refers(e) == FeePayment(e) /\ e.reference # NoId

FeeVerdict(e, passed) ==
  IF e.description = NoText \/ (FeePayment(e) /\ e.reference = NoText) THEN "raises"
  ELSE Verdict(passed)

R07(e) == FeeVerdict(e, ~FeePayment(e) \/ Refers(e))

\* The register is a dict: of two rows with one identifier the last counts.
LastIndex(rows, id) ==
  {i \in DOMAIN rows : rows[i].id = id /\ \A j \in DOMAIN rows : rows[j].id = id => j <= i}
Lookup(rows, id) == {rows[i] : i \in LastIndex(rows, id)}

\* data.get("matter_ref", default): an entry without the field has the matter "?".
MatterGet(x, default) == IF x.matter = NoField THEN default ELSE x.matter
Unnamed == "?"

\* The invoice of the entry's matter: R08 gives an invoice without the field the same
\* default, R09 and R10 give it None.
InvoiceForR08(e, register) ==
  {inv \in Lookup(register, e.reference) : MatterGet(inv, Unnamed) = MatterGet(e, Unnamed)}
MatterInvoice(e, register) ==
  {inv \in Lookup(register, e.reference) : MatterGet(inv, Null) = MatterGet(e, Unnamed)}
Unmattered(e, register) == \E inv \in Lookup(register, e.reference) : inv.matter = NoField

Postdates(inv, e) == inv.issued # NoDate /\ e.date # NoDate /\ inv.issued > e.date

R08(e, register) == FeeVerdict(e, Refers(e) => InvoiceForR08(e, register) # {})

R09(e, register) ==
  FeeVerdict(e, Refers(e) => \A inv \in MatterInvoice(e, register) : e.payment <= inv.amount)

R10(e, register) ==
  FeeVerdict(e, Refers(e) => \A inv \in MatterInvoice(e, register) : ~Postdates(inv, e))

(***************************************************************************)
(* R12: a deposit and its allocations.                                     *)
(***************************************************************************)
Allocated(l, allocations) == {i \in DOMAIN allocations : allocations[i].line = l.id}

\* The amounts of the rows at the positions s, summed up to each position.
TotalUpTo(rows, s) ==
  LET sum[i \in 0..Len(rows)] ==
        IF i = 0 THEN 0 ELSE sum[i - 1] + (IF i \in s THEN rows[i].amount ELSE 0)
  IN sum
AllocSum(l, allocations) ==
  TotalUpTo(allocations, Allocated(l, allocations))[Len(allocations)]

LedgerIds(ledger) == {ledger[i].id : i \in DOMAIN ledger}
InvalidRefs(l, allocations, ledger) ==
  {i \in Allocated(l, allocations) : allocations[i].entry \notin LedgerIds(ledger)}

Traced(l, allocations, ledger) ==
  IF Allocated(l, allocations) = {} THEN l.matched # NoId
  ELSE InvalidRefs(l, allocations, ledger) = {} /\ AllocSum(l, allocations) = l.credit

R12(l, allocations, ledger, bulkMin) ==
  Verdict(l.credit = 0 \/ (bulkMin > 0 /\ l.credit < bulkMin) \/ Traced(l, allocations, ledger))

R13(l) == Verdict(l.balance >= 0)

(***************************************************************************)
(* R14: the deadline of a reconciliation.                                  *)
(***************************************************************************)
WorkingDay(d) == d % 7 < 5      \* day 0 is a Monday

\* How many of the first k days are working days, for up to four weeks.
\* Mutant: the first day is not counted.
WorkingDaysAfter(first) ==
  LET count[k \in 0..28] ==
        IF k = 0 THEN 0 ELSE count[k - 1] + (IF k > 1 /\ WorkingDay(first + k - 1) THEN 1 ELSE 0)
  IN count
WorkingDaysFrom(first) ==
  LET count[k \in 0..28] ==
        IF k = 0 THEN 0 ELSE count[k - 1] + (IF WorkingDay(first + k - 1) THEN 1 ELSE 0)
  IN count

NthWorkingDay(first, n) ==
  first - 1 + CHOOSE k \in 1..28 : WorkingDay(first + k - 1) /\ WorkingDaysFrom(first)[k] = n

DeadlineForPeriod(month) ==
  NthWorkingDay(FirstDay[month + 1], IF month % 12 = 0 THEN 15 ELSE 10)

R14(p) ==
  Verdict(p.month = NoMonth \/ p.recon = NoDate \/ p.recon <= DeadlineForPeriod(p.month))
=============================================================================
