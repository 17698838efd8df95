-------------------------- MODULE FundsTrailProofs --------------------------
(***************************************************************************)
(* The funds trail against the rules, for all statements, ledgers,         *)
(* registers and allocations.                                              *)
(*                                                                         *)
(* Payments.  The rows are those of the fees among the entries seen so     *)
(* far, one each, with the fields that _payment_fields gave them (Rows).   *)
(* What is left is that the cascade of _payment_fields and the four        *)
(* predicates of the rules agree on one entry (FieldsAgree), which rests   *)
(* on the register having at most one invoice for an identifier            *)
(* (AtMostOne).                                                            *)
(*                                                                         *)
(* Receipts.  The rows are those of the credit lines seen so far, and the  *)
(* rows of one line add up to its proceeds (ReceiptRows): the sums of the  *)
(* rows and of the allocations are running totals, and the list of the     *)
(* allocations is gathered one by one, so this goes by induction over the  *)
(* allocations (PortionsAddUp) and over the rows (TotalOfOthers,           *)
(* TotalOfNew).                                                            *)
(***************************************************************************)
EXTENDS FundsTrail, Recursion

Paid(i) == data.ledger[i].description = "fee" /\ data.ledger[i].payment > 0

\* What _payment_fields cannot read.
Unusable(e) ==
  /\ e.payment > 0
  /\ e.description = NoText \/ (e.description = "fee" /\ e.reference = NoText)

Row == [of : Nat, matter : Id \cup {NoId, Null}, amount : Int,
        status : PaymentStatus, rule : {"none", "R08", "R09", "R10"}]

Control ==
  /\ data \in Trails
  /\ leg \in {"receipts", "payments", "done", "raised"}
  /\ at \in Nat \ {0}
  /\ leg # "receipts" => at <= Len(data.ledger) + 1
  /\ leg = "raised" /\ at \in DOMAIN data.ledger => Unusable(data.ledger[at])
  /\ leg = "receipts" => payments = <<>>

Rows ==
  /\ payments \in Seq(Row)
  /\ \A k \in DOMAIN payments :
       LET i == payments[k].of
       IN /\ i \in SeenEntries
          /\ Paid(i) /\ data.ledger[i].reference # NoText
          /\ payments[k].status = PaymentFields(data.ledger[i], data).status
          /\ payments[k].rule = PaymentFields(data.ledger[i], data).rule
  /\ \A j, k \in DOMAIN payments : payments[j].of = payments[k].of => j = k
  /\ \A i \in SeenEntries : Paid(i) => \E k \in DOMAIN payments : payments[k].of = i

IInv == Control /\ Rows

-----------------------------------------------------------------------------
LEMMA AtMostOne ==
  ASSUME NEW rows, DOMAIN rows \subseteq Int, NEW id,
         NEW x \in Lookup(rows, id), NEW y \in Lookup(rows, id)
  PROVE  x = y
<1>1. PICK i \in LastIndex(rows, id) : x = rows[i]
  BY DEF Lookup
<1>2. PICK j \in LastIndex(rows, id) : y = rows[j]
  BY DEF Lookup
<1>3. i = j
  BY DEF LastIndex
<1> QED
  BY <1>1, <1>2, <1>3

LEMMA TypedData ==
  ASSUME data \in Trails
  PROVE  /\ data.register \in Seq(Invoice)
         /\ data.ledger \in Seq(Entry)
         /\ data.provided \in BOOLEAN
         /\ Len(data.ledger) \in Nat
         /\ DOMAIN data.ledger = 1..Len(data.ledger)
         /\ \A i \in DOMAIN data.ledger : data.ledger[i] \in Entry
<1>1. data \in Data
  BY TrailsAssumption
<1>2. /\ data.register \in Seq(Invoice)
      /\ data.ledger \in Seq(Entry)
      /\ data.provided \in BOOLEAN
  BY <1>1 DEF Data
<1> QED
  BY <1>2

\* The cases of _payment_fields, by what the register has for the reference.
LEMMA Cascade ==
  ASSUME data \in Trails, NEW e \in Entry, e.description = "fee", e.payment > 0,
         e.reference \notin {NoId, NoText}
  PROVE  LET found == Lookup(data.register, e.reference)
             failed8 == \A inv \in found : ~SameMatter(inv, e)
             failed9 == ~failed8 /\ \E inv \in found : e.payment > inv.amount
             failed10 == ~failed8 /\ \E inv \in found : Postdates(inv, e)
         IN /\ (R08(e, data.register) = "failed") <=> failed8
            /\ ~failed8 /\ (R09(e, data.register) = "failed") => failed9
            /\ ~failed8 /\ (R10(e, data.register) = "failed") => failed10
            /\ Unmattered(e, data.register) \/
                 /\ (R09(e, data.register) = "failed") <=> failed9
                 /\ (R10(e, data.register) = "failed") <=> failed10
<1>1. Refers(e) /\ e.reference # NoText /\ e.description # NoText
  <2>1. e.payment # 0
    BY DEF Entry
  <2> QED
    BY <2>1 DEF Refers, FeePayment, NoText
<1> DEFINE found == Lookup(data.register, e.reference)
           mine8 == InvoiceForR08(e, data.register)
           mine == MatterInvoice(e, data.register)
<1>2. mine8 = {inv \in found : SameMatter(inv, e)}
  BY DEF InvoiceForR08, SameMatter
<1>3. \A x, y \in found : x = y
  BY TypedData, AtMostOne
<1>4. \A inv \in found : inv.amount \in Int
  <2>1. \A inv \in found : inv \in Invoice
    BY TypedData DEF Lookup, LastIndex
  <2> QED
    BY <2>1 DEF Invoice
<1>5. /\ (R08(e, data.register) = "failed") <=> mine8 = {}
      /\ (R09(e, data.register) = "failed") <=> ~\A inv \in mine : e.payment <= inv.amount
      /\ (R10(e, data.register) = "failed") <=> ~\A inv \in mine : ~Postdates(inv, e)
  BY <1>1 DEF R08, R09, R10, FeeVerdict, Verdict
<1>6. e.payment \in Int
  BY DEF Entry
<1>7. mine8 = {} \/ mine8 = found
  BY <1>2, <1>3
<1>8. \A inv \in found : e.payment > inv.amount <=> ~(e.payment <= inv.amount)
  BY <1>4, <1>6
<1>9. mine \subseteq found
  BY DEF MatterInvoice
<1>10. Unmattered(e, data.register) \/ mine = mine8
  BY DEF Unmattered, InvoiceForR08, MatterInvoice, MatterGet
<1> HIDE DEF found, mine, mine8
<1>11. (R08(e, data.register) = "failed") <=> \A inv \in found : ~SameMatter(inv, e)
  BY <1>2, <1>5
<1>12. /\ (R09(e, data.register) = "failed") => \E inv \in found : e.payment > inv.amount
       /\ (R10(e, data.register) = "failed") => \E inv \in found : Postdates(inv, e)
  BY <1>5, <1>8, <1>9
<1>13. ASSUME mine = mine8
       PROVE  /\ (R09(e, data.register) = "failed") <=>
                   /\ R08(e, data.register) # "failed"
                   /\ \E inv \in found : e.payment > inv.amount
              /\ (R10(e, data.register) = "failed") <=>
                   /\ R08(e, data.register) # "failed"
                   /\ \E inv \in found : Postdates(inv, e)
  BY <1>5, <1>7, <1>8, <1>13
<1> QED
  BY <1>10, <1>11, <1>12, <1>13 DEF found

LEMMA FieldsAgree ==
  ASSUME data \in Trails, NEW e \in Entry, e.description = "fee", e.payment > 0,
         e.reference # NoText, NEW row,
         row.status = PaymentFields(e, data).status,
         row.rule = PaymentFields(e, data).rule
  PROVE  AgreesWithRules(row, e)
<1>1. FeePayment(e) /\ e.description # NoText
  <2>1. e.payment # 0
    BY DEF Entry
  <2> QED
    BY <2>1 DEF FeePayment, NoText
<1>2. (R07(e) = "failed") <=> e.reference = NoId
  BY <1>1 DEF R07, FeeVerdict, Refers, Verdict
<1>3. (R07(e) = "passed") <=> e.reference # NoId
  BY <1>1 DEF R07, FeeVerdict, Refers, Verdict
<1>4. CASE e.reference = NoId
  <2>1. row.status = "NO_INVOICE_REF" /\ row.rule = "none"
    BY <1>4 DEF PaymentFields
  <2>2. FailingRules(e) = {}
    BY <1>1, <1>4 DEF FailingRules, R08, R09, R10, FeeVerdict, Refers, Verdict
  <2> QED
    BY <1>2, <1>3, <1>4, <2>1, <2>2 DEF AgreesWithRules
<1>5. CASE e.reference # NoId /\ ~data.provided
  <2>1. row.status = "UNCHECKED" /\ row.rule = "none"
    BY <1>5 DEF PaymentFields
  <2> QED
    BY <1>2, <1>5, <2>1 DEF AgreesWithRules
<1>6. CASE e.reference # NoId /\ data.provided
  <2> DEFINE found == Lookup(data.register, e.reference)
             f8 == R08(e, data.register) = "failed"
             f9 == R09(e, data.register) = "failed"
             f10 == R10(e, data.register) = "failed"
             c9 == ~f8 /\ \E inv \in found : e.payment > inv.amount
             c10 == ~f8 /\ \E inv \in found : Postdates(inv, e)
             free == Unmattered(e, data.register)
  <2>1. /\ f8 <=> (\A inv \in found : ~SameMatter(inv, e))
        /\ ~f8 /\ f9 => c9
        /\ ~f8 /\ f10 => c10
        /\ free \/ ((f9 <=> c9) /\ (f10 <=> c10))
    BY <1>6, Cascade
  <2>2. /\ f8 => row.status = "EXCEPTION" /\ row.rule = "R08"
        /\ ~f8 /\ c9 => row.status = "EXCEPTION" /\ row.rule = "R09"
        /\ ~f8 /\ ~c9 /\ c10 => row.status = "EXCEPTION" /\ row.rule = "R10"
        /\ ~f8 /\ ~c9 /\ ~c10 => row.status = "PROVEN" /\ row.rule = "none"
    <3> HIDE DEF f8, f9, f10
    <3> QED
      BY <1>6, <2>1 DEF PaymentFields
  <2>3. FailingRules(e) = {x \in {"R08", "R09", "R10"} :
                             (x = "R08" /\ f8) \/ (x = "R09" /\ f9) \/ (x = "R10" /\ f10)}
    BY DEF FailingRules
  <2> HIDE DEF f8, f9, f10, c9, c10, free
  <2>4. /\ "R08" \in FailingRules(e) <=> f8
        /\ "R09" \in FailingRules(e) <=> f9
        /\ "R10" \in FailingRules(e) <=> f10
        /\ FailingRules(e) = {} <=> (~f8 /\ ~f9 /\ ~f10)
        /\ FailingRules(e) = {"R10"} <=> (~f8 /\ ~f9 /\ f10)
    BY <2>3
  <2>5. /\ (row.rule = "R08") <=> f8
        /\ row.status = "PROVEN" => ~f8 /\ ~f9 /\ ~f10
    BY <2>1, <2>2
  <2>6. ASSUME ~free
        PROVE  /\ ~f8 /\ ~f9 /\ ~f10 => row.status = "PROVEN"
               /\ row.rule = "R09" => f9
               /\ row.rule = "R10" => ~f8 /\ ~f9 /\ f10
    <3>1. (f9 <=> c9) /\ (f10 <=> c10)
      BY <2>1, <2>6
    <3> QED
      BY <3>1, <2>2
  <2>7. row.status \in {"EXCEPTION", "PROVEN"}
    BY <2>2
  <2> QED
    BY <1>2, <1>3, <1>6, <2>4, <2>5, <2>6, <2>7 DEF AgreesWithRules, free
<1> QED
  BY <1>4, <1>5, <1>6, TypedData

\* What the trail cannot read, the rules cannot either.
LEMMA UnusableRaises ==
  ASSUME NEW e \in Entry, NEW register, Unusable(e)
  PROVE  /\ R07(e) = "raises" /\ R08(e, register) = "raises"
         /\ R09(e, register) = "raises" /\ R10(e, register) = "raises"
<1>1. e.payment # 0
  BY DEF Unusable, Entry
<1> QED
  BY <1>1 DEF Unusable, R07, R08, R09, R10, FeeVerdict, FeePayment

-----------------------------------------------------------------------------
LEMMA InitIInv == Init => IInv
BY DEF Init, IInv, Control, Rows, SeenEntries

LEMMA SkipEntryIInv == IInv /\ SkipEntry => IInv'
<1> SUFFICES ASSUME IInv, SkipEntry PROVE IInv'
  OBVIOUS
<1> USE DEF IInv, Control, SkipEntry, AtEntry, NextEntry
<1>1. /\ SeenEntries' = SeenEntries \cup {at}
      /\ ~Paid(at)
      /\ data' = data /\ payments' = payments /\ at \notin SeenEntries
  <2>1. data.ledger[at] \in Entry
    BY TypedData
  <2> QED
    BY <2>1 DEF SeenEntries, Paid, entry, Entry
<1>2. Control'
  BY TypedData
<1>3. Rows'
  BY <1>1 DEF Rows, Paid
<1> QED
  BY <1>2, <1>3

LEMMA PaymentIInv == IInv /\ Payment => IInv'
<1> SUFFICES ASSUME IInv, Payment PROVE IInv'
  OBVIOUS
<1> USE DEF IInv, Control, AtEntry, NextEntry
<1> DEFINE new == [of |-> at, matter |-> MatterGet(entry, NoId), amount |-> entry.payment,
                   status |-> PaymentFields(entry, data).status,
                   rule |-> PaymentFields(entry, data).rule]
<1>1. /\ AtEntry /\ NextEntry
      /\ payments' = Append(payments, new)
      /\ data' = data
      /\ Paid(at) /\ data.ledger[at].reference # NoText
  BY DEF Payment, Paid, entry
<1>2. new \in Row
  <2>1. entry \in Entry
    BY <1>1, TypedData DEF entry
  <2>2. MatterGet(entry, NoId) \in Id \cup {NoId, Null} /\ entry.payment \in Int
    BY <2>1 DEF Entry, MatterRef, MatterGet
  <2>3. /\ PaymentFields(entry, data).status \in PaymentStatus
        /\ PaymentFields(entry, data).rule \in {"none", "R08", "R09", "R10"}
    BY TypedData DEF PaymentFields, PaymentStatus
  <2> QED
    BY <2>2, <2>3 DEF Row
<1>3. SeenEntries' = SeenEntries \cup {at} /\ at \notin SeenEntries
  BY <1>1 DEF SeenEntries
<1>4. Control'
  BY <1>1, TypedData
<1> HIDE DEF new, IInv, Control, AtEntry, NextEntry
<1>5. /\ payments \in Seq(Row) /\ payments' \in Seq(Row)
      /\ DOMAIN payments' = DOMAIN payments \cup {Len(payments) + 1}
      /\ Len(payments) + 1 \notin DOMAIN payments
      /\ \A k \in DOMAIN payments : payments'[k] = payments[k]
      /\ payments'[Len(payments) + 1] = new
  BY <1>1, <1>2 DEF IInv, Rows
<1>6. /\ new.of = at
      /\ new.status = PaymentFields(data.ledger[at], data).status
      /\ new.rule = PaymentFields(data.ledger[at], data).rule
  BY DEF new, entry
<1>7. ASSUME NEW k \in DOMAIN payments'
      PROVE  /\ payments'[k].of \in SeenEntries'
             /\ Paid(payments'[k].of) /\ data.ledger[payments'[k].of].reference # NoText
             /\ payments'[k].status = PaymentFields(data.ledger[payments'[k].of], data).status
             /\ payments'[k].rule = PaymentFields(data.ledger[payments'[k].of], data).rule
  BY <1>1, <1>3, <1>5, <1>6 DEF IInv, Rows, Paid
<1>8. ASSUME NEW j \in DOMAIN payments', NEW k \in DOMAIN payments',
             payments'[j].of = payments'[k].of
      PROVE  j = k
  BY <1>3, <1>5, <1>6, <1>8 DEF IInv, Rows
<1>9. ASSUME NEW i \in SeenEntries', Paid(i)'
      PROVE  \E k \in DOMAIN payments' : payments'[k].of = i
  BY <1>1, <1>3, <1>5, <1>6, <1>9 DEF IInv, Rows, Paid
<1>10. Rows'
  BY <1>1, <1>5, <1>7, <1>8, <1>9 DEF Rows, Paid
<1> QED
  BY <1>4, <1>10 DEF IInv

LEMMA StepIInv == IInv /\ [Next]_vars => IInv'
<1> SUFFICES ASSUME IInv, [Next]_vars PROVE IInv'
  OBVIOUS
<1>1. CASE SkipDebit \/ AllocatedReceipt \/ MatchedReceipt
  BY <1>1 DEF SkipDebit, AllocatedReceipt, MatchedReceipt, NextLine, AtLine,
              IInv, Control, Rows, SeenEntries
<1>2. CASE EndOfStatement
  BY <1>2, TypedData DEF EndOfStatement, IInv, Control, Rows, SeenEntries
<1>3. CASE SkipEntry
  BY <1>3, SkipEntryIInv
<1>4. CASE Payment
  BY <1>4, PaymentIInv
<1>5. CASE EndOfLedger
  <2>1. SeenEntries' = SeenEntries
    BY <1>5, TypedData DEF EndOfLedger, IInv, Control, SeenEntries
  <2> QED
    BY <1>5, <2>1 DEF EndOfLedger, IInv, Control, Rows, Paid
<1>6. CASE UNCHANGED vars
  BY <1>6 DEF vars, IInv, Control, Rows, SeenEntries, Paid
<1>7. CASE PaymentRaises
  <2>1. SeenEntries' = SeenEntries
    BY <1>7 DEF PaymentRaises, AtEntry, SeenEntries
  <2>2. Control'
    BY <1>7 DEF PaymentRaises, AtEntry, entry, IInv, Control, Unusable
  <2> QED
    BY <1>7, <2>1, <2>2 DEF PaymentRaises, IInv, Rows, Paid
<1> QED
  BY <1>1, <1>2, <1>3, <1>4, <1>5, <1>6, <1>7 DEF Next

\* The inductive invariant: the payment rows are those of the fees seen, one each.
THEOREM RowsAreOfFees == Spec => []IInv
BY InitIInv, StepIInv, PTL DEF Spec

\* _payment_fields against R07 to R10: the trail never contradicts the exception report
\* on a payment, but for invoices without a matter_ref, no payment is missing or listed
\* twice, and the trail reads every entry that the rules read.
THEOREM TrailAgreesOnPayments == Spec => []PaymentsAgreeWithRules
<1>1. ASSUME IInv, NEW i \in SeenEntries
      PROVE  /\ Cardinality(PaymentsOf(i)) =
                  (IF data.ledger[i].description = "fee" /\ data.ledger[i].payment > 0 THEN 1 ELSE 0)
             /\ \A k \in PaymentsOf(i) : AgreesWithRules(payments[k], data.ledger[i])
  <2>1. i \in DOMAIN data.ledger /\ data.ledger[i] \in Entry
    BY <1>1, TypedData DEF IInv, Control, SeenEntries
  <2>2. \A k \in PaymentsOf(i) :
          /\ Paid(i) /\ data.ledger[i].reference # NoText
          /\ payments[k].status = PaymentFields(data.ledger[i], data).status
          /\ payments[k].rule = PaymentFields(data.ledger[i], data).rule
    BY <1>1 DEF IInv, Rows, PaymentsOf
  <2>3. \A k \in PaymentsOf(i) : AgreesWithRules(payments[k], data.ledger[i])
    BY <1>1, <2>1, <2>2, FieldsAgree DEF IInv, Control, Paid
  <2>4. CASE Paid(i)
    <3>1. PICK k : k \in PaymentsOf(i)
      BY <1>1, <2>4 DEF IInv, Rows, PaymentsOf
    <3>2. PaymentsOf(i) = {k}
      BY <1>1, <3>1 DEF IInv, Rows, PaymentsOf
    <3> QED
      BY <2>3, <2>4, <3>2, FS_Singleton DEF Paid
  <2>5. CASE ~Paid(i)
    <3>1. PaymentsOf(i) = {}
      BY <2>2, <2>5
    <3> QED
      BY <2>3, <2>5, <3>1, FS_EmptySet DEF Paid
  <2> QED
    BY <2>4, <2>5
<1>2. ASSUME IInv, leg = "raised", at \in DOMAIN data.ledger
      PROVE  LET e == data.ledger[at]
             IN /\ R07(e) = "raises"
                /\ \A r \in {R08(e, data.register), R09(e, data.register), R10(e, data.register)} :
                     r = "raises"
  <2>1. data.ledger[at] \in Entry /\ Unusable(data.ledger[at])
    BY <1>2, TypedData DEF IInv, Control
  <2> QED
    BY <2>1, UnusableRaises
<1>3. IInv => PaymentsAgreeWithRules
  BY <1>1, <1>2 DEF PaymentsAgreeWithRules
<1> QED
  BY <1>3, RowsAreOfFees, PTL

-----------------------------------------------------------------------------
(***************************************************************************)
(* The receipts.  Each row is one of a credit line seen, with its status;  *)
(* the rows of such a line add up to its credit if nothing is allocated to *)
(* it, and otherwise to what is allocated.  The figures of the summaries   *)
(* are the numbers of lines and rows with a status.                        *)
(***************************************************************************)
ReceiptRow == [of : Nat, matter : Id \cup {NoId}, entry : Id \cup {NoId},
               amount : Int, status : ReceiptStatus]

Credited(i) == data.lines[i].credit # 0
StatusOf(i) == BankLineStatus(data.lines[i], data)
Proceeds(i) ==
  IF Allocated(data.lines[i], data.allocations) = {} THEN data.lines[i].credit
  ELSE AllocSum(data.lines[i], data.allocations)
CreditLines(S) == {i \in SeenLines : Credited(i) /\ StatusOf(i) \in S}

Loops ==
  /\ leg = "receipts" => at <= Len(data.lines) + 1
  /\ leg # "receipts" => at <= Len(data.ledger) + 1

ReceiptRows ==
  /\ receipts \in Seq(ReceiptRow)
  /\ \A k \in DOMAIN receipts :
       LET i == receipts[k].of
       IN i \in SeenLines /\ Credited(i) /\ receipts[k].status = StatusOf(i)
  /\ \A i \in SeenLines : Credited(i) =>
       /\ \E k \in DOMAIN receipts : receipts[k].of = i
       /\ TotalUpTo(receipts, ReceiptsOf(i))[Len(receipts)] = Proceeds(i)

ReceiptFigures ==
  receiptCount = [proven |-> Cardinality(CreditLines({"PROVEN"})),
                  untraced |-> Cardinality(CreditLines({"UNTRACED"})),
                  mismatch |-> Cardinality(CreditLines(ReceiptStatus \ {"PROVEN", "UNTRACED"}))]
PaymentFigures ==
  paymentCount = [total |-> Len(payments), proven |-> Cardinality(PaymentsWith("PROVEN")),
                  exception |-> Cardinality(PaymentsWith("EXCEPTION"))]

RInv == Loops /\ ReceiptRows /\ ReceiptFigures /\ PaymentFigures

-----------------------------------------------------------------------------
\* The sums of r12 and of MoneyIsConserved, as running totals.
Weights(rows, s) == [k \in 1..Len(rows) |-> IF k \in s THEN rows[k].amount ELSE 0]

LEMMA TotalIsSum ==
  ASSUME NEW V, NEW rows \in Seq(V), \A k \in DOMAIN rows : rows[k].amount \in Int, NEW s
  PROVE  /\ Weights(rows, s) \in [1..Len(rows) -> Int]
         /\ Sums(TotalUpTo(rows, s), Len(rows), Weights(rows, s))
<1> DEFINE n == Len(rows)
           w == Weights(rows, s)
           Totals(f) == f = [i \in 0..Len(rows) |->
             IF i = 0 THEN 0 ELSE f[i - 1] + (IF i \in s THEN rows[i].amount ELSE 0)]
<1>1. w \in [1..n -> Int] /\ n \in Nat
  BY DEF Weights
<1>2. PICK f : Sums(f, n, w)
  <2> HIDE DEF w, n
  <2> QED
    BY <1>1, SumsExist
<1>3. ASSUME NEW g
      PROVE  [i \in 0..n |-> IF i = 0 THEN 0 ELSE g[i - 1] + w[i]]
               = [i \in 0..Len(rows) |->
                    IF i = 0 THEN 0 ELSE g[i - 1] + (IF i \in s THEN rows[i].amount ELSE 0)]
  <2>1. \A i \in 1..n : w[i] = IF i \in s THEN rows[i].amount ELSE 0
    BY DEF Weights
  <2>2. \A i \in 0..n : i # 0 => i \in 1..n
    BY <1>1
  <2> HIDE DEF w
  <2> QED
    BY <2>1, <2>2
<1>4. Totals(f)
  <2>1. f = [i \in 0..n |-> IF i = 0 THEN 0 ELSE f[i - 1] + w[i]]
    <3> HIDE DEF w, n
    <3> QED
      BY <1>1, <1>2, SumsAsFunction
  <2> QED
    BY <1>3, <2>1
<1>5. Totals(TotalUpTo(rows, s))
  <2>1. TotalUpTo(rows, s) = CHOOSE g : Totals(g)
    BY DEF TotalUpTo
  <2> HIDE DEF Totals
  <2> QED
    BY <1>4, <2>1
<1>6. TotalUpTo(rows, s) =
        [i \in 0..n |-> IF i = 0 THEN 0 ELSE TotalUpTo(rows, s)[i - 1] + w[i]]
  BY <1>3, <1>5
<1> HIDE DEF w, n
<1> QED
  BY <1>1, <1>6, FunctionAsSums DEF w, n

\* What the rows of s add up to does not change when others are appended.
LEMMA TotalOfOthers ==
  ASSUME NEW V, NEW rows \in Seq(V), NEW new \in Seq(V), \A v \in V : v.amount \in Int,
         NEW s \in SUBSET (1..Len(rows))
  PROVE  TotalUpTo(rows \o new, s)[Len(rows \o new)] = TotalUpTo(rows, s)[Len(rows)]
<1> DEFINE all == rows \o new
           f == TotalUpTo(all, s)
           g == TotalUpTo(rows, s)
           v == Weights(all, s)
           w == Weights(rows, s)
           n == Len(rows)
           m == Len(all)
<1>1. /\ all \in Seq(V) /\ n \in Nat /\ m \in Nat /\ n <= m
      /\ \A k \in DOMAIN rows : rows[k].amount \in Int
      /\ \A k \in DOMAIN all : all[k].amount \in Int
  <2>1. all \in Seq(V) /\ m = n + Len(new) /\ Len(new) \in Nat /\ n \in Nat
    OBVIOUS
  <2>2. \A k \in DOMAIN rows : rows[k] \in V
    OBVIOUS
  <2> HIDE DEF all
  <2>3. \A k \in DOMAIN all : all[k] \in V
    BY <2>1
  <2> QED
    BY <2>1, <2>2, <2>3
<1>2. SameFrom(v, 0, w, n) /\ Zeros(v, n, m)
  <2>1. \A i \in 1..n : i \in 1..m /\ all[i] = rows[i]
    BY <1>1
  <2> HIDE DEF all
  <2> QED
    BY <1>1, <2>1 DEF Weights, SameFrom, Zeros
<1> HIDE DEF all
<1>3. Sums(f, m, v) /\ Sums(g, n, w) /\ w \in [1..n -> Int]
  BY <1>1, TotalIsSum
<1> HIDE DEF f, g, v, w, n, m
<1>4. f[0 + n] = f[0] + g[n]
  <2> DEFINE zero == 0
  <2>1. zero \in Nat /\ n \in Nat /\ zero + n <= m /\ n <= n /\ SameFrom(v, zero, w, n)
    BY <1>1, <1>2
  <2> HIDE DEF zero
  <2>2. f[zero + n] = f[zero] + g[n]
    BY <1>1, <1>3, <2>1, SumsAgree
  <2> QED
    BY <2>2 DEF zero
<1>5. f[m] = f[n]
  <2>1. n \in Nat /\ m \in Nat /\ n <= m /\ m <= m /\ Zeros(v, n, m)
    BY <1>1, <1>2
  <2> QED
    BY <1>3, <2>1, SumsOfZeros
<1>6. f[0] = 0 /\ g[n] \in Int /\ 0 + n = n
  BY <1>1, <1>3 DEF Sums
<1> QED
  BY <1>4, <1>5, <1>6 DEF f, g, n, m, all

\* The appended rows add up to what they add up to alone.
LEMMA TotalOfNew ==
  ASSUME NEW V, NEW rows \in Seq(V), NEW new \in Seq(V), \A v \in V : v.amount \in Int
  PROVE  TotalUpTo(rows \o new, (Len(rows) + 1)..Len(rows \o new))[Len(rows \o new)]
           = TotalUpTo(new, 1..Len(new))[Len(new)]
<1> DEFINE all == rows \o new
           s == (Len(rows) + 1)..Len(all)
           f == TotalUpTo(all, s)
           g == TotalUpTo(new, 1..Len(new))
           v == Weights(all, s)
           w == Weights(new, 1..Len(new))
           n == Len(rows)
           k == Len(new)
           m == Len(all)
<1>1. /\ all \in Seq(V) /\ n \in Nat /\ k \in Nat /\ m = n + k
      /\ \A i \in DOMAIN new : new[i].amount \in Int
      /\ \A i \in DOMAIN all : all[i].amount \in Int
  <2>1. all \in Seq(V) /\ m = n + k /\ k \in Nat /\ n \in Nat
    OBVIOUS
  <2>2. \A i \in DOMAIN new : new[i] \in V
    OBVIOUS
  <2> HIDE DEF all
  <2>3. \A i \in DOMAIN all : all[i] \in V
    BY <2>1
  <2> QED
    BY <2>1, <2>2, <2>3
<1>2. SameFrom(v, n, w, k) /\ Zeros(v, 0, n)
  <2>1. \A i \in 1..k : n + i \in 1..m /\ n + i \in s /\ all[n + i] = new[i]
    BY <1>1
  <2>2. \A i \in 1..n : i \in 1..m /\ i \notin s
    BY <1>1
  <2> HIDE DEF all, s
  <2> QED
    BY <1>1, <2>1, <2>2 DEF Weights, SameFrom, Zeros
<1> HIDE DEF all, s
<1>3. Sums(f, m, v) /\ Sums(g, k, w) /\ w \in [1..k -> Int]
  BY <1>1, TotalIsSum
<1> HIDE DEF f, g, v, w, n, m, k
<1>4. f[n + k] = f[n] + g[k]
  <2>1. /\ n \in Nat /\ k \in Nat /\ m \in Nat /\ n + k <= m /\ k <= k
        /\ SameFrom(v, n, w, k)
    BY <1>1, <1>2
  <2> QED
    BY <1>3, <2>1, SumsAgree
<1>5. f[n] = f[0]
  <2> DEFINE zero == 0
  <2>1. /\ zero \in Nat /\ n \in Nat /\ m \in Nat /\ zero <= n /\ n <= m
        /\ Zeros(v, zero, n)
    BY <1>1, <1>2
  <2> HIDE DEF zero
  <2>2. f[n] = f[zero]
    BY <1>3, <2>1, SumsOfZeros
  <2> QED
    BY <2>2 DEF zero
<1>6. f[0] = 0 /\ g[k] \in Int
  BY <1>1, <1>3 DEF Sums
<1> QED
  BY <1>1, <1>4, <1>5, <1>6 DEF f, g, n, k, m, s, all

-----------------------------------------------------------------------------
\* The positions that PortionsUpTo has gathered, position by position.
Gathers(p, l, d) ==
  /\ p \in [0..Len(d.allocations) -> Seq(Nat)]
  /\ p[0] = <<>>
  /\ \A i \in 1..Len(d.allocations) :
       p[i] = IF i \in Allocated(l, d.allocations) THEN Append(p[i - 1], i) ELSE p[i - 1]

LEMMA PortionsAreGathered ==
  ASSUME NEW l, NEW d, d.allocations \in Seq(Allocation)
  PROVE  Gathers(PortionsUpTo(l, d), l, d)
<1> DEFINE n == Len(d.allocations)
           own == Allocated(l, d.allocations)
           V == Seq(Nat)
           first == <<>>
           step == [i \in 1..n |-> [p \in V |-> IF i \in own THEN Append(p, i) ELSE p]]
           Fits(f) == f = [i \in 0..Len(d.allocations) |->
             IF i = 0 THEN <<>>
             ELSE IF i \in Allocated(l, d.allocations) THEN Append(f[i - 1], i) ELSE f[i - 1]]
<1>1. n \in Nat /\ first \in V /\ step \in [1..n -> [V -> V]]
  OBVIOUS
<1>2. PICK f : Follows(f, n, V, first, step)
  <2> HIDE DEF n, V, first, step
  <2> QED
    BY <1>1, ByRecursion
<1>3. /\ f \in [0..n -> V] /\ f[0] = <<>>
      /\ \A i \in 1..n : f[i] = IF i \in own THEN Append(f[i - 1], i) ELSE f[i - 1]
  <2>1. \A i \in 1..n : f[i - 1] \in V
    BY <1>1, <1>2 DEF Follows
  <2>2. f \in [0..n -> V] /\ f[0] = <<>> /\ \A i \in 1..n : f[i] = step[i][f[i - 1]]
    BY <1>2 DEF Follows
  <2>3. \A i \in 1..n, p \in V : step[i][p] = IF i \in own THEN Append(p, i) ELSE p
    OBVIOUS
  <2> HIDE DEF V, step, own, n
  <2> QED
    BY <2>1, <2>2, <2>3
<1>4. Fits(f)
  <2>1. \A i \in 0..n : f[i] = IF i = 0 THEN <<>> ELSE IF i \in own THEN Append(f[i - 1], i) ELSE f[i - 1]
    <3>1. \A i \in 0..n : i = 0 \/ i \in 1..n
      BY <1>1
    <3> HIDE DEF V, step, own, n
    <3> QED
      BY <1>3, <3>1
  <2> QED
    BY <1>3, <2>1
<1>5. Fits(PortionsUpTo(l, d))
  <2>1. PortionsUpTo(l, d) = CHOOSE g : Fits(g)
    BY DEF PortionsUpTo
  <2> HIDE DEF Fits
  <2> QED
    BY <1>4, <2>1
<1> DEFINE p == PortionsUpTo(l, d)
           S == {i \in 0..n : p[i] \in V}
<1>6. ASSUME NEW q, Fits(q)
      PROVE  /\ DOMAIN q = 0..n /\ q = [i \in 0..n |-> q[i]] /\ q[0] = <<>>
             /\ \A i \in 1..n : q[i] = IF i \in own THEN Append(q[i - 1], i) ELSE q[i - 1]
  <2>1. \A i \in 0..n : q[i] = IF i = 0 THEN <<>> ELSE IF i \in own THEN Append(q[i - 1], i) ELSE q[i - 1]
    BY <1>6
  <2>2. DOMAIN q = 0..n /\ q = [i \in 0..n |-> q[i]]
    BY <1>6
  <2>3. 0 \in 0..n /\ \A i \in 1..n : i \in 0..n /\ i # 0
    BY <1>1
  <2> HIDE DEF own, n, Fits
  <2> QED
    BY <2>1, <2>2, <2>3
<1> HIDE DEF Fits
<1>7. /\ DOMAIN p = 0..n /\ p = [i \in 0..n |-> p[i]] /\ p[0] = <<>>
      /\ \A i \in 1..n : p[i] = IF i \in own THEN Append(p[i - 1], i) ELSE p[i - 1]
  BY <1>5, <1>6
<1> HIDE DEF p, own
<1>8. 0 \in S
  <2>1. <<>> \in V /\ 0 \in 0..n
    BY <1>1
  <2> QED
    BY <1>7, <2>1
<1>9. ASSUME NEW i \in 1..n, i - 1 \in S
       PROVE  i \in S
  <2>1. p[i - 1] \in V /\ i \in Nat /\ i \in 0..n
    BY <1>1, <1>9
  <2>2. p[i] = p[i - 1] \/ p[i] = Append(p[i - 1], i)
    BY <1>7
  <2>3. p[i] \in V
    <3> DEFINE old == p[i - 1]
               new == p[i]
    <3>1. old \in Seq(Nat) /\ i \in Nat /\ (new = old \/ new = Append(old, i))
      BY <2>1, <2>2
    <3> HIDE DEF old, new
    <3>2. new \in Seq(Nat)
      BY <3>1
    <3> QED
      BY <3>2 DEF new
  <2> QED
    BY <2>1, <2>3
<1> HIDE DEF S, n
<1>10. 0..n \subseteq S
  BY <1>1, <1>8, <1>9, UpTo
<1>11. p \in [0..n -> V]
  BY <1>7, <1>10 DEF S
<1> QED
  BY <1>7, <1>11 DEF Gathers, p, own, n

\* What is gathered early stays where it is.
Prefix(p, q) == Len(p) <= Len(q) /\ \A k \in 1..Len(p) : q[k] = p[k]

LEMMA PortionsGrow ==
  ASSUME NEW l, NEW d, d.allocations \in Seq(Allocation),
         NEW i \in 0..Len(d.allocations)
  PROVE  Prefix(PortionsUpTo(l, d)[i], Portions(l, d))
<1> DEFINE n == Len(d.allocations)
           p == PortionsUpTo(l, d)
           S == {m \in 0..(n - i) : Prefix(p[i], p[i + m])}
<1>1. /\ n \in Nat /\ i \in Nat /\ n - i \in Nat
      /\ p \in [0..n -> Seq(Nat)]
      /\ \A j \in 1..n : p[j] = p[j - 1] \/ p[j] = Append(p[j - 1], j)
  <2>1. Gathers(p, l, d)
    BY PortionsAreGathered
  <2>2. n \in Nat /\ i \in Nat /\ n - i \in Nat
    OBVIOUS
  <2> HIDE DEF p
  <2>3. /\ p \in [0..n -> Seq(Nat)]
        /\ \A j \in 1..n : p[j] = IF j \in Allocated(l, d.allocations)
                                    THEN Append(p[j - 1], j) ELSE p[j - 1]
    BY <2>1 DEF Gathers
  <2> QED
    BY <2>2, <2>3
<1> HIDE DEF p, n
<1>2. 0 \in S
  <2>1. p[i] \in Seq(Nat) /\ i + 0 = i
    BY <1>1 DEF n
  <2> QED
    BY <1>1, <2>1 DEF Prefix
<1>3. ASSUME NEW m \in 1..(n - i), m - 1 \in S
      PROVE  m \in S
  <2>1. PICK j : j = i + m
    OBVIOUS
  <2>2. j \in 1..n /\ j - 1 \in 0..n /\ j - 1 = i + (m - 1) /\ i \in 0..n
    BY <1>1, <2>1
  <2>3. Prefix(p[i], p[j - 1])
    BY <1>3, <2>2
  <2>4. p[i] \in Seq(Nat) /\ p[j - 1] \in Seq(Nat)
    BY <1>1, <2>2
  <2>5. p[j] = p[j - 1] \/ p[j] = Append(p[j - 1], j)
    BY <1>1, <2>2
  <2> HIDE DEF S
  <2>6. Prefix(p[i], p[j])
    <3> DEFINE old == p[j - 1]
               new == p[j]
    <3>1. /\ old \in Seq(Nat) /\ Len(old) \in Nat /\ Len(p[i]) \in Nat
          /\ Len(old) <= Len(new) /\ \A x \in 1..Len(old) : new[x] = old[x]
      BY <2>4, <2>5
    <3> HIDE DEF old, new
    <3> QED
      BY <2>3, <3>1 DEF Prefix, old, new
  <2> QED
    BY <2>1, <2>6 DEF S
<1> HIDE DEF S
<1>4. n - i \in S
  <2>1. 0..(n - i) \subseteq S
    BY <1>1, <1>2, <1>3, UpTo
  <2> QED
    BY <1>1, <2>1
<1>5. i + (n - i) = n
  BY <1>1
<1> QED
  BY <1>4, <1>5 DEF S, Portions, p, n

\* Only allocations of the line are gathered, and not none if there are any.
LEMMA PortionsAreOwn ==
  ASSUME NEW l, NEW d, d.allocations \in Seq(Allocation)
  PROVE  /\ Portions(l, d) \in Seq(Allocated(l, d.allocations))
         /\ Allocated(l, d.allocations) # {} => Len(Portions(l, d)) > 0
<1> DEFINE n == Len(d.allocations)
           p == PortionsUpTo(l, d)
           own == Allocated(l, d.allocations)
           S == {m \in 0..n : p[m] \in Seq(own)}
<1>1. /\ n \in Nat
      /\ p \in [0..n -> Seq(Nat)] /\ p[0] = <<>>
      /\ \A j \in 1..n : p[j] = IF j \in own THEN Append(p[j - 1], j) ELSE p[j - 1]
  BY PortionsAreGathered DEF Gathers
<1> HIDE DEF p
<1>2. 0 \in S
  BY <1>1
<1>3. ASSUME NEW m \in 1..n, m - 1 \in S
      PROVE  m \in S
  <2>1. p[m - 1] \in Seq(own) /\ m \in 0..n
    BY <1>1, <1>3
  <2>2. p[m] = IF m \in own THEN Append(p[m - 1], m) ELSE p[m - 1]
    BY <1>1
  <2> HIDE DEF own, S
  <2>3. p[m] \in Seq(own)
    BY <2>1, <2>2
  <2> QED
    BY <2>1, <2>3 DEF S
<1>4. 0..n \subseteq S
  <2> HIDE DEF S, n
  <2> QED
    BY <1>1, <1>2, <1>3, UpTo
<1>5. p[n] \in Seq(own)
  BY <1>1, <1>4
<1>6. ASSUME NEW j \in own
      PROVE  Len(p[n]) > 0
  <2>1. j \in 1..n
    BY <1>1 DEF Allocated
  <2> HIDE DEF n, own
  <2>2. p[j] = Append(p[j - 1], j) /\ p[j - 1] \in Seq(Nat) /\ j \in 0..n
    <3>1. j - 1 \in 0..n /\ j \in 0..n
      BY <1>1, <2>1
    <3> QED
      BY <1>1, <1>6, <2>1, <3>1
  <2>3. Len(p[j]) > 0
    BY <2>2
  <2>4. Prefix(p[j], p[n])
    BY <2>2, PortionsGrow DEF p, n, Portions
  <2>5. p[n] \in Seq(Nat) /\ p[j] \in Seq(Nat)
    BY <1>1, <2>2
  <2> QED
    BY <2>3, <2>4, <2>5 DEF Prefix
<1> QED
  BY <1>5, <1>6 DEF Portions, p, n, own

MadeOf(new, l, d) ==
  /\ Len(new) = Len(Portions(l, d))
  /\ \A k \in 1..Len(new) : new[k].amount = d.allocations[Portions(l, d)[k]].amount

\* Rows made of the portions add up to what is allocated to the line.
LEMMA PortionsAddUp ==
  ASSUME NEW l, NEW d, d.allocations \in Seq(Allocation),
         NEW V, NEW new \in Seq(V), \A v \in V : v.amount \in Int,
         MadeOf(new, l, d)
  PROVE  TotalUpTo(new, 1..Len(new))[Len(new)] = AllocSum(l, d.allocations)
<1> DEFINE A == d.allocations
           n == Len(A)
           own == Allocated(l, A)
           p == PortionsUpTo(l, d)
           h == TotalUpTo(new, 1..Len(new))
           t == TotalUpTo(A, own)
           S == {j \in 0..n : h[Len(p[j])] = t[j]}
<1>1. /\ n \in Nat
      /\ p \in [0..n -> Seq(Nat)] /\ p[0] = <<>>
      /\ \A j \in 1..n : p[j] = IF j \in own THEN Append(p[j - 1], j) ELSE p[j - 1]
  <2>1. Gathers(p, l, d) /\ n \in Nat
    BY PortionsAreGathered
  <2> HIDE DEF p
  <2> QED
    BY <2>1 DEF Gathers
<1>2. \A j \in DOMAIN A : A[j].amount \in Int
  <2>1. \A j \in DOMAIN A : A[j] \in Allocation
    OBVIOUS
  <2> QED
    BY <2>1 DEF Allocation
<1>3. /\ t \in [0..n -> Int] /\ t[0] = 0
      /\ \A j \in 1..n : t[j] = t[j - 1] + (IF j \in own THEN A[j].amount ELSE 0)
  <2>1. Sums(t, n, Weights(A, own))
    BY <1>2, TotalIsSum
  <2>2. \A j \in 1..n : Weights(A, own)[j] = IF j \in own THEN A[j].amount ELSE 0
    BY DEF Weights
  <2> HIDE DEF t, A, own
  <2> QED
    BY <2>1, <2>2 DEF Sums
<1>4. /\ Len(new) \in Nat
      /\ h \in [0..Len(new) -> Int] /\ h[0] = 0
      /\ \A k \in 1..Len(new) : h[k] = h[k - 1] + new[k].amount
  <2>1. \A k \in DOMAIN new : new[k].amount \in Int
    OBVIOUS
  <2>2. Sums(h, Len(new), Weights(new, 1..Len(new))) /\ Len(new) \in Nat
    BY <2>1, TotalIsSum
  <2>3. \A k \in 1..Len(new) : Weights(new, 1..Len(new))[k] = new[k].amount
    BY DEF Weights
  <2> HIDE DEF h
  <2> QED
    BY <2>2, <2>3 DEF Sums
<1>5. /\ \A j \in 0..n : Prefix(p[j], p[n])
      /\ p[n] = Portions(l, d) /\ Len(p[n]) = Len(new)
  BY PortionsGrow DEF Portions, MadeOf
<1> HIDE DEF A, p, h, t, own, n
<1>6. 0 \in S
  BY <1>1, <1>3, <1>4
<1>7. ASSUME NEW j \in 1..n, j - 1 \in S
      PROVE  j \in S
  <2> DEFINE i == j - 1
             K == Len(p[i])
  <2>1. j \in 0..n /\ i \in 0..n
    BY <1>1
  <2>2. h[K] = t[i] /\ p[i] \in Seq(Nat) /\ K \in Nat /\ t[i] \in Int
    BY <1>1, <1>3, <1>7, <2>1
  <2>3. CASE j \notin own
    <3>1. p[j] = p[i] /\ t[j] = t[i] + 0
      BY <1>1, <1>3, <2>3
    <3> QED
      BY <2>1, <2>2, <3>1
  <2>4. CASE j \in own
    <3>1. p[j] = Append(p[i], j)
      BY <1>1, <2>4
    <3>2. Len(p[j]) = K + 1 /\ p[j][K + 1] = j
      BY <2>2, <3>1
    <3>3. K + 1 <= Len(new) /\ Portions(l, d)[K + 1] = j
      <4>1. Prefix(p[j], p[n]) /\ K + 1 \in 1..(K + 1)
        BY <1>5, <2>1, <2>2
      <4> HIDE DEF K
      <4>2. K + 1 <= Len(p[n]) /\ p[n][K + 1] = p[j][K + 1]
        BY <3>2, <4>1 DEF Prefix
      <4> QED
        BY <1>5, <3>2, <4>2
    <3>4. K + 1 \in 1..Len(new)
      BY <1>4, <2>2, <3>3
    <3>5. h[K + 1] = h[(K + 1) - 1] + new[K + 1].amount /\ (K + 1) - 1 = K
      BY <1>4, <2>2, <3>4
    <3>6. new[K + 1].amount = A[j].amount
      BY <3>3, <3>4 DEF A, MadeOf
    <3>7. t[j] = t[i] + A[j].amount
      BY <1>3, <2>4
    <3>8. h[K + 1] = t[j]
      <4> HIDE DEF K, i
      <4> QED
        BY <2>2, <3>5, <3>6, <3>7
    <3> QED
      BY <2>1, <3>2, <3>8
  <2> QED
    BY <2>3, <2>4
<1> HIDE DEF S
<1>8. n \in S
  <2>1. 0..n \subseteq S
    BY <1>1, <1>6, <1>7, UpTo
  <2> QED
    BY <1>1, <2>1
<1>9. h[Len(p[n])] = t[n]
  BY <1>8 DEF S
<1> QED
  BY <1>5, <1>9 DEF AllocSum, A, h, t, own, n

-----------------------------------------------------------------------------
LEMMA TypedLines ==
  ASSUME data \in Trails
  PROVE  /\ data.lines \in Seq(Line)
         /\ data.allocations \in Seq(Allocation)
         /\ Len(data.lines) \in Nat /\ Len(data.allocations) \in Nat
         /\ DOMAIN data.lines = 1..Len(data.lines)
         /\ DOMAIN data.allocations = 1..Len(data.allocations)
         /\ \A i \in DOMAIN data.lines : data.lines[i] \in Line
         /\ \A i \in DOMAIN data.allocations : data.allocations[i] \in Allocation
<1>1. data \in Data
  BY TrailsAssumption
<1>2. data.lines \in Seq(Line) /\ data.allocations \in Seq(Allocation)
  BY <1>1 DEF Data
<1> QED
  BY <1>2

LEMMA TypedReceipt ==
  ASSUME data \in Trails, at \in Nat, NEW e \in Id \cup {NoId}, NEW a \in Int
  PROVE  /\ Receipt(e, a) \in ReceiptRow
         /\ Receipt(e, a).of = at
         /\ Receipt(e, a).amount = a
         /\ Receipt(e, a).status = StatusOf(at)
<1> DEFINE known == Matters(e, data) \ {NoId, Null}
<1>1. MatterOf(e, data) \in Id \cup {NoId}
  <2>1. \A x \in Lookup(data.ledger, e) : x \in Entry
    BY TypedData DEF Lookup, LastIndex
  <2>2. \A x \in Entry : MatterGet(x, NoId) \in Id \cup {NoId, Null}
    BY DEF MatterGet, Entry, MatterRef
  <2>3. known \subseteq Id
    BY <2>1, <2>2 DEF Matters
  <2> HIDE DEF known
  <2>4. known # {} => (CHOOSE m \in known : TRUE) \in Id
    BY <2>3
  <2>5. MatterOf(e, data) = IF known = {} THEN Unattributed ELSE CHOOSE m \in known : TRUE
    BY DEF MatterOf, known
  <2> QED
    BY <2>4, <2>5 DEF Unattributed
<1>2. BankLineStatus(line, data) \in ReceiptStatus
  BY DEF BankLineStatus, ReceiptStatus
<1> QED
  BY <1>1, <1>2 DEF Receipt, ReceiptRow, StatusOf, line

\* Both receipt actions append rows of the line that add up to its proceeds.
LEMMA RowsAdded ==
  ASSUME IInv, ReceiptRows, AtLine, Credited(at), NEW new \in Seq(ReceiptRow), Len(new) > 0,
         \A k \in DOMAIN new : new[k].of = at /\ new[k].status = StatusOf(at),
         TotalUpTo(new, 1..Len(new))[Len(new)] = Proceeds(at),
         receipts' = receipts \o new, data' = data, leg' = leg, at' = at + 1
  PROVE  ReceiptRows'
<1> DEFINE n == Len(receipts)
           m == Len(receipts')
<1>1. /\ receipts \in Seq(ReceiptRow) /\ n \in Nat /\ Len(new) \in Nat
      /\ receipts' \in Seq(ReceiptRow) /\ m = n + Len(new) /\ m \in Nat
      /\ DOMAIN receipts = 1..n /\ DOMAIN receipts' = 1..m /\ DOMAIN new = 1..Len(new)
      /\ \A k \in 1..n : receipts'[k] = receipts[k]
      /\ \A k \in 1..Len(new) : receipts'[n + k] = new[k]
  BY DEF ReceiptRows
<1>2. /\ SeenLines' = SeenLines \cup {at} /\ at \notin SeenLines
      /\ SeenLines \subseteq Nat /\ at \in Nat
  BY DEF IInv, Control, AtLine, SeenLines
<1>3. \A k \in (n + 1)..m : receipts'[k].of = at /\ receipts'[k].status = StatusOf(at)
  <2> TAKE k \in (n + 1)..m
  <2>1. k - n \in 1..Len(new) /\ n + (k - n) = k
    BY <1>1
  <2>2. receipts'[k] = new[k - n]
    BY <1>1, <2>1
  <2> QED
    BY <1>1, <2>1, <2>2
<1>4. \A k \in 1..m : k \in 1..n \/ k \in (n + 1)..m
  BY <1>1
<1>5. \A v \in ReceiptRow : v.amount \in Int
  BY DEF ReceiptRow
<1>6. \A i : /\ Credited(i)' = Credited(i)
             /\ StatusOf(i)' = StatusOf(i)
             /\ Proceeds(i)' = Proceeds(i)
  BY DEF Credited, StatusOf, Proceeds
<1>7. ASSUME NEW k \in DOMAIN receipts'
      PROVE  /\ receipts'[k].of \in SeenLines'
             /\ Credited(receipts'[k].of)
             /\ receipts'[k].status = StatusOf(receipts'[k].of)
  <2>1. CASE k \in 1..n
    <3>1. receipts'[k] = receipts[k]
      BY <1>1, <2>1
    <3> QED
      BY <1>1, <1>2, <2>1, <3>1 DEF ReceiptRows
  <2>2. CASE k \in (n + 1)..m
    BY <1>2, <1>3, <2>2
  <2> QED
    BY <1>1, <1>4, <2>1, <2>2
<1>8. ASSUME NEW i \in SeenLines, Credited(i)
      PROVE  /\ \E k \in DOMAIN receipts' : receipts'[k].of = i
             /\ TotalUpTo(receipts', ReceiptsOf(i)')[m] = Proceeds(i)
  <2>1. ReceiptsOf(i)' = ReceiptsOf(i)
    <3>1. i # at
      BY <1>2
    <3>2. \A k \in 1..m : receipts'[k].of = i <=> (k \in 1..n /\ receipts[k].of = i)
      BY <1>1, <1>3, <1>4, <3>1
    <3>3. 1..n \subseteq 1..m
      BY <1>1
    <3> HIDE DEF n, m
    <3> QED
      BY <1>1, <3>2, <3>3 DEF ReceiptsOf
  <2>2. ReceiptsOf(i) \in SUBSET (1..n)
    BY <1>1 DEF ReceiptsOf
  <2>3. TotalUpTo(receipts', ReceiptsOf(i))[m] = TotalUpTo(receipts, ReceiptsOf(i))[n]
    BY <1>1, <1>5, <2>2, TotalOfOthers
  <2>4. /\ \E k \in DOMAIN receipts : receipts[k].of = i
        /\ TotalUpTo(receipts, ReceiptsOf(i))[n] = Proceeds(i)
    BY <1>8 DEF ReceiptRows
  <2>5. \E k \in DOMAIN receipts' : receipts'[k].of = i
    <3>1. PICK k \in 1..n : receipts[k].of = i
      BY <1>1, <2>4
    <3>2. k \in 1..m /\ receipts'[k] = receipts[k]
      BY <1>1
    <3> QED
      BY <1>1, <3>1, <3>2
  <2> QED
    BY <2>1, <2>3, <2>4, <2>5
<1>9. ASSUME NEW i \in SeenLines', i = at
      PROVE  /\ \E k \in DOMAIN receipts' : receipts'[k].of = i
             /\ TotalUpTo(receipts', ReceiptsOf(i)')[m] = Proceeds(i)
  <2>1. ReceiptsOf(i)' = (n + 1)..m
    <3>1. \A k \in 1..n : receipts[k].of # i
      BY <1>1, <1>2, <1>9 DEF ReceiptRows
    <3>2. \A k \in 1..m : receipts'[k].of = i <=> k \in (n + 1)..m
      BY <1>1, <1>3, <1>4, <1>9, <3>1
    <3>3. (n + 1)..m \subseteq 1..m
      BY <1>1
    <3> HIDE DEF n, m
    <3>4. {k \in DOMAIN receipts' : receipts'[k].of = i} = (n + 1)..m
      BY <1>1, <3>2, <3>3
    <3> QED
      BY <3>4 DEF ReceiptsOf
  <2>2. TotalUpTo(receipts', (n + 1)..m)[m] = TotalUpTo(new, 1..Len(new))[Len(new)]
    BY <1>1, <1>5, TotalOfNew
  <2>3. m \in 1..m /\ m \in (n + 1)..m
    BY <1>1
  <2> HIDE DEF n, m
  <2> QED
    BY <1>1, <1>3, <1>9, <2>1, <2>2, <2>3
<1> QED
  <2>1. ASSUME NEW i \in SeenLines', Credited(i)
        PROVE  /\ \E k \in DOMAIN receipts' : receipts'[k].of = i
               /\ TotalUpTo(receipts', ReceiptsOf(i)')[m] = Proceeds(i)
    BY <1>2, <1>8, <1>9, <2>1
  <2> QED
    BY <1>1, <1>6, <1>7, <2>1 DEF ReceiptRows

\* Both receipt actions count the line under its status.
LEMMA LineCounted ==
  ASSUME IInv, Loops, ReceiptFigures, AtLine, Credited(at), CountReceipt,
         data' = data, leg' = leg, at' = at + 1
  PROVE  ReceiptFigures'
<1>1. PICK here : here = at
  OBVIOUS
<1>2. /\ SeenLines' = SeenLines \cup {here} /\ here \notin SeenLines
      /\ IsFiniteSet(SeenLines)
  <2>1. SeenLines = 1..(at - 1) /\ at \in Nat
    BY DEF IInv, Control, AtLine, SeenLines
  <2>2. SeenLines' = SeenLines \cup {here} /\ here \notin SeenLines
    BY <1>1, <2>1 DEF IInv, Control, AtLine, SeenLines
  <2>3. IsFiniteSet(1..(at - 1))
    BY <2>1, FS_Interval
  <2> QED
    BY <2>1, <2>2, <2>3
<1>3. \A i : Credited(i)' = Credited(i) /\ StatusOf(i)' = StatusOf(i)
  BY DEF Credited, StatusOf
<1>4. ASSUME NEW S
      PROVE  /\ Cardinality(CreditLines(S)) \in Nat
             /\ Cardinality(CreditLines(S)') =
                  Cardinality(CreditLines(S)) + (IF StatusOf(here) \in S THEN 1 ELSE 0)
  <2> DEFINE old == CreditLines(S)
             new == CreditLines(S)'
  <2>1. new = {i \in SeenLines' : Credited(i) /\ StatusOf(i) \in S}
    BY <1>3 DEF CreditLines
  <2>2. old \subseteq SeenLines /\ here \notin old
    BY <1>2 DEF CreditLines
  <2>3. IsFiniteSet(old)
    BY <1>2, <2>2, FS_Subset
  <2>4. Cardinality(old) \in Nat
    BY <2>3, FS_CardinalityType
  <2>5. CASE StatusOf(here) \in S
    <3>1. new = old \cup {here}
      BY <1>1, <1>2, <2>1, <2>5 DEF CreditLines
    <3>2. Cardinality(old \cup {here}) = Cardinality(old) + 1
      <4> HIDE DEF old
      <4> QED
        BY <2>2, <2>3, FS_AddElement
    <3> QED
      BY <2>4, <2>5, <3>1, <3>2
  <2>6. CASE StatusOf(here) \notin S
    <3>1. new = old
      BY <1>1, <1>2, <2>1, <2>6 DEF CreditLines
    <3> QED
      BY <2>4, <2>6, <3>1
  <2> QED
    BY <2>4, <2>5, <2>6
<1> DEFINE P == {"PROVEN"}
           U == {"UNTRACED"}
           M == ReceiptStatus \ {"PROVEN", "UNTRACED"}
           s == StatusOf(here)
           key == CASE s = "PROVEN" -> "proven" [] s = "UNTRACED" -> "untraced" [] OTHER -> "mismatch"
<1>5. s \in ReceiptStatus
  BY DEF StatusOf, BankLineStatus, ReceiptStatus
<1>6. /\ receiptCount = [proven |-> Cardinality(CreditLines(P)),
                         untraced |-> Cardinality(CreditLines(U)),
                         mismatch |-> Cardinality(CreditLines(M))]
      /\ receiptCount' = [receiptCount EXCEPT ![key] = @ + 1]
  BY <1>1 DEF ReceiptFigures, CountReceipt, StatusOf, line
<1>7. receiptCount' = [proven |-> Cardinality(CreditLines(P)'),
                       untraced |-> Cardinality(CreditLines(U)'),
                       mismatch |-> Cardinality(CreditLines(M)')]
  <2> DEFINE p == Cardinality(CreditLines(P))
             u == Cardinality(CreditLines(U))
             m == Cardinality(CreditLines(M))
  <2>1. /\ p \in Nat /\ u \in Nat /\ m \in Nat
        /\ Cardinality(CreditLines(P)') = p + (IF s \in P THEN 1 ELSE 0)
        /\ Cardinality(CreditLines(U)') = u + (IF s \in U THEN 1 ELSE 0)
        /\ Cardinality(CreditLines(M)') = m + (IF s \in M THEN 1 ELSE 0)
    <3> HIDE DEF P, U, M
    <3> QED
      BY <1>4
  <2>2. receiptCount = [proven |-> p, untraced |-> u, mismatch |-> m]
    BY <1>6
  <2>3. receiptCount' = [receiptCount EXCEPT ![key] = @ + 1]
    BY <1>6
  <2>4. /\ s = "PROVEN" => key = "proven"
        /\ s = "UNTRACED" => key = "untraced"
        /\ s \notin {"PROVEN", "UNTRACED"} => key = "mismatch"
    OBVIOUS
  <2> HIDE DEF p, u, m, s, key
  <2>5. CASE s = "PROVEN"
    <3>1. receiptCount' = [proven |-> p + 1, untraced |-> u, mismatch |-> m]
      <4>1. key = "proven"
        BY <2>4, <2>5
      <4>2. receiptCount' = [receiptCount EXCEPT !["proven"] = @ + 1]
        BY <2>3, <4>1, Zenon
      <4> QED
        BY <2>2, <4>2
    <3>2. s \in P /\ s \notin U /\ s \notin M
      BY <2>5
    <3> HIDE DEF P, U, M
    <3> QED
      BY <2>1, <3>1, <3>2
  <2>6. CASE s = "UNTRACED"
    <3>1. receiptCount' = [proven |-> p, untraced |-> u + 1, mismatch |-> m]
      <4>1. key = "untraced"
        BY <2>4, <2>6
      <4>2. receiptCount' = [receiptCount EXCEPT !["untraced"] = @ + 1]
        BY <2>3, <4>1, Zenon
      <4> QED
        BY <2>2, <4>2
    <3>2. s \notin P /\ s \in U /\ s \notin M
      BY <2>6
    <3> HIDE DEF P, U, M
    <3> QED
      BY <2>1, <3>1, <3>2
  <2>7. CASE s \notin {"PROVEN", "UNTRACED"}
    <3>1. receiptCount' = [proven |-> p, untraced |-> u, mismatch |-> m + 1]
      <4>1. key = "mismatch"
        BY <2>4, <2>7
      <4>2. receiptCount' = [receiptCount EXCEPT !["mismatch"] = @ + 1]
        BY <2>3, <4>1, Zenon
      <4> QED
        BY <2>2, <4>2
    <3>2. s \notin P /\ s \notin U /\ s \in M
      BY <1>5, <2>7
    <3> HIDE DEF P, U, M
    <3> QED
      BY <2>1, <3>1, <3>2
  <2> QED
    BY <2>5, <2>6, <2>7
<1> QED
  BY <1>7 DEF ReceiptFigures, ReceiptStatus

LEMMA InitRInv == Init => RInv
<1> SUFFICES ASSUME Init PROVE RInv
  OBVIOUS
<1>1. SeenLines = {} /\ payments = <<>> /\ receipts = <<>>
  BY DEF Init, SeenLines
<1>2. \A S, s : CreditLines(S) = {} /\ PaymentsWith(s) = {}
  BY <1>1 DEF CreditLines, PaymentsWith
<1>3. data \in Trails /\ at = 1 /\ leg = "receipts"
  BY DEF Init
<1>4. Loops
  BY <1>3, TypedLines DEF Loops
<1>5. ReceiptRows
  BY <1>1 DEF ReceiptRows
<1>6. ReceiptFigures /\ PaymentFigures
  BY <1>1, <1>2, FS_EmptySet DEF Init, ReceiptFigures, PaymentFigures
<1> QED
  BY <1>4, <1>5, <1>6 DEF RInv

LEMMA ReceiptsRInv ==
  ASSUME IInv, RInv, SkipDebit \/ AllocatedReceipt \/ MatchedReceipt
  PROVE  RInv'
<1>1. /\ AtLine /\ NextLine /\ data' = data /\ leg' = leg /\ at' = at + 1
      /\ payments' = payments /\ paymentCount' = paymentCount
  BY DEF SkipDebit, AllocatedReceipt, MatchedReceipt, NextLine
<1>2. /\ data \in Trails /\ at \in Nat /\ at \in DOMAIN data.lines
      /\ line \in Line /\ line = data.lines[at]
  BY <1>1, TypedLines DEF IInv, Control, AtLine, line
<1>3. Loops' /\ PaymentFigures'
  <2>1. Loops'
    BY <1>1, <1>2, TypedLines DEF Loops, AtLine
  <2>2. PaymentFigures'
    BY <1>1 DEF RInv, PaymentFigures, PaymentsWith
  <2> QED
    BY <2>1, <2>2
<1>4. CASE SkipDebit
  <2>1. receipts' = receipts /\ receiptCount' = receiptCount /\ ~Credited(at)
    BY <1>4 DEF SkipDebit, Credited, line
  <2>2. SeenLines' = SeenLines \cup {at}
    BY <1>1 DEF IInv, Control, AtLine, SeenLines
  <2>3. \A i : /\ Credited(i)' = Credited(i)
               /\ StatusOf(i)' = StatusOf(i)
               /\ Proceeds(i)' = Proceeds(i)
               /\ ReceiptsOf(i)' = ReceiptsOf(i)
    BY <1>1, <2>1 DEF Credited, StatusOf, Proceeds, ReceiptsOf
  <2>4. ReceiptRows'
    BY <2>1, <2>2, <2>3 DEF RInv, ReceiptRows
  <2>5. \A S : CreditLines(S)' = CreditLines(S)
    BY <2>1, <2>2, <2>3 DEF CreditLines
  <2>6. ReceiptFigures'
    BY <2>1, <2>5 DEF RInv, ReceiptFigures, ReceiptStatus
  <2> QED
    BY <1>3, <2>4, <2>6 DEF RInv
<1>5. ASSUME NEW new \in Seq(ReceiptRow), Credited(at), CountReceipt, Len(new) > 0,
             \A k \in DOMAIN new : new[k].of = at /\ new[k].status = StatusOf(at),
             TotalUpTo(new, 1..Len(new))[Len(new)] = Proceeds(at),
             receipts' = receipts \o new
      PROVE  RInv'
  <2>1. ReceiptRows'
    BY <1>1, <1>5, RowsAdded DEF RInv
  <2>2. ReceiptFigures'
    BY <1>1, <1>5, LineCounted DEF RInv
  <2> QED
    BY <1>3, <2>1, <2>2 DEF RInv
<1>6. CASE AllocatedReceipt
  <2> DEFINE own == Portions(line, data)
             new == [k \in DOMAIN own |-> PortionReceipt(own[k])]
  <2>1. /\ Credited(at) /\ CountReceipt /\ receipts' = receipts \o new
        /\ Allocated(line, data.allocations) # {}
    BY <1>6 DEF AllocatedReceipt, Credited, line
  <2>2. own \in Seq(Allocated(line, data.allocations)) /\ Len(own) > 0
    BY <1>2, <2>1, PortionsAreOwn, TypedLines
  <2>3. ASSUME NEW k \in DOMAIN own
        PROVE  /\ PortionReceipt(own[k]) \in ReceiptRow
               /\ PortionReceipt(own[k]).of = at
               /\ PortionReceipt(own[k]).status = StatusOf(at)
               /\ PortionReceipt(own[k]).amount = data.allocations[own[k]].amount
    <3>1. own[k] \in DOMAIN data.allocations
      BY <2>2 DEF Allocated
    <3>2. /\ data.allocations[own[k]].entry \in Id \cup {NoId}
          /\ data.allocations[own[k]].amount \in Int
      BY <1>2, <3>1, TypedLines DEF Allocation
    <3> QED
      BY <1>2, <3>2, TypedReceipt DEF PortionReceipt
  <2>4. DOMAIN own = 1..Len(own) /\ Len(own) \in Nat
    BY <2>2
  <2> HIDE DEF own
  <2>5. new \in Seq(ReceiptRow) /\ Len(new) = Len(own) /\ DOMAIN new = DOMAIN own
    BY <2>3, <2>4
  <2>6. \A k \in DOMAIN new : /\ new[k].of = at /\ new[k].status = StatusOf(at)
                              /\ new[k].amount = data.allocations[own[k]].amount
    BY <2>3
  <2> HIDE DEF new
  <2>7. TotalUpTo(new, 1..Len(new))[Len(new)] = AllocSum(line, data.allocations)
    <3>1. \A v \in ReceiptRow : v.amount \in Int
      BY DEF ReceiptRow
    <3>2. MadeOf(new, line, data)
      BY <2>4, <2>5, <2>6 DEF MadeOf, own
    <3>3. data.allocations \in Seq(Allocation)
      BY <1>2, TypedLines
    <3> QED
      BY <2>5, <3>1, <3>2, <3>3, PortionsAddUp
  <2>8. Proceeds(at) = AllocSum(line, data.allocations)
    BY <1>2, <2>1 DEF Proceeds
  <2> QED
    BY <1>5, <2>1, <2>2, <2>5, <2>6, <2>7, <2>8
<1>7. CASE MatchedReceipt
  <2> DEFINE r == Receipt(line.matched, line.credit)
             new == <<r>>
  <2>1. /\ Credited(at) /\ CountReceipt /\ receipts' = Append(receipts, r)
        /\ Allocated(line, data.allocations) = {}
    BY <1>7 DEF MatchedReceipt, Credited, line
  <2>2. /\ r \in ReceiptRow /\ r.of = at /\ r.status = StatusOf(at) /\ r.amount = line.credit
        /\ line.credit \in Int
    <3>1. line.matched \in Id \cup {NoId} /\ line.credit \in Int
      BY <1>2 DEF Line
    <3> QED
      BY <1>2, <3>1, TypedReceipt
  <2> HIDE DEF r
  <2>3. /\ new \in Seq(ReceiptRow) /\ Len(new) = 1 /\ DOMAIN new = {1} /\ new[1] = r
        /\ receipts' = receipts \o new
    BY <2>1, <2>2 DEF RInv, ReceiptRows
  <2> HIDE DEF new
  <2>4. TotalUpTo(new, 1..Len(new))[Len(new)] = line.credit
    <3> DEFINE h == TotalUpTo(new, 1..Len(new))
    <3>1. \A k \in DOMAIN new : new[k].amount \in Int
      BY <2>2, <2>3
    <3>2. Sums(h, 1, Weights(new, 1..1))
      BY <2>3, <3>1, TotalIsSum
    <3>3. Weights(new, 1..1)[1] = line.credit
      BY <2>2, <2>3 DEF Weights
    <3> HIDE DEF h
    <3>4. h[1] = h[0] + line.credit /\ h[0] = 0
      BY <3>2, <3>3 DEF Sums
    <3> QED
      BY <2>2, <2>3, <3>4 DEF h
  <2>5. Proceeds(at) = line.credit
    BY <1>2, <2>1 DEF Proceeds
  <2>6. \A k \in DOMAIN new : new[k].of = at /\ new[k].status = StatusOf(at)
    BY <2>2, <2>3
  <2>7. Len(new) > 0
    BY <2>3
  <2> QED
    BY <1>5, <2>1, <2>3, <2>4, <2>5, <2>6, <2>7
<1> QED
  BY <1>4, <1>6, <1>7

\* After the receipt leg its rows and figures stay.
LEMMA ReceiptsStay ==
  ASSUME data' = data, receipts' = receipts, receiptCount' = receiptCount,
         SeenLines' = SeenLines, ReceiptRows, ReceiptFigures
  PROVE  ReceiptRows' /\ ReceiptFigures'
<1>1. \A i : /\ Credited(i)' = Credited(i)
             /\ StatusOf(i)' = StatusOf(i)
             /\ Proceeds(i)' = Proceeds(i)
             /\ ReceiptsOf(i)' = ReceiptsOf(i)
  BY DEF Credited, StatusOf, Proceeds, ReceiptsOf
<1>2. ReceiptRows'
  BY <1>1 DEF ReceiptRows
<1>3. \A S : CreditLines(S)' = CreditLines(S)
  BY <1>1 DEF CreditLines
<1>4. ReceiptFigures'
  BY <1>3 DEF ReceiptFigures, ReceiptStatus
<1> QED
  BY <1>2, <1>4

LEMMA PaymentCounted ==
  ASSUME IInv, IInv', PaymentFigures, Payment
  PROVE  PaymentFigures'
<1> DEFINE s == PaymentFields(entry, data).status
           n == Len(payments)
           new == [of |-> at, matter |-> MatterGet(entry, NoId), amount |-> entry.payment,
                   status |-> PaymentFields(entry, data).status,
                   rule |-> PaymentFields(entry, data).rule]
<1>1. /\ payments' = Append(payments, new)
      /\ CountPayment(s)
      /\ payments \in Seq(Row)
  BY DEF Payment, IInv, Rows
<1>2. /\ Len(payments') = n + 1 /\ n \in Nat
      /\ DOMAIN payments' = 1..(n + 1) /\ DOMAIN payments = 1..n
      /\ payments'[n + 1].status = s
      /\ \A k \in 1..n : payments'[k] = payments[k]
  <2>1. new.status = s
    OBVIOUS
  <2> HIDE DEF new, s
  <2> QED
    BY <1>1, <2>1
<1> HIDE DEF s, new
<1>3. ASSUME NEW x
      PROVE  /\ Cardinality(PaymentsWith(x)) \in Nat
             /\ Cardinality(PaymentsWith(x)') =
                  Cardinality(PaymentsWith(x)) + (IF s = x THEN 1 ELSE 0)
  <2> DEFINE old == PaymentsWith(x)
  <2>1. old \subseteq 1..n /\ n + 1 \notin old
    BY <1>2 DEF PaymentsWith
  <2>2. IsFiniteSet(1..n)
    BY <1>2, FS_Interval
  <2>3. IsFiniteSet(old) /\ Cardinality(old) \in Nat
    <3> HIDE DEF old
    <3> QED
      BY <2>1, <2>2, FS_Subset, FS_CardinalityType
  <2>4. PaymentsWith(x)' = IF s = x THEN old \cup {n + 1} ELSE old
    <3>1. \A k \in 1..(n + 1) : k \in 1..n \/ k = n + 1
      BY <1>2
    <3>2. \A k \in 1..n : k \in 1..(n + 1) /\ k # n + 1
      BY <1>2
    <3>3. n + 1 \in 1..(n + 1)
      BY <1>2
    <3> HIDE DEF n
    <3> QED
      BY <1>2, <3>1, <3>2, <3>3 DEF PaymentsWith
  <2>5. Cardinality(old \cup {n + 1}) = Cardinality(old) + 1
    <3> HIDE DEF old, n
    <3> QED
      BY <2>1, <2>3, FS_AddElement
  <2> HIDE DEF old
  <2> QED
    BY <2>3, <2>4, <2>5 DEF old
<1>4. /\ paymentCount = [total |-> n, proven |-> Cardinality(PaymentsWith("PROVEN")),
                         exception |-> Cardinality(PaymentsWith("EXCEPTION"))]
      /\ paymentCount' = [paymentCount EXCEPT !.total = @ + 1,
                            !.proven = IF s = "PROVEN" THEN @ + 1 ELSE @,
                            !.exception = IF s = "EXCEPTION" THEN @ + 1 ELSE @]
  BY <1>1 DEF PaymentFigures, CountPayment
<1> DEFINE p == Cardinality(PaymentsWith("PROVEN"))
           x == Cardinality(PaymentsWith("EXCEPTION"))
<1>5. /\ p \in Nat /\ x \in Nat
      /\ Cardinality(PaymentsWith("PROVEN")') = p + (IF s = "PROVEN" THEN 1 ELSE 0)
      /\ Cardinality(PaymentsWith("EXCEPTION")') = x + (IF s = "EXCEPTION" THEN 1 ELSE 0)
  BY <1>3
<1> HIDE DEF p, x, n
<1>6. paymentCount' = [total |-> n + 1, proven |-> IF s = "PROVEN" THEN p + 1 ELSE p,
                       exception |-> IF s = "EXCEPTION" THEN x + 1 ELSE x]
  BY <1>4 DEF p, x
<1>7. paymentCount' = [total |-> Len(payments'), proven |-> Cardinality(PaymentsWith("PROVEN")'),
                       exception |-> Cardinality(PaymentsWith("EXCEPTION")')]
  BY <1>2, <1>5, <1>6 DEF n
<1> QED
  BY <1>7 DEF PaymentFigures

LEMMA StepRInv == IInv /\ IInv' /\ RInv /\ [Next]_vars => RInv'
<1> SUFFICES ASSUME IInv, IInv', RInv, [Next]_vars PROVE RInv'
  OBVIOUS
<1>1. CASE SkipDebit \/ AllocatedReceipt \/ MatchedReceipt
  BY <1>1, ReceiptsRInv
<1>2. CASE EndOfStatement
  <2>1. SeenLines' = SeenLines
    BY <1>2, TypedLines DEF EndOfStatement, IInv, Control, RInv, Loops, SeenLines
  <2>2. /\ data' = data /\ receipts' = receipts /\ receiptCount' = receiptCount
        /\ payments' = payments /\ paymentCount' = paymentCount /\ leg' = "payments"
    BY <1>2 DEF EndOfStatement
  <2>3. ReceiptRows' /\ ReceiptFigures'
    BY <2>1, <2>2, ReceiptsStay DEF RInv
  <2>4. Loops' /\ PaymentFigures'
    BY <2>2 DEF IInv, Control, RInv, Loops, PaymentFigures, PaymentsWith
  <2> QED
    BY <2>3, <2>4 DEF RInv
<1>3. CASE SkipEntry \/ PaymentRaises \/ Payment \/ EndOfLedger
  <2>1. /\ data' = data /\ receipts' = receipts /\ receiptCount' = receiptCount
        /\ leg = "payments" /\ leg' \in {"payments", "done", "raised"}
    BY <1>3 DEF SkipEntry, PaymentRaises, Payment, EndOfLedger, AtEntry, NextEntry
  <2>2. SeenLines' = SeenLines
    BY <2>1 DEF SeenLines
  <2>3. ReceiptRows' /\ ReceiptFigures'
    BY <2>1, <2>2, ReceiptsStay DEF RInv
  <2>4. Loops'
    BY <2>1 DEF IInv, Control, Loops
  <2>5. PaymentFigures'
    <3>1. CASE Payment
      BY <3>1, PaymentCounted DEF RInv
    <3>2. CASE SkipEntry \/ PaymentRaises \/ EndOfLedger
      BY <3>2 DEF SkipEntry, PaymentRaises, EndOfLedger, RInv, PaymentFigures, PaymentsWith
    <3> QED
      BY <1>3, <3>1, <3>2
  <2> QED
    BY <2>3, <2>4, <2>5 DEF RInv
<1>4. CASE UNCHANGED vars
  <2>1. SeenLines' = SeenLines
    BY <1>4 DEF vars, SeenLines
  <2>2. ReceiptRows' /\ ReceiptFigures'
    BY <1>4, <2>1, ReceiptsStay DEF RInv, vars
  <2>3. Loops' /\ PaymentFigures'
    BY <1>4 DEF vars, RInv, Loops, PaymentFigures, PaymentsWith
  <2> QED
    BY <2>2, <2>3 DEF RInv
<1> QED
  BY <1>1, <1>2, <1>3, <1>4 DEF Next

\* The second inductive invariant: every receipt row is one of its line, the rows of a
\* line add up to its proceeds, and the figures are numbers of lines and rows.
THEOREM RowsAreOfCredits == Spec => []RInv
BY InitRInv, StepRInv, RowsAreOfFees, PTL DEF Spec

\* Rows and figures have their types, and both loops stay within their lists.
THEOREM TrailIsTyped == Spec => []TypeOK
<1>1. IInv /\ RInv => TypeOK
  <2> SUFFICES ASSUME IInv, RInv PROVE TypeOK
    OBVIOUS
  <2>1. at \in 1..((IF leg = "receipts" THEN Len(data.lines) ELSE Len(data.ledger)) + 1)
    BY TypedLines, TypedData DEF IInv, Control, RInv, Loops
  <2>2. \A S : Cardinality(CreditLines(S)) \in Nat
    <3>1. IsFiniteSet(SeenLines)
      <4>1. SeenLines = 1..(at - 1) \/ SeenLines = 1..Len(data.lines)
        BY TypedLines DEF IInv, Control, SeenLines
      <4>2. at - 1 \in Nat /\ Len(data.lines) \in Nat
        BY TypedLines DEF IInv, Control
      <4>3. IsFiniteSet(1..(at - 1)) /\ IsFiniteSet(1..Len(data.lines))
        BY <4>2, FS_Interval
      <4> QED
        BY <4>1, <4>3
    <3>2. \A S : CreditLines(S) \subseteq SeenLines
      BY DEF CreditLines
    <3> QED
      BY <3>1, <3>2, FS_Subset, FS_CardinalityType
  <2>3. receiptCount \in [proven : Nat, untraced : Nat, mismatch : Nat]
    BY <2>2 DEF RInv, ReceiptFigures
  <2>4. Len(payments) \in Nat /\ \A s : Cardinality(PaymentsWith(s)) \in Nat
    <3>1. Len(payments) \in Nat /\ DOMAIN payments = 1..Len(payments)
      BY DEF IInv, Rows
    <3>2. IsFiniteSet(1..Len(payments))
      BY <3>1, FS_Interval
    <3>3. \A s : PaymentsWith(s) \subseteq 1..Len(payments)
      BY <3>1 DEF PaymentsWith
    <3> QED
      BY <3>1, <3>2, <3>3, FS_Subset, FS_CardinalityType
  <2>5. paymentCount \in [total : Nat, proven : Nat, exception : Nat]
    BY <2>4 DEF RInv, PaymentFigures
  <2> QED
    BY <2>1, <2>3, <2>5 DEF TypeOK, IInv, Control, Rows, Row, RInv, ReceiptRows, ReceiptRow,
                                    Unattributed
<1> QED
  BY <1>1, RowsAreOfFees, RowsAreOfCredits, PTL

\* _receipt_status against R12: the trail never contradicts the exception report on a
\* deposit, and no credit line is without a receipt.
THEOREM TrailAgreesOnReceipts == Spec => []ReceiptsAgreeWithR12
<1>1. IInv /\ RInv => ReceiptsAgreeWithR12
  <2> SUFFICES ASSUME IInv, RInv, NEW i \in SeenLines
               PROVE  /\ (ReceiptsOf(i) = {}) <=> (data.lines[i].credit = 0)
                      /\ \A k \in ReceiptsOf(i) :
                           (receipts[k].status = "PROVEN") <=>
                             (R12(data.lines[i], data.allocations, data.ledger, 0) = "passed")
    BY DEF ReceiptsAgreeWithR12
  <2>1. (ReceiptsOf(i) = {}) <=> ~Credited(i)
    BY DEF RInv, ReceiptRows, ReceiptsOf
  <2>2. \A k \in ReceiptsOf(i) : Credited(i) /\ receipts[k].status = StatusOf(i)
    BY DEF RInv, ReceiptRows, ReceiptsOf
  <2>3. Credited(i) => /\ (R12(data.lines[i], data.allocations, data.ledger, 0) = "passed")
                            <=> Traced(data.lines[i], data.allocations, data.ledger)
    BY DEF Credited, R12, Verdict
  <2>4. (StatusOf(i) = "PROVEN") <=> Traced(data.lines[i], data.allocations, data.ledger)
    BY DEF StatusOf, BankLineStatus, Traced
  <2> QED
    BY <2>1, <2>2, <2>3, <2>4 DEF Credited
<1> QED
  BY <1>1, RowsAreOfFees, RowsAreOfCredits, PTL

\* The receipts of a proven line add up to its credit, however many allocations it has.
THEOREM TrailConservesMoney == Spec => []MoneyIsConserved
<1>1. RInv => MoneyIsConserved
  <2> SUFFICES ASSUME RInv, NEW i \in SeenLines, NEW k \in ReceiptsOf(i),
                      receipts[k].status = "PROVEN"
               PROVE  TotalUpTo(receipts, ReceiptsOf(i))[Len(receipts)] = data.lines[i].credit
    BY DEF MoneyIsConserved
  <2>1. Credited(i) /\ StatusOf(i) = "PROVEN"
    BY DEF RInv, ReceiptRows, ReceiptsOf
  <2>2. TotalUpTo(receipts, ReceiptsOf(i))[Len(receipts)] = Proceeds(i)
    BY <2>1 DEF RInv, ReceiptRows
  <2>3. Proceeds(i) = data.lines[i].credit
    BY <2>1 DEF StatusOf, BankLineStatus, Proceeds
  <2> QED
    BY <2>2, <2>3
<1> QED
  BY <1>1, RowsAreOfCredits, PTL

\* The figures of both summaries are the numbers of lines and rows they stand for.
THEOREM TrailCountsItsRows == Spec => []SummariesCountRows
<1>1. RInv => SummariesCountRows
  <2> SUFFICES ASSUME RInv PROVE SummariesCountRows
    OBVIOUS
  <2>1. \A S : LinesWith(S) = CreditLines(S)
    <3> TAKE S
    <3>1. ASSUME NEW i \in SeenLines
          PROVE  (\E k \in ReceiptsOf(i) : receipts[k].status \in S) <=>
                   (Credited(i) /\ StatusOf(i) \in S)
      <4>1. \A k \in ReceiptsOf(i) : Credited(i) /\ receipts[k].status = StatusOf(i)
        BY DEF RInv, ReceiptRows, ReceiptsOf
      <4>2. Credited(i) => ReceiptsOf(i) # {}
        BY DEF RInv, ReceiptRows, ReceiptsOf
      <4> QED
        BY <4>1, <4>2
    <3> QED
      BY <3>1 DEF LinesWith, CreditLines
  <2> QED
    BY <2>1 DEF RInv, ReceiptFigures, PaymentFigures, SummariesCountRows
<1> QED
  BY <1>1, RowsAreOfCredits, PTL
=============================================================================
