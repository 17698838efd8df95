----------------------------- MODULE FundsTrail -----------------------------
(***************************************************************************)
(* build_funds_trail() of funds_trail.py: one pass over the bank statement *)
(* and one over the client ledger, which build the receipts and payments   *)
(* of each matter, the receipts of no matter and two summaries.  It        *)
(* classifies receipts and payments with code of its own, and the report   *)
(* is read next to the findings of R08, R09, R10 and R12.                  *)
(*                                                                         *)
(* A row carries, on top of the fields of the code, the position of the    *)
(* line or entry it was made for.  The dict of matters is the grouping of  *)
(* the rows by their matter.                                               *)
(***************************************************************************)
EXTENDS TrustRules, FiniteSets

CONSTANTS
  Trails,        \* the data a trail may be built from
  NumberId       \* the identifiers that are numbers, as in the cells of a workbook

\* provided: the invoice register was loaded, see SourcesAreThoseOfTheRules.
Data == [lines : Seq(Line), ledger : Seq(Entry), register : Seq(Invoice),
         provided : BOOLEAN, allocations : Seq(Allocation)]
ASSUME TrailsAssumption == Trails \subseteq Data
ASSUME NumbersAssumption == NumberId \subseteq Id

VARIABLES
  data,          \* the arguments
  leg,           \* "receipts", "payments", and in the end "done" or "raised"
  at,            \* the line or entry that is next
  receipts,      \* receipt rows, of all matters and of none
  payments,      \* payment rows, of all matters
  receiptCount,  \* rcpt_proven, rcpt_untraced, rcpt_mismatch
  paymentCount   \* pay_total, pay_proven, pay_exception

vars == <<data, leg, at, receipts, payments, receiptCount, paymentCount>>

Unattributed == NoId

Init ==
  /\ data \in Trails
  /\ leg = "receipts"
  /\ at = 1
  /\ receipts = <<>>
  /\ payments = <<>>
  /\ receiptCount = [proven |-> 0, untraced |-> 0, mismatch |-> 0]
  /\ paymentCount = [total |-> 0, proven |-> 0, exception |-> 0]

-----------------------------------------------------------------------------
(***************************************************************************)
(* The receipt leg.                                                        *)
(***************************************************************************)
line == data.lines[at]
AtLine == leg = "receipts" /\ at <= Len(data.lines)

\* Mutant: the sum is looked at before the references.
SumFirst(l, d) ==
  IF Allocated(l, d.allocations) = {}
    THEN IF l.matched # NoId THEN "PROVEN" ELSE "UNTRACED"
  ELSE IF AllocSum(l, d.allocations) = l.credit THEN "PROVEN"
  ELSE IF InvalidRefs(l, d.allocations, d.ledger) # {} THEN "INVALID_LEDGER_REF"
  ELSE IF AllocSum(l, d.allocations) < l.credit THEN "UNDER_ALLOCATED"
  ELSE "OVER_ALLOCATED"
BankLineStatus(l, d) ==
  IF Allocated(l, d.allocations) = {}
    THEN IF l.matched # NoId THEN "PROVEN" ELSE "UNTRACED"
  ELSE IF InvalidRefs(l, d.allocations, d.ledger) # {} THEN "INVALID_LEDGER_REF"
  ELSE IF AllocSum(l, d.allocations) = l.credit THEN "PROVEN"
  ELSE IF AllocSum(l, d.allocations) < l.credit THEN "UNDER_ALLOCATED"
  ELSE "OVER_ALLOCATED"

\* Of two entries with one identifier the last counts, as for invoices.
Matters(entryId, d) == {MatterGet(e, NoId) : e \in Lookup(d.ledger, entryId)}
\* Mutant: only the blank text is taken for no matter.
MatterUnlessBlank(entryId, d) ==
  LET known == Matters(entryId, d) \ {NoId}
  IN IF known = {} THEN Unattributed ELSE CHOOSE m \in known : TRUE
MatterOf(entryId, d) ==
  LET known == Matters(entryId, d) \ {NoId, Null}
  IN IF known = {} THEN Unattributed ELSE CHOOSE m \in known : TRUE

Receipt(entryId, amount) ==
  [of |-> at, matter |-> MatterOf(entryId, data), entry |-> entryId, amount |-> amount,
   status |-> BankLineStatus(line, data)]

CountReceipt ==
  LET s == BankLineStatus(line, data)
      k == CASE s = "PROVEN" -> "proven" [] s = "UNTRACED" -> "untraced" [] OTHER -> "mismatch"
  IN receiptCount' = [receiptCount EXCEPT ![k] = @ + 1]

NextLine == at' = at + 1 /\ UNCHANGED <<data, leg, payments, paymentCount>>

SkipDebit ==
  /\ AtLine
  /\ line.credit = 0
  /\ NextLine
  /\ UNCHANGED <<receipts, receiptCount>>

\* The allocations of the line, in the order in which they are read: one row each.
PortionsUpTo(l, d) ==
  LET upTo[i \in 0..Len(d.allocations)] ==
        IF i = 0 THEN <<>>
        ELSE IF i \in Allocated(l, d.allocations) THEN Append(upTo[i - 1], i) ELSE upTo[i - 1]
  IN upTo

\* Mutant: the whole line goes to the matter of its first allocation.
FirstPortion(l, d) ==
  LET own == Allocated(l, d.allocations) IN <<CHOOSE i \in own : \A j \in own : i <= j>>
Portions(l, d) == PortionsUpTo(l, d)[Len(d.allocations)]

PortionReceipt(i) == Receipt(data.allocations[i].entry, data.allocations[i].amount)

AllocatedReceipt ==
  /\ AtLine
  /\ line.credit # 0
  /\ Allocated(line, data.allocations) # {}
  /\ receipts' = receipts \o [k \in DOMAIN Portions(line, data) |->
                                PortionReceipt(Portions(line, data)[k])]
  /\ CountReceipt
  /\ NextLine

\* Matched to one entry, or untraced.
MatchedReceipt ==
  /\ AtLine
  /\ line.credit # 0
  /\ Allocated(line, data.allocations) = {}
  /\ receipts' = Append(receipts, Receipt(line.matched, line.credit))
  /\ CountReceipt
  /\ NextLine

EndOfStatement ==
  /\ leg = "receipts"
  /\ at > Len(data.lines)
  /\ leg' = "payments"
  /\ at' = 1
  /\ UNCHANGED <<data, receipts, payments, receiptCount, paymentCount>>

(***************************************************************************)
(* The payment leg.                                                        *)
(***************************************************************************)
entry == data.ledger[at]
AtEntry == leg = "payments" /\ at <= Len(data.ledger)

NextEntry == at' = at + 1 /\ UNCHANGED <<data, leg, receipts, receiptCount>>

\* A description that is no text is met only here, behind a payment.
SkipEntry ==
  /\ AtEntry
  /\ entry.payment <= 0 \/ entry.description = "other"
  /\ NextEntry
  /\ UNCHANGED <<payments, paymentCount>>

PaymentRaises ==
  /\ AtEntry
  /\ entry.payment > 0
  /\ entry.description = NoText \/ (entry.description = "fee" /\ entry.reference = NoText)
  /\ leg' = "raised"
  /\ UNCHANGED <<data, at, receipts, payments, receiptCount, paymentCount>>

\* inv_matter != matter, with the same default for both.
SameMatter(inv, e) == MatterGet(inv, Unnamed) = MatterGet(e, Unnamed)

\* _payment_fields: the status of a payment and the rule it is an exception to.
\* Mutant: the amount of an invoice is compared before its matter.
AmountFirst(e, d) ==
  LET invoice == Lookup(d.register, e.reference)
  IN CASE e.reference = NoId -> [status |-> "NO_INVOICE_REF", rule |-> "none"]
       [] e.reference # NoId /\ ~d.provided -> [status |-> "UNCHECKED", rule |-> "none"]
       [] OTHER ->
            IF invoice = {} THEN [status |-> "EXCEPTION", rule |-> "R08"]
            ELSE IF \E inv \in invoice : e.payment > inv.amount
                   THEN [status |-> "EXCEPTION", rule |-> "R09"]
            ELSE IF \E inv \in invoice : ~SameMatter(inv, e)
                   THEN [status |-> "EXCEPTION", rule |-> "R08"]
            ELSE IF \E inv \in invoice : Postdates(inv, e)
                   THEN [status |-> "EXCEPTION", rule |-> "R10"]
            ELSE [status |-> "PROVEN", rule |-> "none"]
PaymentFields(e, d) ==
  LET invoice == Lookup(d.register, e.reference)
  IN CASE e.reference = NoId -> [status |-> "NO_INVOICE_REF", rule |-> "none"]
       [] e.reference # NoId /\ ~d.provided -> [status |-> "UNCHECKED", rule |-> "none"]
       [] OTHER ->
            IF \A inv \in invoice : ~SameMatter(inv, e)
              THEN [status |-> "EXCEPTION", rule |-> "R08"]
            ELSE IF \E inv \in invoice : e.payment > inv.amount
                   THEN [status |-> "EXCEPTION", rule |-> "R09"]
            ELSE IF \E inv \in invoice : Postdates(inv, e)
                   THEN [status |-> "EXCEPTION", rule |-> "R10"]
            ELSE [status |-> "PROVEN", rule |-> "none"]

\* Mutant: a payment that was not checked counts as proven.
CountChecked(s) ==
  paymentCount' = [paymentCount EXCEPT !.total = @ + 1,
                     !.proven = IF s # "EXCEPTION" THEN @ + 1 ELSE @,
                     !.exception = IF s = "EXCEPTION" THEN @ + 1 ELSE @]
CountPayment(s) ==
  paymentCount' = [paymentCount EXCEPT !.total = @ + 1,
                     !.proven = IF s = "PROVEN" THEN @ + 1 ELSE @,
                     !.exception = IF s = "EXCEPTION" THEN @ + 1 ELSE @]

Payment ==
  LET fields == PaymentFields(entry, data)
  IN /\ AtEntry
     /\ entry.payment > 0 /\ entry.description = "fee" /\ entry.reference # NoText
     /\ payments' = Append(payments, [of |-> at, matter |-> MatterGet(entry, NoId),
                                      amount |-> entry.payment,
                                      status |-> fields.status, rule |-> fields.rule])
     /\ CountPayment(fields.status)
     /\ NextEntry

\* sorted() compares the keys of the dict: numbers, or texts, or one key alone.
Keys == ({receipts[k].matter : k \in DOMAIN receipts} \ {Unattributed})
        \cup {payments[k].matter : k \in DOMAIN payments}
Sortable(keys) ==
  \A x, y \in keys : x = y \/ {x, y} \subseteq NumberId \/ {x, y} \cap (NumberId \cup {Null}) = {}

EndOfLedger ==
  /\ leg = "payments"
  /\ at > Len(data.ledger)
  /\ leg' = IF Sortable(Keys) THEN "done" ELSE "raised"
  /\ UNCHANGED <<data, at, receipts, payments, receiptCount, paymentCount>>

Next == SkipDebit \/ AllocatedReceipt \/ MatchedReceipt \/ EndOfStatement
        \/ SkipEntry \/ PaymentRaises \/ Payment \/ EndOfLedger

Spec == Init /\ [][Next]_vars

-----------------------------------------------------------------------------
SeenLines == IF leg = "receipts" THEN 1..(at - 1) ELSE DOMAIN data.lines
SeenEntries == IF leg = "receipts" THEN {} ELSE 1..(at - 1)
ReceiptsOf(i) == {k \in DOMAIN receipts : receipts[k].of = i}
PaymentsOf(i) == {k \in DOMAIN payments : payments[k].of = i}

ReceiptStatus == {"PROVEN", "UNTRACED", "INVALID_LEDGER_REF", "UNDER_ALLOCATED", "OVER_ALLOCATED"}
PaymentStatus == {"PROVEN", "EXCEPTION", "NO_INVOICE_REF", "UNCHECKED"}

\* Types, and: each loop stays within its list, and a receipt has a matter or none.
TypeOK ==
  /\ data \in Trails
  /\ leg \in {"receipts", "payments", "done", "raised"}
  /\ at \in 1..((IF leg = "receipts" THEN Len(data.lines) ELSE Len(data.ledger)) + 1)
  /\ receipts \in Seq([of : Nat, matter : Id \cup {Unattributed}, entry : Id \cup {NoId},
                       amount : Int, status : ReceiptStatus])
  /\ payments \in Seq([of : Nat, matter : Id \cup {NoId, Null}, amount : Int,
                       status : PaymentStatus, rule : {"none", "R08", "R09", "R10"}])
  /\ receiptCount \in [proven : Nat, untraced : Nat, mismatch : Nat]
  /\ paymentCount \in [total : Nat, proven : Nat, exception : Nat]

(***************************************************************************)
(* The trail and the exception report do not contradict each other: a      *)
(* credit line has receipts, and they are PROVEN exactly if R12, without a *)
(* floor on the amount, has nothing against the line.                      *)
(***************************************************************************)
ReceiptsAgreeWithR12 ==
  \A i \in SeenLines :
    LET l == data.lines[i]
    IN /\ (ReceiptsOf(i) = {}) <=> (l.credit = 0)
       /\ \A k \in ReceiptsOf(i) :
            (receipts[k].status = "PROVEN") <=>
              (R12(l, data.allocations, data.ledger, 0) = "passed")

(***************************************************************************)
(* Every fee drawn from the account has one row.  With the register at     *)
(* hand it is an exception to R08 exactly if R08 fails the entry, and      *)
(* PROVEN only if R07 to R10 all pass it; it names the first of them that  *)
(* fails it.  The converse has one exception: an invoice whose register    *)
(* has no column of matters may be an exception to R09 or R10 here and     *)
(* pass there.  Without the register nothing is PROVEN.  And an entry that *)
(* makes the trail raise makes R07 to R10 raise, too.                      *)
(***************************************************************************)
FailingRules(e) ==
  {r \in {"R08", "R09", "R10"} :
     \/ r = "R08" /\ R08(e, data.register) = "failed"
     \/ r = "R09" /\ R09(e, data.register) = "failed"
     \/ r = "R10" /\ R10(e, data.register) = "failed"}
AgreesWithRules(row, e) ==
  /\ (row.status = "NO_INVOICE_REF") <=> (R07(e) = "failed")
  /\ data.provided =>
       /\ (row.rule = "R08") <=> ("R08" \in FailingRules(e))
       /\ row.status = "PROVEN" => R07(e) = "passed" /\ FailingRules(e) = {}
       /\ Unmattered(e, data.register) \/
            /\ R07(e) = "passed" /\ FailingRules(e) = {} => row.status = "PROVEN"
            /\ row.rule = "R09" => "R09" \in FailingRules(e)
            /\ row.rule = "R10" => FailingRules(e) = {"R10"}
  /\ ~data.provided => row.status \in {"NO_INVOICE_REF", "UNCHECKED"}
PaymentsAgreeWithRules ==
  /\ \A i \in SeenEntries :
       LET e == data.ledger[i]
       IN /\ Cardinality(PaymentsOf(i)) = (IF e.description = "fee" /\ e.payment > 0 THEN 1 ELSE 0)
          /\ \A k \in PaymentsOf(i) : AgreesWithRules(payments[k], e)
  /\ leg = "raised" /\ at \in DOMAIN data.ledger =>
       LET e == data.ledger[at]
       IN /\ R07(e) = "raises"
          /\ \A r \in {R08(e, data.register), R09(e, data.register), R10(e, data.register)} : r = "raises"

(***************************************************************************)
(* Money is conserved: the receipts of a proven line, whichever matters    *)
(* they went to, add up to its credit.                                     *)
(***************************************************************************)
MoneyIsConserved ==
  \A i \in SeenLines :
    (\E k \in ReceiptsOf(i) : receipts[k].status = "PROVEN") =>
      TotalUpTo(receipts, ReceiptsOf(i))[Len(receipts)] = data.lines[i].credit

(***************************************************************************)
(* Every figure of the two summaries can be counted in the rows: lines by  *)
(* status, and payments in all, proven and excepted.                       *)
(***************************************************************************)
LinesWith(S) == {i \in SeenLines : \E k \in ReceiptsOf(i) : receipts[k].status \in S}
PaymentsWith(s) == {k \in DOMAIN payments : payments[k].status = s}
SummariesCountRows ==
  /\ receiptCount.proven = Cardinality(LinesWith({"PROVEN"}))
  /\ receiptCount.untraced = Cardinality(LinesWith({"UNTRACED"}))
  /\ receiptCount.mismatch = Cardinality(LinesWith(ReceiptStatus \ {"PROVEN", "UNTRACED"}))
  /\ paymentCount = [total |-> Len(payments), proven |-> Cardinality(PaymentsWith("PROVEN")),
                     exception |-> Cardinality(PaymentsWith("EXCEPTION"))]
=============================================================================
