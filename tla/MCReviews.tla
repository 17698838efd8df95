----------------------------- MODULE MCReviews -----------------------------
(***************************************************************************)
(* Small books, each made for some of the rules: Aged has a record on      *)
(* either side of every threshold in days, Fees a fee payment of each kind *)
(* against a register with duplicates and gaps, with and without matters,  *)
(* Closed a reconciliation on every day around the deadlines of five       *)
(* months (a January among them), Torn, Undated and Untyped the blank and  *)
(* other cells that make rules raise.  The bulk minimum is 4.5 cents,      *)
(* given in halves: it scales to 2.25, 4.5 and 6.75 and rounds to 2, 5, 7. *)
(***************************************************************************)
EXTENDS Reviews, SampleBooks

MCThresholds == [dormancy |-> 5, unmatched |-> 1, unreconciled |-> 3, fit |-> 2, bulkMin |-> 9]
MCRoundedUp == {18}
MCReportDates == {41, 42, 43, 44, 46, 49}

Empty == [matters |-> <<>>, ledger |-> <<>>, lines |-> <<>>, periods |-> <<>>,
          register |-> <<>>, allocations |-> <<>>]
aMatter == [id |-> "A", fit |-> FALSE, balance |-> 7, active |-> 40]
aPeriod == [id |-> "A", month |-> 11, final |-> TRUE, ledger |-> 5, bank |-> 5, recon |-> NoDate]

Aged == [Empty EXCEPT
  !.matters = <<aMatter, [aMatter EXCEPT !.fit = TRUE], [aMatter EXCEPT !.balance = -1],
                [aMatter EXCEPT !.balance = 0], [aMatter EXCEPT !.active = NoDate]>>,
  !.ledger = <<anEntry, [anEntry EXCEPT !.reconciled = TRUE], [anEntry EXCEPT !.balance = -1]>>,
  !.lines = <<aLine, [aLine EXCEPT !.credit = 2], [aLine EXCEPT !.credit = 6, !.matched = "A"],
              [aLine EXCEPT !.id = "B", !.balance = -2]>>,
  !.periods = <<aPeriod, [aPeriod EXCEPT !.bank = 4], [aPeriod EXCEPT !.bank = 4, !.final = FALSE]>>,
  !.allocations = <<[line |-> "B", entry |-> "A", amount |-> 4]>>]

Torn == [Empty EXCEPT !.lines = <<[aLine EXCEPT !.complete = FALSE]>>]
Undated == [Empty EXCEPT !.ledger = <<[anEntry EXCEPT !.date = NoDate], anEntry>>]

Untyped == {[Empty EXCEPT !.ledger = <<e>>] : e \in {Wordless, Numbered}}

Closed == [Empty EXCEPT !.periods =
  [i \in 1..76 |-> [aPeriod EXCEPT !.month = IF i = 76 THEN NoMonth ELSE 10 + (i + 14) \div 15,
                                  !.recon = IF i = 76 THEN 42 ELSE MCFirstDay[11 + (i + 14) \div 15] + 8 + (i % 15)]]]

Fees == {[Empty EXCEPT !.ledger = l, !.register = r] : l \in FeeLedgers, r \in Registers}

MCAllBooks == {Aged, Torn, Undated, Closed} \cup Untyped \cup Fees

\* A refund to an invoice that is not there, and a fee above its invoice in books without matters.
aFee == [anEntry EXCEPT !.description = "fee", !.matter = NoField, !.payment = 3, !.reference = "I1"]
FeeBook == [Empty EXCEPT
  !.ledger = <<[aFee EXCEPT !.payment = -3, !.reference = "I2"], aFee>>,
  !.register = <<[id |-> "I1", matter |-> NoField, amount |-> 2, issued |-> 41]>>]
MCFeeBooks == {FeeBook}

-----------------------------------------------------------------------------
\* loader.py:10-14, on the data of a firm: "never let a raw exception (KeyError,
\* ValueError, TypeError...) escape to the caller as a traceback", and loader.py:77 on
\* a missing entry_date or transaction_date, which would "blow up deep in
\* StalenessChecker - so those are required": on rows that the loader lets through,
\* no rule raises.
NoRuleBlowsUp == outcome # "raw_error"
\* r08_fee_invoice_missing.py:7, r09_fee_exceeds_invoice.py:6, r10_invoice_postdates_payment.py:6,
\* "(b) payment_nzd > 0": only debits are flagged.  r09_fee_exceeds_invoice.py:12, "Skip
\* when no matching same-matter invoice is found in invoice_register (that absence is
\* R08's domain)", and likewise r10: a fee that exceeds or predates its invoice is
\* reported by R09 or R10, or else by R08.
FeeRulesAsDocumented ==
  outcome = "ok" => \A i \in DOMAIN books.ledger :
    LET e == books.ledger[i]
        invoice == Lookup(books.register, e.reference)
        FoundBy(r) == i \in findings[r]
    IN /\ FoundBy("R08") \/ FoundBy("R09") \/ FoundBy("R10") => e.payment > 0
       /\ Refers(e) /\ (\E inv \in invoice : e.payment > inv.amount) => FoundBy("R08") \/ FoundBy("R09")
       /\ Refers(e) /\ (\E inv \in invoice : Postdates(inv, e)) => FoundBy("R08") \/ FoundBy("R10")
=============================================================================
