---------------------------- MODULE MCFundsTrail ----------------------------
(***************************************************************************)
(* For the receipts, a line of every kind before another line, which may   *)
(* have the same identifier, with up to two allocations, and a ledger in   *)
(* which an identifier occurs at most twice, under a matter that is a      *)
(* text, a number, a blank cell or not there.  For the payments, the fee   *)
(* entries and registers of SampleBooks, and those that the trail cannot   *)
(* read or sort.  The legs share no state but the ledger, so each is       *)
(* varied alone.                                                           *)
(***************************************************************************)
EXTENDS FundsTrail, SampleBooks

Lines == {[aLine EXCEPT !.credit = c, !.matched = m] : c \in {-1, 0, 2, 3}, m \in {NoId, "B", "I2"}}
SecondLines == {[aLine EXCEPT !.id = i, !.credit = 3] : i \in {"A", "B"}}

AnAllocation == [line : {"A", "B"}, entry : {"A", "B", "I2"}, amount : {1, 2}]
Allocations == {<<>>} \cup {<<a>> : a \in AnAllocation}
               \cup {<<a, b>> : a \in AnAllocation, b \in {x \in AnAllocation : x.line = "A"}}

MCNumberId == {"B"}
Ledgers == {<<anEntry>>}
           \cup {<<anEntry, [anEntry EXCEPT !.id = i, !.matter = m]>> :
                   i \in {"A", "B"}, m \in {"B", Null, NoField}}

aFee == [anEntry EXCEPT !.description = "fee", !.payment = 2]
OddLedgers == {<<aFee, Wordless>>, <<Numbered>>, <<[Wordless EXCEPT !.payment = -2]>>}
              \cup {<<aFee, [aFee EXCEPT !.matter = m]>> : m \in {"B", Null, NoField, NoId}}

ReceiptTrails == [lines : {<<l, k>> : l \in Lines, k \in SecondLines}, ledger : Ledgers,
                  register : {<<>>}, provided : {FALSE}, allocations : Allocations]
PaymentTrails == [lines : {<<>>}, ledger : FeeLedgers, register : Registers,
                  provided : {TRUE}, allocations : {<<>>}]
                 \cup [lines : {<<>>}, ledger : FeeLedgers \cup OddLedgers, register : {<<>>},
                       provided : {FALSE}, allocations : {<<>>}]
MCTrails == ReceiptTrails \cup PaymentTrails
=============================================================================
