---------------------------- MODULE SampleBooks ----------------------------
(***************************************************************************)
(* Records and registers that several model-checking instances share.      *)
(***************************************************************************)
EXTENDS TrustRules

MCId == {"A", "B", "I1", "I2"}

\* November 2025 is month 11; day 0 is Monday 27 October 2025.
MCFirstDay == [m \in 11..16 |-> CASE m = 11 -> 5 [] m = 12 -> 35 [] m = 13 -> 66
                                  [] m = 14 -> 97 [] m = 15 -> 125 [] m = 16 -> 156]

anEntry == [id |-> "A", matter |-> "A", date |-> 41, balance |-> 3, payment |-> 0,
          description |-> "other", reference |-> NoId, reconciled |-> FALSE]
aLine == [id |-> "A", date |-> 42, credit |-> 4, balance |-> 9, complete |-> TRUE, matched |-> NoId]

\* Every combination of a payment, a reference and a date, and one that is no fee.
Payments == <<-1, 0, 2, 3>>
References == <<NoId, "I1", "I2">>
FeeEntries(m) == [i \in 1..25 |-> [anEntry EXCEPT !.description = IF i < 25 THEN "fee" ELSE "other",
                   !.matter = m, !.reconciled = TRUE,
                   !.payment = Payments[1 + (i % 4)], !.reference = References[1 + ((i \div 4) % 3)],
                   !.date = IF i < 12 THEN 42 ELSE NoDate]]
\* An entry has a matter, or a ledger without that column, or with a blank cell in it.
FeeLedgers == {FeeEntries(m) : m \in {"A", NoField, Null}}
Invoices == {[id |-> "I1", matter |-> x, amount |-> n, issued |-> d] :
               x \in {"A", "B", NoField}, n \in {2, 3}, d \in {41, 43}}
Registers == {<<>>} \cup {<<i>> : i \in Invoices}
             \cup {<<i, j>> : i \in Invoices, j \in {k \in Invoices : k.amount = 3 /\ k.issued = 43}}

\* Cells that are no text: the description of any entry, the reference of a fee.
Wordless == [anEntry EXCEPT !.description = NoText, !.payment = 2]
Numbered == [anEntry EXCEPT !.description = "fee", !.payment = 2, !.reference = NoText]
=============================================================================
