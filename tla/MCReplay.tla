------------------------------ MODULE MCReplay ------------------------------
(***************************************************************************)
(* Corpora of up to two snapshots.  Rich breaks all thirteen rules, some   *)
(* of them at some sensitivities only; Unlisted and Missed are the same    *)
(* month with one rule too few, one record too many in the expectations;   *)
(* Edges has a row on either side of every scaled threshold; the others    *)
(* are quiet, noisy or hollow months and files that cannot be replayed.    *)
(***************************************************************************)
EXTENDS Replay, SampleBooks, SequencesExt

MCReplayId == MCId \cup {"C", "D", "E", "F"}
End == 700
MCThresholds == ClientDefaults

Of(dataset, rows) == [i \in DOMAIN rows |-> [dataset |-> dataset, row |-> rows[i]]]
aMatter == [id |-> "A", fit |-> FALSE, balance |-> 7, active |-> End - 400]
aPeriod == [id |-> "A", month |-> 11, final |-> TRUE, ledger |-> 5, bank |-> 5, recon |-> NoDate]
settled == [anEntry EXCEPT !.date = End - 1, !.reconciled = TRUE]
paid == [settled EXCEPT !.description = "fee", !.payment = 5, !.reference = "I1"]
matched == [aLine EXCEPT !.date = End - 1, !.matched = "A"]

RichEntries ==
  Of("register", <<[id |-> "I1", matter |-> "A", amount |-> 3, issued |-> End]>>) \o
  Of("ledger", <<[settled EXCEPT !.balance = -1], [settled EXCEPT !.id = "B", !.reconciled = FALSE, !.date = End - 20],
                 [settled EXCEPT !.id = "C", !.reconciled = FALSE, !.date = End - 90],
                 [paid EXCEPT !.id = "D"], [paid EXCEPT !.id = "E", !.reference = "I2"],
                 [paid EXCEPT !.id = "F", !.reference = NoId]>>) \o
  Of("matters", <<aMatter, [aMatter EXCEPT !.id = "B", !.fit = TRUE, !.active = End - 600],
                  [aMatter EXCEPT !.id = "C", !.fit = TRUE, !.active = End - 10]>>) \o
  Of("allocations", <<[line |-> "C", entry |-> "A", amount |-> 4]>>) \o
  Of("lines", <<[aLine EXCEPT !.date = End - 20], [matched EXCEPT !.id = "B", !.balance = -2],
                [matched EXCEPT !.id = "C"], [matched EXCEPT !.id = "C"]>>) \o
  Of("periods", <<[aPeriod EXCEPT !.bank = 4], [aPeriod EXCEPT !.id = "B", !.recon = 60]>>)

RichRecords ==
  [r \in Rule |->
     CASE r = "R02" -> {"A", "B"}
       [] r = "R05" -> {"C"}
       [] r \in {"R06", "R13", "R14"} -> {"B"}
       [] r \in {"R09", "R10"} -> {"D"}
       [] r = "R08" -> {"E"}
       [] r = "R07" -> {"F"}
       [] OTHER -> {"A"}]

NoRecords == [r \in Rule |-> {}]
Rich == [readable |-> TRUE, end |-> End, entries |-> RichEntries, expected |-> Rule,
         listed |-> Rule, records |-> RichRecords]
Partial == [Rich EXCEPT !.listed = Rule \ {"R13"}, !.records["R13"] = {}]
Unlisted == [Partial EXCEPT !.expected = Rule \ {"R13"}]
Missed == [Rich EXCEPT !.records["R01"] = {"A", "D"}]
Uncounted == [Rich EXCEPT !.listed = {}, !.records = NoRecords]

Quiet == [Rich EXCEPT !.entries = Of("lines", <<matched>>), !.expected = {},
                         !.listed = {}, !.records = NoRecords]
Noisy == [Quiet EXCEPT !.entries = Of("lines", <<[matched EXCEPT !.balance = -2]>>)]
Hollow == [Noisy EXCEPT !.expected = {"R13", "R14"}, !.listed = {"R13", "R14"}]
Silent == [Quiet EXCEPT !.expected = {"R01"}]

Ages(n) == {(n + 1) \div 2, (n + 1) \div 2 + 1, n, n + 1, (3 * n + 1) \div 2, (3 * n + 1) \div 2 + 1}
Each(rows) == SetToSeq(rows)
Edges == [Quiet EXCEPT !.entries =
  Of("matters", Each({[aMatter EXCEPT !.active = End - n] : n \in Ages(365)})) \o
  Of("matters", Each({[aMatter EXCEPT !.fit = TRUE, !.active = End - n] : n \in Ages(14)})) \o
  Of("ledger", Each({[settled EXCEPT !.reconciled = FALSE, !.date = End - n] : n \in Ages(30)})) \o
  Of("lines", Each({[matched EXCEPT !.matched = NoId, !.date = End - n] : n \in Ages(5)}))]
\* Each row of Edges is a month of its own: a rule fires in it or not.
Edge(n) == [Quiet EXCEPT !.entries = <<Edges.entries[n]>>]

Undated == [Quiet EXCEPT !.entries = Of("ledger", <<[anEntry EXCEPT !.date = NoDate]>>)]
Strange == [Quiet EXCEPT !.entries = <<[dataset |-> "unknown", row |-> anEntry]>>]
Unreadable == [Quiet EXCEPT !.readable = FALSE]

Files == {Rich, Unlisted, Missed, Uncounted, Quiet, Noisy, Hollow, Silent, Undated, Strange,
          Unreadable, Partial}
MCCorpora == {<<>>} \cup {<<s>> : s \in Files \cup {Edge(n) : n \in DOMAIN Edges.entries}}
             \cup {<<s, t>> : s \in Files, t \in Files}

MCOtherRuleSets ==
  {<<>>,
   <<[rule |-> "R02", limit |-> 10]>>,
   <<[rule |-> "R05", limit |-> 10], [rule |-> "R05", limit |-> 40]>>,
   <<[rule |-> "R05", limit |-> 40], [rule |-> "R05", limit |-> 400]>>}
=============================================================================
