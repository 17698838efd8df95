------------------------------- MODULE Replay -------------------------------
(***************************************************************************)
(* replay/engine.py: a rule set is run against a corpus of snapshots of    *)
(* books whose breaches are known, and scored by what it flagged.  The     *)
(* build refuses a rule set whose scores are too low                       *)
(* (tests/test_replay_monotonicity.py).                                    *)
(*                                                                         *)
(* A snapshot lists the rules that must flag something (expected) and, if  *)
(* it has any, the identifiers each of them must flag (records).  Its      *)
(* entries are rows of all data sets in one list.                          *)
(***************************************************************************)
EXTENDS RuleSet, FiniteSets

CONSTANTS
  Corpora,       \* the directories that may be replayed, each in order of file names
  OtherRuleSets  \* rule sets other than the shipped ones

Dataset == {"matters", "ledger", "lines", "periods", "register", "allocations"}

Snapshot ==
  [readable : BOOLEAN,                    \* JSON with every key that from_dict reads
   end : Date,
   entries : Seq([dataset : Dataset \cup {"unknown"},
                  row : Matter \cup Entry \cup Line \cup Period \cup Invoice \cup Allocation]),
   expected : SUBSET Rule,
   listed : SUBSET Rule,                   \* the keys of expected_records
   records : [Rule -> SUBSET Id]]

RuleSpec == [rule : Rule, limit : Nat]

ASSUME CorporaAssumption ==
  /\ Corpora \subseteq Seq(Snapshot)
  /\ \A c \in Corpora : \A k \in DOMAIN c :
       /\ \A r \in Rule \ c[k].listed : c[k].records[r] = {}
       /\ \A r \in Rule : IsFiniteSet(c[k].records[r])
ASSUME RuleSetsAssumption == OtherRuleSets \subseteq Seq(RuleSpec)

\* The defaults of ClientConfig, and the copy of them that the replay uses.
ClientDefaults ==
  [dormancy |-> 365, unreconciled |-> 30, unmatched |-> 5, fit |-> 14, bulkMin |-> 0]
\* Mutant: the copy has not followed a change of the default.
StaleThresholds ==
  [dormancy |-> 365, unreconciled |-> 30, unmatched |-> 5, fit |-> 10, bulkMin |-> 0]
StandardThresholds ==
  [dormancy |-> 365, unreconciled |-> 30, unmatched |-> 5, fit |-> 14, bulkMin |-> 0]

\* The client whose reviews the replay stands for leaves every threshold as it is.
ASSUME DefaultsAssumption == Thresholds = ClientDefaults

VARIABLES
  corpus,        \* the files of the directory; <<>> if there is none
  sensitivity,   \* of the shipped rule set, or "other"
  ruleSet,       \* the rule specs that are replayed
  outcome,       \* "none" until the replay returns or raises
  position,      \* of the snapshot that is next; 0 before the corpus is loaded
  score,         \* the six totals
  falsePositives, falseNegatives, perSnapshot, mismatches

lists == <<falsePositives, falseNegatives, perSnapshot, mismatches>>
vars == <<corpus, sensitivity, ruleSet, outcome, position, score, lists>>

-----------------------------------------------------------------------------
(***************************************************************************)
(* The rule set and what it flags.                                         *)
(***************************************************************************)
RuleOrder == <<"R01", "R02", "R03", "R04", "R05", "R06", "R07", "R08", "R09", "R10",
               "R12", "R13", "R14">>

\* The rules whose spec has a threshold, in days or cents.
Limited == {"R02", "R04", "R05", "R06", "R12"}
LimitOf(r, m) ==
  CASE r = "R02" -> ScaleDays(StandardThresholds.dormancy, m)
    [] r = "R04" -> ScaleDays(StandardThresholds.unmatched, m)
    [] r = "R05" -> ScaleDays(StandardThresholds.unreconciled, m)
    [] r = "R06" -> ScaleDays(StandardThresholds.fit, m)
    [] r = "R12" -> ScaleAmount(StandardThresholds.bulkMin, m)
    [] r \in Rule \ Limited -> 0
CurrentRuleSet(m) ==
  [k \in DOMAIN RuleOrder |-> [rule |-> RuleOrder[k], limit |-> LimitOf(RuleOrder[k], m)]]

RowsUpTo(entries, dataset) ==
  LET upTo[i \in 0..Len(entries)] ==
        IF i = 0 THEN <<>>
        ELSE IF entries[i].dataset = dataset THEN Append(upTo[i - 1], entries[i].row)
        ELSE upTo[i - 1]
  IN upTo
RowsOf(entries, dataset) == RowsUpTo(entries, dataset)[Len(entries)]
Grouped(entries) == [d \in Dataset |-> RowsOf(entries, d)]

\* A rule sees the invoice register or the allocations only if it is known to need them.
\* Mutant: R10 was added to the rules and forgotten here.
TwoInvoiceRules == {"R08", "R09"}
InvoiceRules == {"R08", "R09", "R10"}
Supplied(b, r) ==
  [d \in Dataset |->
     IF \/ d = "register" /\ r \notin InvoiceRules
        \/ d = "allocations" /\ r # "R12"
       THEN <<>> ELSE b[d]]

LimitedVerdicts(r, limit, b, at) ==
  CASE r = "R02" -> [i \in DOMAIN b.matters |-> R02(b.matters[i], limit, at)]
    [] r = "R04" -> [i \in DOMAIN b.lines   |-> R04(b.lines[i], limit, at)]
    [] r = "R05" -> [i \in DOMAIN b.ledger  |-> R05(b.ledger[i], limit, at)]
    [] r = "R06" -> [i \in DOMAIN b.matters |-> R06(b.matters[i], limit, at)]
    [] r = "R12" -> [i \in DOMAIN b.lines   |-> R12(b.lines[i], b.allocations, b.ledger, limit)]
\* Rules without a limit do not depend on the sensitivity.
VerdictsBy(spec, b, at) ==
  IF spec.rule \in Limited THEN LimitedVerdicts(spec.rule, spec.limit, b, at)
                           ELSE VerdictsOn(b, spec.rule, at, "standard")

DatasetOf(r) ==
  CASE r \in {"R02", "R06"} -> "matters"
    [] r \in {"R04", "R12", "R13"} -> "lines"
    [] r \in {"R03", "R14"} -> "periods"
    [] OTHER -> "ledger"

RowsBy(verdict, spec, b, at) ==
  {i \in DOMAIN VerdictsBy(spec, Supplied(b, spec.rule), at) :
     VerdictsBy(spec, Supplied(b, spec.rule), at)[i] = verdict}

\* The skip of R14 without a reconciliation_date is left out: it passes every blank.
Flagged(spec, b, at) == {b[DatasetOf(spec.rule)][i].id : i \in RowsBy("failed", spec, b, at)}

\* A dict: of two specs of one rule the last one that flags anything counts.
LastFlagging(specs, r, b, at) ==
  {k \in DOMAIN specs :
     /\ specs[k].rule = r
     /\ Flagged(specs[k], b, at) # {}
     /\ \A j \in DOMAIN specs :
          specs[j].rule = r /\ Flagged(specs[j], b, at) # {} => j <= k}
FiredRecords(specs, b, at) ==
  [r \in Rule |-> UNION {Flagged(specs[k], b, at) : k \in LastFlagging(specs, r, b, at)}]

RaisesOn(specs, b, at) == \E k \in DOMAIN specs : RowsBy("raises", specs[k], b, at) # {}

-----------------------------------------------------------------------------
Init ==
  /\ corpus \in Corpora
  /\ \/ /\ sensitivity \in Mode
        /\ ruleSet = CurrentRuleSet(sensitivity)
     \/ /\ sensitivity = "other"
        /\ ruleSet \in OtherRuleSets
  /\ outcome = "none"
  /\ position = 0
  /\ score = [tp |-> 0, fp |-> 0, fn |-> 0, recTp |-> 0, recFp |-> 0, recFn |-> 0]
  /\ falsePositives = <<>>
  /\ falseNegatives = <<>>
  /\ perSnapshot = <<>>
  /\ mismatches = {}

\* LedgerSnapshot.__post_init__
Consistent(s) == s.listed # {} => s.listed = s.expected
Loadable == corpus # <<>> /\ \A k \in DOMAIN corpus : corpus[k].readable /\ Consistent(corpus[k])

Load ==
  /\ outcome = "none"
  /\ position = 0
  /\ IF Loadable THEN position' = 1 /\ UNCHANGED outcome
                 ELSE outcome' = "raw_error" /\ UNCHANGED position
  /\ UNCHANGED <<corpus, sensitivity, ruleSet, score, lists>>

Snap == corpus[position]
AtSnapshot == outcome = "none" /\ position \in DOMAIN corpus

\* An entry of an unknown data set, or a rule that raises, ends the replay.
Malformed(s) == \E i \in DOMAIN s.entries : s.entries[i].dataset \notin Dataset
SnapshotRaises ==
  /\ AtSnapshot
  /\ Malformed(Snap) \/ RaisesOn(ruleSet, Grouped(Snap.entries), Snap.end)
  /\ outcome' = "raw_error"
  /\ UNCHANGED <<corpus, sensitivity, ruleSet, position, score, lists>>

\* Mutant: a rule that fires unexpectedly is left out of the record score.
ScoredIfExpected(s, fired) == s.listed
Scored(s, fired) == IF s.listed = {} THEN {} ELSE fired \cup s.listed

Pairs(f, rules) == UNION {{<<r, x>> : x \in f[r]} : r \in rules}

\* Mutant: a rule that misses records without flagging others goes unlisted.
OnlyUnexpected(k, got, want, rules) ==
  {[snapshot |-> k, rule |-> r, unexpected |-> got[r] \ want[r], missed |-> want[r] \ got[r]] :
     r \in {x \in rules : got[x] \ want[x] # {}}}
\* A list in the code, in order of snapshots and rules.
MismatchesOf(k, got, want, rules) ==
  {[snapshot |-> k, rule |-> r, unexpected |-> got[r] \ want[r], missed |-> want[r] \ got[r]] :
     r \in {x \in rules : got[x] # want[x]}}

\* An entry of a list, unless it would have no rules.
Entered(k, rules) == IF rules = {} THEN <<>> ELSE <<[snapshot |-> k, rules |-> rules]>>

\* Mutant: a month in which nothing is expected is not broken down.
BreakdownIfExpected(s, fired) ==
  IF s.expected = {} THEN <<>> ELSE <<[expected |-> s.expected, fired |-> fired]>>
Breakdown(s, fired) == <<[expected |-> s.expected, fired |-> fired]>>

ScoreSnapshot ==
  /\ AtSnapshot
  /\ ~Malformed(Snap)
  /\ ~RaisesOn(ruleSet, Grouped(Snap.entries), Snap.end)
  /\ LET got == FiredRecords(ruleSet, Grouped(Snap.entries), Snap.end)
         fired == {r \in Rule : got[r] # {}}
         want == Snap.records
         rules == Scored(Snap, fired)
         g == Pairs(got, rules)
         w == Pairs(want, rules)
     IN /\ score' = [tp |-> score.tp + Cardinality(fired \cap Snap.expected),
                     fp |-> score.fp + Cardinality(fired \ Snap.expected),
                     fn |-> score.fn + Cardinality(Snap.expected \ fired),
                     recTp |-> score.recTp + Cardinality(g \cap w),
                     recFp |-> score.recFp + Cardinality(g \ w),
                     recFn |-> score.recFn + Cardinality(w \ g)]
        /\ mismatches' = mismatches \cup MismatchesOf(position, got, want, rules)
        /\ falsePositives' = falsePositives \o Entered(position, fired \ Snap.expected)
        /\ falseNegatives' = falseNegatives \o Entered(position, Snap.expected \ fired)
        /\ perSnapshot' = perSnapshot \o Breakdown(Snap, fired)
  /\ position' = position + 1
  /\ UNCHANGED <<corpus, sensitivity, ruleSet, outcome>>

Return ==
  /\ outcome = "none"
  /\ position = Len(corpus) + 1
  /\ outcome' = "ok"
  /\ UNCHANGED <<corpus, sensitivity, ruleSet, position, score, lists>>

Next == Load \/ SnapshotRaises \/ ScoreSnapshot \/ Return

Spec == Init /\ [][Next]_vars

\* The ratios of a ReplayResult, as numerator and denominator.
Ratio(hits, misses) == IF hits + misses = 0 THEN <<1, 1>> ELSE <<hits, hits + misses>>
Precision == Ratio(score.tp, score.fp)
Recall == Ratio(score.tp, score.fn)
RecordPrecision == Ratio(score.recTp, score.recFp)
RecordRecall == Ratio(score.recTp, score.recFn)

-----------------------------------------------------------------------------
(***************************************************************************)
(* Types, and the lists go as far as the replay has: every snapshot before *)
(* the next one has its entry, the months in which nothing is expected     *)
(* included, and the other lists are of snapshots already scored.          *)
(***************************************************************************)
TypeOK ==
  /\ corpus \in Corpora
  /\ sensitivity \in Mode \cup {"other"}
  /\ ruleSet \in Seq(RuleSpec)
  /\ outcome \in {"none", "ok", "raw_error"}
  /\ position \in 0..(Len(corpus) + 1)
  /\ score \in [tp : Nat, fp : Nat, fn : Nat, recTp : Nat, recFp : Nat, recFn : Nat]
  /\ Len(perSnapshot) = IF position = 0 THEN 0 ELSE position - 1
  /\ \A list \in {falsePositives, falseNegatives} : \A i \in DOMAIN list :
       list[i].snapshot \in 1..Len(perSnapshot)
  /\ \A x \in mismatches : x.snapshot \in 1..Len(perSnapshot)

(***************************************************************************)
(* What is replayed is what clients run: with the shipped rule set a       *)
(* snapshot is credited with exactly the rules that a review of its books  *)
(* at its date and at the same sensitivity would report, though thresholds,*)
(* data sets and dispatch are all written a second time here; and a replay *)
(* of well-formed snapshots fails only if such a review would.             *)
(***************************************************************************)
ReviewedRules(s, m) == {r \in Rule : RowsWith("failed", Grouped(s.entries), r, s.end, m) # {}}
ReplayMeasuresReviews ==
  sensitivity # "other" =>
    /\ \A k \in DOMAIN perSnapshot :
         perSnapshot[k].fired = ReviewedRules(corpus[k], sensitivity)
    /\ outcome = "raw_error" =>
         \/ ~Loadable
         \/ Malformed(Snap)
         \/ Raised(Grouped(Snap.entries), Snap.end, sensitivity)

(***************************************************************************)
(* The gate of tests/test_replay_monotonicity.py lets through a shipped    *)
(* rule set only if a review of every snapshot flags the expected records  *)
(* and no other: no single record, flagged by a rule that is expected to   *)
(* fire or by one that is not, hides behind the 95 per cent.               *)
(***************************************************************************)
AtLeast95(ratio) == 20 * ratio[1] >= 19 * ratio[2]
Gate ==
  /\ outcome = "ok"
  /\ \A ratio \in {Precision, Recall, RecordPrecision, RecordRecall} : AtLeast95(ratio)
  /\ \A k \in DOMAIN corpus : corpus[k].listed # {}
  /\ mismatches = {}
ReviewedIds(s, r, m) ==
  {Grouped(s.entries)[DatasetOf(r)][i].id : i \in RowsWith("failed", Grouped(s.entries), r, s.end, m)}
GateIsExact ==
  Gate /\ sensitivity # "other" =>
    \A k \in DOMAIN corpus : \A r \in Rule :
      ReviewedIds(corpus[k], r, sensitivity) = corpus[k].records[r]

(***************************************************************************)
(* The totals are those of the lists a developer reads when the gate fails:*)
(* each false positive and negative is listed under its snapshot, and each *)
(* record counted against the rule set under its rule.                     *)
(***************************************************************************)
Total(f) == Cardinality(Pairs(f, DOMAIN f))    \* what the sets of f count together
ScoresMatchTheLists ==
  /\ score.fp = Total([i \in DOMAIN falsePositives |-> falsePositives[i].rules])
  /\ score.fn = Total([i \in DOMAIN falseNegatives |-> falseNegatives[i].rules])
  /\ score.tp + score.fn = Total([i \in DOMAIN perSnapshot |-> perSnapshot[i].expected])
  /\ score.tp + score.fp = Total([i \in DOMAIN perSnapshot |-> perSnapshot[i].fired])
  /\ score.recFp = Total([x \in mismatches |-> x.unexpected])
  /\ score.recFn = Total([x \in mismatches |-> x.missed])
=============================================================================
