---------------------------- MODULE ReplayProofs ----------------------------
(***************************************************************************)
(* The replay measures what clients run, and its gate lets no record slip: *)
(* for all corpora, rule sets and records.                                 *)
(*                                                                         *)
(* The first part is about one snapshot: rule by rule, the spec that       *)
(* get_current_rule_set writes and the data sets that _fired_records hands *)
(* out give the verdicts of a review (SameVerdicts), so the records of a   *)
(* rule are those a review reports (FiredAreReviewed).  The second part    *)
(* carries this over the loop: what has been entered for the snapshots     *)
(* before the next one is never changed.  The third counts: the totals are *)
(* the numbers of rules and records in the lists, each snapshot adding     *)
(* what it enters (JoinAdds).                                              *)
(***************************************************************************)
EXTENDS Replay, Recursion

-----------------------------------------------------------------------------
(***************************************************************************)
(* One snapshot.                                                           *)
(***************************************************************************)
LEMMA SpecOfRule ==
  ASSUME NEW m \in Mode, NEW k \in DOMAIN RuleOrder
  PROVE  /\ DOMAIN CurrentRuleSet(m) = DOMAIN RuleOrder
         /\ CurrentRuleSet(m)[k].rule = RuleOrder[k]
         /\ CurrentRuleSet(m)[k].limit = LimitOf(RuleOrder[k], m)
         /\ RuleOrder[k] \in Rule
<1>1. RuleOrder[k] \in Rule
  BY DEF RuleOrder, Rule
<1> QED
  BY <1>1 DEF CurrentRuleSet

LEMMA EachRuleOnce ==
  /\ \A r \in Rule : \E k \in DOMAIN RuleOrder : RuleOrder[k] = r
  /\ \A j, k \in DOMAIN RuleOrder : RuleOrder[j] = RuleOrder[k] => j = k
<1>1. DOMAIN RuleOrder = 1..13
  BY DEF RuleOrder
<1>2. \A r \in Rule : \E k \in 1..13 : RuleOrder[k] = r
  BY DEF RuleOrder, Rule
<1>3. \A j, k \in 1..13 : RuleOrder[j] = RuleOrder[k] => j = k
  BY DEF RuleOrder
<1> QED
  BY <1>1, <1>2, <1>3

\* The duplicated thresholds are the client's.
LEMMA SameLimits ==
  /\ StandardThresholds.dormancy = Thresholds.dormancy
  /\ StandardThresholds.unmatched = Thresholds.unmatched
  /\ StandardThresholds.unreconciled = Thresholds.unreconciled
  /\ StandardThresholds.fit = Thresholds.fit
  /\ StandardThresholds.bulkMin = Thresholds.bulkMin
BY DefaultsAssumption DEF StandardThresholds, ClientDefaults

\* Each rule is given the data sets that it reads.
LEMMA SuppliedSuffices ==
  ASSUME NEW b, NEW r \in Rule
  PROVE  /\ \A d \in {"matters", "ledger", "lines", "periods"} : Supplied(b, r)[d] = b[d]
         /\ r \in {"R08", "R09", "R10"} => Supplied(b, r)["register"] = b["register"]
         /\ r = "R12" => Supplied(b, r)["allocations"] = b["allocations"]
BY DEF Supplied, Dataset, InvoiceRules

LEMMA SameVerdicts ==
  ASSUME NEW m \in Mode, NEW k \in DOMAIN RuleOrder, NEW b, NEW at
  PROVE  VerdictsBy(CurrentRuleSet(m)[k], Supplied(b, RuleOrder[k]), at)
           = VerdictsOn(b, RuleOrder[k], at, m)
<1> DEFINE r == RuleOrder[k]
           spec == CurrentRuleSet(m)[k]
           s == Supplied(b, r)
<1>1. /\ r \in Rule
      /\ spec.rule = r
      /\ spec.limit = LimitOf(r, m)
  BY SpecOfRule
<1>2. /\ s.matters = b.matters
      /\ s.ledger = b.ledger
      /\ s.lines = b.lines
      /\ s.periods = b.periods
      /\ r \in {"R08", "R09", "R10"} => s.register = b.register
      /\ r = "R12" => s.allocations = b.allocations
  BY <1>1, SuppliedSuffices
<1> SUFFICES VerdictsBy(spec, s, at) = VerdictsOn(b, r, at, m)
  OBVIOUS
<1> HIDE DEF r, spec, s
<1>3. CASE r \in Limited
  <2>1. VerdictsBy(spec, s, at) = LimitedVerdicts(r, LimitOf(r, m), s, at)
    BY <1>1, <1>3 DEF VerdictsBy
  <2>2. CASE r = "R02"
    <3>1. LimitOf(r, m) = ScaleDays(Thresholds.dormancy, m)
      BY <2>2, SameLimits DEF LimitOf, Limited
    <3> QED
      BY <1>2, <2>1, <2>2, <3>1 DEF LimitedVerdicts, VerdictsOn
  <2>3. CASE r = "R04"
    <3>1. LimitOf(r, m) = ScaleDays(Thresholds.unmatched, m)
      BY <2>3, SameLimits DEF LimitOf, Limited
    <3> QED
      BY <1>2, <2>1, <2>3, <3>1 DEF LimitedVerdicts, VerdictsOn
  <2>4. CASE r = "R05"
    <3>1. LimitOf(r, m) = ScaleDays(Thresholds.unreconciled, m)
      BY <2>4, SameLimits DEF LimitOf, Limited
    <3> QED
      BY <1>2, <2>1, <2>4, <3>1 DEF LimitedVerdicts, VerdictsOn
  <2>5. CASE r = "R06"
    <3>1. LimitOf(r, m) = ScaleDays(Thresholds.fit, m)
      BY <2>5, SameLimits DEF LimitOf, Limited
    <3> QED
      BY <1>2, <2>1, <2>5, <3>1 DEF LimitedVerdicts, VerdictsOn
  <2>6. CASE r = "R12"
    <3>1. LimitOf(r, m) = ScaleAmount(Thresholds.bulkMin, m)
      BY <2>6, SameLimits DEF LimitOf, Limited
    <3> QED
      BY <1>2, <2>1, <2>6, <3>1 DEF LimitedVerdicts, VerdictsOn
  <2> QED
    BY <1>3, <2>2, <2>3, <2>4, <2>5, <2>6 DEF Limited
<1>4. CASE r \notin Limited
  <2>1. VerdictsBy(spec, s, at) = VerdictsOn(s, r, at, "standard")
    BY <1>1, <1>4 DEF VerdictsBy
  <2>2. CASE r \in {"R08", "R09", "R10"}
    <3>1. VerdictsOn(s, r, at, "standard") = VerdictsOn(b, r, at, m)
      BY <1>2, <2>2 DEF VerdictsOn
    <3> QED
      BY <2>1, <3>1
  <2>3. CASE r \in {"R01", "R03", "R07", "R13", "R14"}
    <3>1. VerdictsOn(s, r, at, "standard") = VerdictsOn(b, r, at, m)
      BY <1>2, <2>3 DEF VerdictsOn
    <3> QED
      BY <2>1, <3>1
  <2> QED
    BY <1>1, <1>4, <2>2, <2>3 DEF Rule, Limited
<1> QED
  BY <1>3, <1>4

LEMMA SameRows ==
  ASSUME NEW m \in Mode, NEW k \in DOMAIN RuleOrder, NEW b, NEW at, NEW verdict
  PROVE  RowsBy(verdict, CurrentRuleSet(m)[k], b, at) = RowsWith(verdict, b, RuleOrder[k], at, m)
BY SameVerdicts, SpecOfRule DEF RowsBy, RowsWith

\* A rule that is fired is fired by its only spec, with the records a review reports.
LEMMA FiredAreReviewed ==
  ASSUME NEW m \in Mode, NEW r \in Rule, NEW b, NEW at
  PROVE  FiredRecords(CurrentRuleSet(m), b, at)[r]
           = {b[DatasetOf(r)][i].id : i \in RowsWith("failed", b, r, at, m)}
<1> DEFINE specs == CurrentRuleSet(m)
<1>1. PICK k \in DOMAIN RuleOrder : RuleOrder[k] = r
  BY EachRuleOnce
<1>2. /\ DOMAIN specs = DOMAIN RuleOrder
      /\ \A j \in DOMAIN specs : specs[j].rule = RuleOrder[j]
  BY SpecOfRule DEF CurrentRuleSet
<1>3. \A j \in DOMAIN specs : specs[j].rule = r <=> j = k
  BY <1>1, <1>2, EachRuleOnce
<1>4. Flagged(specs[k], b, at) = {b[DatasetOf(r)][i].id : i \in RowsWith("failed", b, r, at, m)}
  <2>1. RowsBy("failed", specs[k], b, at) = RowsWith("failed", b, r, at, m)
    BY <1>1, SameRows
  <2>2. specs[k].rule = r
    BY <1>1, <1>2
  <2> QED
    BY <2>1, <2>2 DEF Flagged
<1>5. k \in Int
  BY <1>1 DEF RuleOrder
<1> HIDE DEF specs
<1>6. LastFlagging(specs, r, b, at) = IF Flagged(specs[k], b, at) = {} THEN {} ELSE {k}
  BY <1>1, <1>2, <1>3, <1>5 DEF LastFlagging
<1>7. UNION {Flagged(specs[j], b, at) : j \in LastFlagging(specs, r, b, at)} = Flagged(specs[k], b, at)
  <2>1. CASE Flagged(specs[k], b, at) = {}
    BY <1>6, <2>1
  <2>2. CASE Flagged(specs[k], b, at) # {}
    BY <1>6, <2>2
  <2> QED
    BY <2>1, <2>2
<1>8. FiredRecords(specs, b, at)[r] = Flagged(specs[k], b, at)
  BY <1>7 DEF FiredRecords
<1> QED
  BY <1>4, <1>8 DEF specs

LEMMA RaisesAreReviewed ==
  ASSUME NEW m \in Mode, NEW b, NEW at, RaisesOn(CurrentRuleSet(m), b, at)
  PROVE  Raised(b, at, m)
<1>1. PICK k \in DOMAIN RuleOrder : RowsBy("raises", CurrentRuleSet(m)[k], b, at) # {}
  BY DEF RaisesOn, CurrentRuleSet
<1>2. RuleOrder[k] \in Rule
  BY SpecOfRule
<1>3. RowsWith("raises", b, RuleOrder[k], at, m) # {}
  BY <1>1, SameRows
<1> QED
  BY <1>2, <1>3 DEF Raised

-----------------------------------------------------------------------------
(***************************************************************************)
(* The loop.                                                               *)
(***************************************************************************)
Got(s) == FiredRecords(ruleSet, Grouped(s.entries), s.end)

Shape ==
  /\ corpus \in Corpora
  /\ sensitivity \in Mode \cup {"other"}
  /\ sensitivity # "other" => ruleSet = CurrentRuleSet(sensitivity)
  /\ position \in Nat
  /\ outcome \in {"none", "ok", "raw_error"}
  /\ outcome = "ok" => position = Len(corpus) + 1
  /\ perSnapshot \in Seq([expected : SUBSET Rule, fired : SUBSET Rule])
  /\ Len(perSnapshot) = IF position = 0 THEN 0 ELSE position - 1
  /\ Len(perSnapshot) <= Len(corpus)

\* A replay fails on its files or on the snapshot it is at.
Failure ==
  outcome = "raw_error" =>
    \/ ~Loadable
    \/ Malformed(Snap)
    \/ RaisesOn(ruleSet, Grouped(Snap.entries), Snap.end)

\* What a scored snapshot is credited with is what the rules flag in it.
Credited ==
  \A k \in DOMAIN perSnapshot :
    perSnapshot[k].fired = {r \in Rule : Got(corpus[k])[r] # {}}

\* A scored snapshot without a mismatch has flagged the expected records.
Matched ==
  \A k \in DOMAIN perSnapshot :
    corpus[k].listed # {} /\ (\A x \in mismatches : x.snapshot # k) =>
      \A r \in Rule : Got(corpus[k])[r] = corpus[k].records[r]

IInv == Shape /\ Failure /\ Credited /\ Matched

LEMMA InitIInv ==
  ASSUME Init
  PROVE  IInv
<1>1. Len(corpus) \in Nat
  BY CorporaAssumption DEF Init
<1>2. Shape
  BY <1>1 DEF Init, Shape
<1> QED
  BY <1>2 DEF Init, IInv, Failure, Credited, Matched

LEMMA LoadKeepsIInv ==
  ASSUME IInv, Load
  PROVE  IInv'
<1>1. Len(corpus) \in Nat
  BY CorporaAssumption DEF IInv, Shape
<1>2. Shape'
  BY <1>1 DEF IInv, Shape, Load, lists
<1>3. Failure'
  BY DEF IInv, Failure, Load, lists, Loadable
<1>4. Credited' /\ Matched'
  BY DEF IInv, Credited, Matched, Got, Load, lists
<1> QED
  BY <1>2, <1>3, <1>4 DEF IInv

LEMMA SnapshotRaisesKeepsIInv ==
  ASSUME IInv, SnapshotRaises
  PROVE  IInv'
<1>1. Shape'
  BY DEF IInv, Shape, SnapshotRaises, lists
<1>2. Failure'
  BY DEF Failure, SnapshotRaises, Snap, Loadable
<1>3. Credited' /\ Matched'
  BY DEF IInv, Credited, Matched, Got, SnapshotRaises, lists
<1> QED
  BY <1>1, <1>2, <1>3 DEF IInv

LEMMA ReturnKeepsIInv ==
  ASSUME IInv, Return
  PROVE  IInv'
<1>1. Shape'
  BY DEF IInv, Shape, Return, lists
<1>2. Failure'
  BY DEF Failure, Return
<1>3. Credited' /\ Matched'
  BY DEF IInv, Credited, Matched, Got, Return, lists
<1> QED
  BY <1>1, <1>2, <1>3 DEF IInv

LEMMA ScoreSnapshotKeepsIInv ==
  ASSUME IInv, ScoreSnapshot
  PROVE  IInv'
<1> DEFINE got == Got(Snap)
           fired == {r \in Rule : got[r] # {}}
<1>1. /\ corpus \in Seq(Snapshot)
      /\ position \in DOMAIN corpus
      /\ Snap = corpus[position]
      /\ Snap \in Snapshot
      /\ \A r \in Rule \ Snap.listed : Snap.records[r] = {}
  BY CorporaAssumption DEF IInv, Shape, ScoreSnapshot, AtSnapshot, Snap
<1>2. /\ perSnapshot' = Append(perSnapshot, [expected |-> Snap.expected, fired |-> fired])
      /\ mismatches' = mismatches \cup MismatchesOf(position, got, Snap.records, Scored(Snap, fired))
      /\ position' = position + 1
      /\ UNCHANGED <<corpus, sensitivity, ruleSet, outcome>>
      /\ outcome = "none"
  <2>1. perSnapshot' = perSnapshot \o <<[expected |-> Snap.expected, fired |-> fired]>>
    BY DEF ScoreSnapshot, Breakdown, Got
  <2>2. perSnapshot \in Seq([expected : SUBSET Rule, fired : SUBSET Rule])
    BY DEF IInv, Shape
  <2> HIDE DEF fired
  <2>3. perSnapshot' = Append(perSnapshot, [expected |-> Snap.expected, fired |-> fired])
    BY <2>1, <2>2
  <2> QED
    BY <2>3 DEF ScoreSnapshot, AtSnapshot, Got, fired
<1>3. /\ Len(perSnapshot) = position - 1
      /\ position \in Nat \ {0}
      /\ Len(corpus) \in Nat
      /\ position <= Len(corpus)
  BY <1>1 DEF IInv, Shape
<1>4. [expected |-> Snap.expected, fired |-> fired] \in [expected : SUBSET Rule, fired : SUBSET Rule]
  BY <1>1 DEF Snapshot
<1> HIDE DEF got, fired
<1>5. Shape'
  BY <1>2, <1>3, <1>4 DEF IInv, Shape
<1>6. Failure'
  BY <1>2 DEF Failure
<1>7. /\ DOMAIN perSnapshot' = DOMAIN perSnapshot \cup {position}
      /\ position \notin DOMAIN perSnapshot
      /\ perSnapshot'[position].fired = fired
      /\ \A k \in DOMAIN perSnapshot : perSnapshot'[k] = perSnapshot[k]
  BY <1>2, <1>3, <1>4 DEF IInv, Shape
<1>8. \A k : Got(corpus[k])' = Got(corpus[k])
  BY <1>2 DEF Got
<1>9. Credited'
  <2> SUFFICES ASSUME NEW k \in DOMAIN perSnapshot'
               PROVE  perSnapshot'[k].fired = {r \in Rule : Got(corpus[k])[r] # {}}
    BY <1>8 DEF Credited
  <2>1. CASE k \in DOMAIN perSnapshot
    BY <1>7, <2>1 DEF IInv, Credited
  <2>2. CASE k = position
    BY <1>1, <1>7, <2>2 DEF fired, got
  <2> QED
    BY <1>7, <2>1, <2>2
<1>10. Matched'
  <2> SUFFICES ASSUME NEW k \in DOMAIN perSnapshot',
                      corpus[k].listed # {},
                      \A x \in mismatches' : x.snapshot # k,
                      NEW r \in Rule
               PROVE  Got(corpus[k])[r] = corpus[k].records[r]
    BY <1>2, <1>8 DEF Matched
  <2>1. CASE k \in DOMAIN perSnapshot
    BY <1>2, <2>1 DEF IInv, Matched
  <2>2. CASE k = position
    <3>1. CASE r \in fired \cup Snap.listed
      <4>1. r \in Scored(Snap, fired)
        BY <1>1, <2>2, <3>1 DEF Scored
      <4>2. ASSUME got[r] # Snap.records[r]
            PROVE  FALSE
        <5>1. [snapshot |-> position, rule |-> r, unexpected |-> got[r] \ Snap.records[r],
               missed |-> Snap.records[r] \ got[r]] \in mismatches'
          BY <1>2, <4>1, <4>2 DEF MismatchesOf
        <5> QED
          BY <2>2, <5>1
      <4> QED
        BY <1>1, <2>2, <4>2 DEF got
    <3>2. CASE r \notin fired \cup Snap.listed
      BY <1>1, <2>2, <3>2 DEF got, fired
    <3> QED
      BY <3>1, <3>2
  <2> QED
    BY <1>7, <2>1, <2>2
<1> QED
  BY <1>5, <1>6, <1>9, <1>10 DEF IInv

LEMMA StepKeepsIInv == IInv /\ [Next]_vars => IInv'
<1> SUFFICES ASSUME IInv, [Next]_vars
             PROVE  IInv'
  OBVIOUS
<1>1. CASE Load
  BY <1>1, LoadKeepsIInv
<1>2. CASE SnapshotRaises
  BY <1>2, SnapshotRaisesKeepsIInv
<1>3. CASE ScoreSnapshot
  BY <1>3, ScoreSnapshotKeepsIInv
<1>4. CASE Return
  BY <1>4, ReturnKeepsIInv
<1>5. CASE UNCHANGED vars
  BY <1>5 DEF IInv, Shape, Failure, Credited, Matched, Got, Snap, Loadable, vars, lists
<1> QED
  BY <1>1, <1>2, <1>3, <1>4, <1>5 DEF Next

\* How far a replay has got and what its lists say, kept by each step of run_replay.
THEOREM Invariance == Spec => []IInv
BY InitIInv, StepKeepsIInv, PTL DEF Spec

-----------------------------------------------------------------------------
(***************************************************************************)
(* What is replayed is what clients run: a snapshot is credited with       *)
(* exactly the rules that a review of its books would report at the same   *)
(* sensitivity, and a replay of well-formed files fails only where such a  *)
(* review would raise.                                                     *)
(***************************************************************************)
THEOREM MeasuresReviews == Spec => []ReplayMeasuresReviews
<1>1. IInv => ReplayMeasuresReviews
  <2> SUFFICES ASSUME IInv, sensitivity # "other"
               PROVE  /\ \A k \in DOMAIN perSnapshot :
                           perSnapshot[k].fired = ReviewedRules(corpus[k], sensitivity)
                      /\ outcome = "raw_error" =>
                           \/ ~Loadable
                           \/ Malformed(Snap)
                           \/ Raised(Grouped(Snap.entries), Snap.end, sensitivity)
    BY DEF ReplayMeasuresReviews
  <2>1. sensitivity \in Mode /\ ruleSet = CurrentRuleSet(sensitivity)
    BY DEF IInv, Shape
  <2>2. ASSUME NEW k \in DOMAIN perSnapshot
        PROVE  perSnapshot[k].fired = ReviewedRules(corpus[k], sensitivity)
    <3>1. ASSUME NEW r \in Rule
          PROVE  Got(corpus[k])[r] # {}
                   <=> RowsWith("failed", Grouped(corpus[k].entries), r, corpus[k].end, sensitivity) # {}
      <4> DEFINE b == Grouped(corpus[k].entries)
                 rows == RowsWith("failed", b, r, corpus[k].end, sensitivity)
      <4>1. Got(corpus[k])[r] = {b[DatasetOf(r)][i].id : i \in rows}
        BY <2>1, FiredAreReviewed DEF Got
      <4> HIDE DEF b, rows
      <4>2. Got(corpus[k])[r] # {} <=> rows # {}
        BY <4>1
      <4> QED
        BY <4>2 DEF b, rows
    <3>2. perSnapshot[k].fired = {r \in Rule : Got(corpus[k])[r] # {}}
      BY DEF IInv, Credited
    <3> QED
      BY <3>1, <3>2 DEF ReviewedRules
  <2>3. ASSUME outcome = "raw_error"
        PROVE  \/ ~Loadable
               \/ Malformed(Snap)
               \/ Raised(Grouped(Snap.entries), Snap.end, sensitivity)
    BY <2>1, <2>3, RaisesAreReviewed DEF IInv, Failure
  <2> QED
    BY <2>2, <2>3
<1> QED
  BY <1>1, Invariance, PTL

(***************************************************************************)
(* The gate of the build is exact: it lets the shipped rule set through    *)
(* only if a review of every snapshot flags the records expected of each   *)
(* rule and no other, however many records the corpus has.                 *)
(***************************************************************************)
THEOREM GateLetsNothingSlip == Spec => []GateIsExact
<1>1. IInv => GateIsExact
  <2> SUFFICES ASSUME IInv, Gate, sensitivity # "other",
                      NEW k \in DOMAIN corpus, NEW r \in Rule
               PROVE  ReviewedIds(corpus[k], r, sensitivity) = corpus[k].records[r]
    BY DEF GateIsExact
  <2>1. sensitivity \in Mode /\ ruleSet = CurrentRuleSet(sensitivity)
    BY DEF IInv, Shape
  <2>2. k \in DOMAIN perSnapshot
    BY CorporaAssumption DEF IInv, Shape, Gate
  <2>3. Got(corpus[k])[r] = corpus[k].records[r]
    BY <2>2 DEF IInv, Matched, Gate
  <2>4. Got(corpus[k])[r] = ReviewedIds(corpus[k], r, sensitivity)
    BY <2>1, FiredAreReviewed DEF Got, ReviewedIds
  <2> QED
    BY <2>3, <2>4
<1> QED
  BY <1>1, Invariance, PTL

-----------------------------------------------------------------------------
(***************************************************************************)
(* The scores.  Each total counts what the entries of its list have        *)
(* together, so the lists hold finitely many records and rules, and no     *)
(* entry is of a snapshot that is not scored yet.                          *)
(***************************************************************************)
Counts(n, S) == IsFiniteSet(S) /\ n = Cardinality(S)
All(f) == Pairs(f, DOMAIN f)

ListEntry == [snapshot : Nat, rules : SUBSET Rule]
Score == [tp : Nat, fp : Nat, fn : Nat, recTp : Nat, recFp : Nat, recFn : Nat]

Lists ==
  /\ falsePositives \in Seq(ListEntry)
  /\ falseNegatives \in Seq(ListEntry)
  /\ \A i \in DOMAIN falsePositives : falsePositives[i].snapshot \in 1..Len(perSnapshot)
  /\ \A i \in DOMAIN falseNegatives : falseNegatives[i].snapshot \in 1..Len(perSnapshot)
  /\ \A x \in mismatches : x.snapshot \in 1..Len(perSnapshot)

RuleScores ==
  /\ Counts(score.fp, All([i \in DOMAIN falsePositives |-> falsePositives[i].rules]))
  /\ Counts(score.fn, All([i \in DOMAIN falseNegatives |-> falseNegatives[i].rules]))
  /\ Counts(score.tp + score.fn, All([i \in DOMAIN perSnapshot |-> perSnapshot[i].expected]))
  /\ Counts(score.tp + score.fp, All([i \in DOMAIN perSnapshot |-> perSnapshot[i].fired]))

RecordScores ==
  /\ Counts(score.recFp, All([x \in mismatches |-> x.unexpected]))
  /\ Counts(score.recFn, All([x \in mismatches |-> x.missed]))

SInv == ruleSet \in Seq(RuleSpec) /\ score \in Score /\ Lists /\ RuleScores /\ RecordScores

LEMMA OneToOne ==
  ASSUME NEW S, NEW T, IsFiniteSet(S), NEW f \in [S -> T],
         \A t \in T : \E s \in S : f[s] = t,
         \A s, t \in S : f[s] = f[t] => s = t
  PROVE  IsFiniteSet(T) /\ Cardinality(T) = Cardinality(S)
<1>1. f \in Surjection(S, T) /\ f \in Injection(S, T)
  BY DEF Surjection, Injection, IsInjective
<1> QED
  BY <1>1, FS_Surjection

LEMMA Onto ==
  ASSUME NEW S, NEW T, IsFiniteSet(S), NEW f \in [S -> T], \A t \in T : \E s \in S : f[s] = t
  PROVE  IsFiniteSet(T)
<1>1. f \in Surjection(S, T)
  BY DEF Surjection
<1> QED
  BY <1>1, FS_Surjection

LEMMA RulesAreFinite == IsFiniteSet(Rule)
<1>1. PICK n \in Nat : n = 13
  OBVIOUS
<1>2. RuleOrder \in [1..n -> Rule]
  <2>1. RuleOrder \in [1..13 -> Rule]
    BY DEF RuleOrder, Rule
  <2> QED
    BY <1>1, <2>1
<1>3. \A r \in Rule : \E k \in 1..n : RuleOrder[k] = r
  BY <1>2, EachRuleOnce
<1>4. IsFiniteSet(1..n)
  BY FS_Interval
<1> QED
  BY <1>2, <1>3, <1>4, Onto

LEMMA Apart ==
  ASSUME NEW S, NEW T, IsFiniteSet(S), IsFiniteSet(T), S \cap T = {}
  PROVE  /\ IsFiniteSet(S \cup T)
         /\ Cardinality(S) \in Nat /\ Cardinality(T) \in Nat
         /\ Cardinality(S \cup T) = Cardinality(S) + Cardinality(T)
<1>1. Cardinality(S) \in Nat /\ Cardinality(T) \in Nat
  BY FS_CardinalityType
<1>2. Cardinality(S \cap T) = 0
  BY FS_EmptySet
<1>3. /\ IsFiniteSet(S \cup T)
      /\ Cardinality(S \cup T) = Cardinality(S) + Cardinality(T) - Cardinality(S \cap T)
  BY FS_Union
<1> QED
  BY <1>1, <1>2, <1>3

\* A rule and its records, or a list entry and its rules, make as many pairs.
LEMMA Tagged ==
  ASSUME NEW k, NEW X, IsFiniteSet(X)
  PROVE  /\ IsFiniteSet({<<k, x>> : x \in X})
         /\ Cardinality({<<k, x>> : x \in X}) = Cardinality(X)
<1> DEFINE T == {<<k, x>> : x \in X}
           f == [x \in X |-> <<k, x>>]
<1>1. f \in [X -> T] /\ (\A t \in T : \E x \in X : f[x] = t)
  OBVIOUS
<1>2. \A x, y \in X : f[x] = f[y] => x = y
  OBVIOUS
<1> HIDE DEF f, T
<1>3. IsFiniteSet(T) /\ Cardinality(T) = Cardinality(X)
  BY <1>1, <1>2, OneToOne
<1> QED
  BY <1>3 DEF T

LEMMA PairsAreFinite ==
  ASSUME NEW f, NEW S, IsFiniteSet(S), \A r \in S : IsFiniteSet(f[r])
  PROVE  IsFiniteSet(Pairs(f, S))
<1> DEFINE U == {{<<r, x>> : x \in f[r]} : r \in S}
           h == [r \in S |-> {<<r, x>> : x \in f[r]}]
<1>1. h \in [S -> U] /\ \A t \in U : \E r \in S : h[r] = t
  OBVIOUS
<1>2. \A t \in U : IsFiniteSet(t)
  <2> SUFFICES ASSUME NEW r \in S PROVE IsFiniteSet({<<r, x>> : x \in f[r]})
    OBVIOUS
  <2>1. IsFiniteSet(f[r])
    OBVIOUS
  <2> QED
    BY <2>1, Tagged
<1>3. Pairs(f, S) = UNION U
  BY DEF Pairs
<1> HIDE DEF h, U
<1>4. IsFiniteSet(U)
  BY <1>1, Onto
<1> QED
  BY <1>2, <1>3, <1>4, FS_UNION

LEMMA InPairs ==
  ASSUME NEW f, NEW S, NEW p
  PROVE  p \in Pairs(f, S) <=> \E r \in S : \E x \in f[r] : p = <<r, x>>
BY DEF Pairs

Extends(g, f, n) ==
  DOMAIN f = 1..n /\ DOMAIN g = 1..(n + 1) /\ \A i \in 1..n : g[i] = f[i]

\* An entry more adds what it counts.
LEMMA EntryAdds ==
  ASSUME NEW n \in Nat, NEW f, NEW g, Extends(g, f, n), IsFiniteSet(g[n + 1]),
         NEW c \in Nat, Counts(c, All(f))
  PROVE  Counts(c + Cardinality(g[n + 1]), All(g))
<1> DEFINE m == n + 1
           new == {<<m, x>> : x \in g[m]}
<1>1. /\ DOMAIN f = 1..n /\ DOMAIN g = 1..m /\ \A i \in 1..n : g[i] = f[i]
      /\ m \notin 1..n /\ 1..m = (1..n) \cup {m}
  BY DEF Extends
<1>2. IsFiniteSet(new) /\ Cardinality(new) = Cardinality(g[m])
  <2> HIDE DEF m
  <2>1. IsFiniteSet(g[m])
    BY DEF m
  <2> QED
    BY <2>1, Tagged
<1> HIDE DEF m
<1>3. All(g) = All(f) \cup new
  <2>1. \A p : p \in All(g) <=> \E i \in 1..m : \E x \in g[i] : p = <<i, x>>
    BY <1>1, InPairs DEF All
  <2>2. \A p : p \in All(f) <=> \E i \in 1..n : \E x \in f[i] : p = <<i, x>>
    BY <1>1, InPairs DEF All
  <2>3. \A p : p \in All(g) <=> (p \in All(f) \/ p \in new)
    BY <1>1, <2>1, <2>2
  <2> QED
    BY <2>3
<1>4. All(f) \cap new = {}
  <2>1. \A p \in All(f) : \E i \in 1..n : \E x \in f[i] : p = <<i, x>>
    BY <1>1, InPairs DEF All
  <2> QED
    BY <1>1, <2>1
<1> HIDE DEF new
<1>5. IsFiniteSet(All(f)) /\ c = Cardinality(All(f))
  BY DEF Counts
<1>6. /\ IsFiniteSet(All(f) \cup new)
      /\ Cardinality(All(f) \cup new) = Cardinality(All(f)) + Cardinality(new)
  BY <1>2, <1>4, <1>5, Apart
<1> QED
  BY <1>2, <1>3, <1>5, <1>6 DEF Counts, m

-----------------------------------------------------------------------------
(***************************************************************************)
(* What a rule flags in a snapshot is finite: a data set is a list.        *)
(***************************************************************************)
LEMMA RowsAreListed ==
  ASSUME NEW entries, Len(entries) \in Nat, NEW d
  PROVE  \E n \in Nat : DOMAIN RowsOf(entries, d) = 1..n
<1> DEFINE n == Len(entries)
           R == {entries[i].row : i \in 1..n}
           V == Seq(R)
           first == <<>>
           step == [i \in 1..n |->
             [q \in V |-> IF entries[i].dataset = d THEN Append(q, entries[i].row) ELSE q]]
           Fits(f) == f = [i \in 0..Len(entries) |->
             IF i = 0 THEN <<>>
             ELSE IF entries[i].dataset = d THEN Append(f[i - 1], entries[i].row) ELSE f[i - 1]]
           Kept(f) == \A i \in 1..n :
             f[i] = IF entries[i].dataset = d THEN Append(f[i - 1], entries[i].row) ELSE f[i - 1]
<1>1. n \in Nat /\ first \in V /\ step \in [1..n -> [V -> V]]
  <2>1. \A i \in 1..n : entries[i].row \in R
    OBVIOUS
  <2> HIDE DEF R
  <2> QED
    BY <2>1
<1>2. PICK f : Follows(f, n, V, first, step)
  <2> HIDE DEF n, V, first, step
  <2> QED
    BY <1>1, ByRecursion
<1>3. f \in [0..n -> V] /\ f[0] = <<>> /\ Kept(f)
  <2>1. \A i \in 1..n : f[i - 1] \in V
    BY <1>1, <1>2 DEF Follows
  <2>2. f \in [0..n -> V] /\ f[0] = <<>> /\ \A i \in 1..n : f[i] = step[i][f[i - 1]]
    BY <1>2 DEF Follows
  <2>3. \A i \in 1..n, q \in V :
          step[i][q] = IF entries[i].dataset = d THEN Append(q, entries[i].row) ELSE q
    OBVIOUS
  <2> HIDE DEF V, step, n
  <2> QED
    BY <2>1, <2>2, <2>3
<1>4. Fits(f)
  <2>1. \A i \in 0..n :
          f[i] = IF i = 0 THEN <<>>
                 ELSE IF entries[i].dataset = d THEN Append(f[i - 1], entries[i].row) ELSE f[i - 1]
    <3>1. \A i \in 0..n : i = 0 \/ i \in 1..n
      BY <1>1
    <3> HIDE DEF V, step, n
    <3> QED
      BY <1>3, <3>1
  <2> QED
    BY <1>3, <2>1
<1> DEFINE p == RowsUpTo(entries, d)
           S == {i \in 0..n : p[i] \in V}
<1>5. Fits(p)
  <2>1. RowsUpTo(entries, d) = CHOOSE g : Fits(g)
    BY DEF RowsUpTo
  <2> HIDE DEF Fits
  <2> QED
    BY <1>4, <2>1
<1>6. ASSUME NEW q, Fits(q)
      PROVE  q[0] = <<>> /\ Kept(q)
  <2>1. \A i \in 0..n :
          q[i] = IF i = 0 THEN <<>>
                 ELSE IF entries[i].dataset = d THEN Append(q[i - 1], entries[i].row) ELSE q[i - 1]
    BY <1>6
  <2>2. 0 \in 0..n /\ \A i \in 1..n : i \in 0..n /\ i # 0
    BY <1>1
  <2> HIDE DEF n, Fits
  <2> QED
    BY <2>1, <2>2
<1> HIDE DEF Fits, p
<1>7. p[0] = <<>> /\ Kept(p)
  BY <1>5, <1>6
<1>8. 0 \in S
  <2>1. <<>> \in V /\ 0 \in 0..n
    BY <1>1
  <2> QED
    BY <1>7, <2>1
<1>9. ASSUME NEW i \in 1..n, i - 1 \in S
      PROVE  i \in S
  <2> DEFINE old == p[i - 1]
             new == p[i]
             row == entries[i].row
  <2>1. old \in Seq(R) /\ row \in R /\ i \in 0..n
    BY <1>1, <1>9
  <2>2. new = old \/ new = Append(old, row)
    BY <1>7
  <2> HIDE DEF old, new, row, R
  <2>3. new \in Seq(R)
    BY <2>1, <2>2
  <2> QED
    BY <2>1, <2>3 DEF new
<1> HIDE DEF S, n
<1>10. n \in S
  <2>1. 0..n \subseteq S
    BY <1>1, <1>8, <1>9, UpTo
  <2> QED
    BY <1>1, <2>1
<1>11. p[n] \in Seq(R)
  BY <1>10 DEF S
<1> QED
  BY <1>11 DEF RowsOf, p, n

LEMMA FlaggedAreFinite ==
  ASSUME NEW spec \in RuleSpec, NEW b, \A d \in Dataset : IsFiniteSet(DOMAIN b[d]), NEW at
  PROVE  IsFiniteSet(Flagged(spec, b, at))
<1> DEFINE r == spec.rule
           s == Supplied(b, r)
           v == VerdictsBy(spec, s, at)
           rows == RowsBy("failed", spec, b, at)
           f == [i \in rows |-> b[DatasetOf(r)][i].id]
<1>1. r \in Rule
  BY DEF RuleSpec
<1>2. /\ s.matters = b.matters /\ s.ledger = b.ledger
      /\ s.lines = b.lines /\ s.periods = b.periods
  BY <1>1, SuppliedSuffices
<1> HIDE DEF s
<1>3. DOMAIN v \in {DOMAIN b.matters, DOMAIN b.ledger, DOMAIN b.lines, DOMAIN b.periods}
  <2>1. CASE r \in Limited
    BY <1>2, <2>1 DEF VerdictsBy, LimitedVerdicts, Limited
  <2>2. CASE r \notin Limited
    <3>1. v = VerdictsOn(s, r, at, "standard")
      BY <2>2 DEF VerdictsBy
    <3>2. r \in {"R01", "R03", "R07", "R08", "R09", "R10", "R13", "R14"}
      BY <1>1, <2>2 DEF Rule, Limited
    <3> HIDE DEF v, r
    <3> QED
      BY <1>2, <3>1, <3>2 DEF VerdictsOn
  <2> QED
    BY <2>1, <2>2
<1>4. IsFiniteSet(DOMAIN v)
  <2>1. \A d \in {"matters", "ledger", "lines", "periods"} : IsFiniteSet(DOMAIN b[d])
    BY DEF Dataset
  <2> HIDE DEF v
  <2> QED
    BY <1>3, <2>1
<1>5. rows \subseteq DOMAIN v
  BY DEF RowsBy, s
<1> HIDE DEF v, rows, r
<1>6. IsFiniteSet(rows)
  BY <1>4, <1>5, FS_Subset
<1>7. f \in [rows -> Flagged(spec, b, at)]
      /\ \A x \in Flagged(spec, b, at) : \E i \in rows : f[i] = x
  BY DEF Flagged, rows, r
<1> HIDE DEF f
<1> QED
  BY <1>6, <1>7, Onto

LEMMA FiredAreFinite ==
  ASSUME NEW specs \in Seq(RuleSpec), NEW s, Len(s.entries) \in Nat, NEW r \in Rule
  PROVE  IsFiniteSet(FiredRecords(specs, Grouped(s.entries), s.end)[r])
<1> DEFINE b == Grouped(s.entries)
           last == LastFlagging(specs, r, b, s.end)
           flagged(k) == Flagged(specs[k], b, s.end)
<1>1. \A d \in Dataset : IsFiniteSet(DOMAIN b[d])
  <2> TAKE d \in Dataset
  <2>1. PICK n \in Nat : DOMAIN RowsOf(s.entries, d) = 1..n
    BY RowsAreListed
  <2>2. IsFiniteSet(1..n)
    BY FS_Interval
  <2> QED
    BY <2>1, <2>2 DEF Grouped
<1> HIDE DEF b
<1>2. \A k \in DOMAIN specs : IsFiniteSet(flagged(k))
  BY <1>1, FlaggedAreFinite
<1>3. last \subseteq DOMAIN specs /\ \A j, k \in last : j = k
  BY DEF LastFlagging
<1>4. FiredRecords(specs, b, s.end)[r] = UNION {flagged(k) : k \in last}
  BY DEF FiredRecords
<1>5. CASE last = {}
  <2>1. UNION {flagged(k) : k \in last} = {}
    BY <1>5
  <2> QED
    BY <1>4, <2>1, FS_EmptySet DEF b
<1>6. ASSUME NEW k \in last
      PROVE  IsFiniteSet(FiredRecords(specs, b, s.end)[r])
  <2> HIDE DEF flagged, last
  <2>1. UNION {flagged(j) : j \in last} = flagged(k)
    BY <1>3, <1>6
  <2> QED
    BY <1>2, <1>3, <1>4, <2>1
<1> QED
  BY <1>5, <1>6 DEF b

-----------------------------------------------------------------------------
(***************************************************************************)
(* The mismatches of one snapshot count the records that its pairs count.  *)
(***************************************************************************)
Renames(M, rec, f, d, rules) ==
  /\ DOMAIN f = M
  /\ M \subseteq {rec[r] : r \in rules}
  /\ \A r \in rules : d[r] # {} => rec[r] \in M
  /\ \A r \in rules : rec[r] \in M => f[rec[r]] = d[r]
  /\ \A q, r \in rules : rec[q] = rec[r] => q = r

LEMMA SamePairs ==
  ASSUME NEW M, NEW rec, NEW f, NEW d, NEW rules, Renames(M, rec, f, d, rules),
         IsFiniteSet(Pairs(d, rules))
  PROVE  Counts(Cardinality(Pairs(d, rules)), All(f))
<1> DEFINE S == Pairs(d, rules)
           h == [p \in S |-> <<rec[p[1]], p[2]>>]
<1>1. \A p : p \in S <=> \E r \in rules : \E x \in d[r] : p = <<r, x>>
  BY InPairs
<1>2. \A p : p \in All(f) <=> \E m \in M : \E x \in f[m] : p = <<m, x>>
  BY InPairs DEF All, Renames
<1>3. /\ M \subseteq {rec[r] : r \in rules}
      /\ \A r \in rules : d[r] # {} => rec[r] \in M
      /\ \A r \in rules : rec[r] \in M => f[rec[r]] = d[r]
      /\ \A q, r \in rules : rec[q] = rec[r] => q = r
  BY DEF Renames
<1> HIDE DEF S
<1>4. ASSUME NEW r \in rules, NEW x \in d[r]
      PROVE  /\ <<r, x>> \in S
             /\ h[<<r, x>>] = <<rec[r], x>>
             /\ <<rec[r], x>> \in All(f)
  <2>1. <<r, x>> \in S
    BY <1>1
  <2>2. rec[r] \in M /\ x \in f[rec[r]]
    BY <1>3
  <2> QED
    BY <1>2, <2>1, <2>2
<1> HIDE DEF h
<1>5. h \in [S -> All(f)]
  <2>1. ASSUME NEW p \in S
        PROVE  h[p] \in All(f)
    <3>1. PICK r \in rules : \E x \in d[r] : p = <<r, x>>
      BY <1>1
    <3>2. PICK x \in d[r] : p = <<r, x>>
      BY <3>1
    <3> QED
      BY <1>4, <3>2
  <2>2. h = [p \in S |-> h[p]]
    BY DEF h
  <2> QED
    BY <2>1, <2>2
<1>6. ASSUME NEW t \in All(f)
      PROVE  \E p \in S : h[p] = t
  <2>1. PICK m \in M : \E x \in f[m] : t = <<m, x>>
    BY <1>2
  <2>2. PICK x \in f[m] : t = <<m, x>>
    BY <2>1
  <2>3. PICK r \in rules : m = rec[r]
    BY <1>3
  <2>4. x \in d[r]
    BY <1>3, <2>2, <2>3
  <2> QED
    BY <1>4, <2>2, <2>3, <2>4
<1>7. ASSUME NEW p \in S, NEW q \in S, h[p] = h[q]
      PROVE  p = q
  <2>1. PICK r \in rules : \E x \in d[r] : p = <<r, x>>
    BY <1>1
  <2>2. PICK x \in d[r] : p = <<r, x>>
    BY <2>1
  <2>3. PICK s \in rules : \E y \in d[s] : q = <<s, y>>
    BY <1>1
  <2>4. PICK y \in d[s] : q = <<s, y>>
    BY <2>3
  <2>5. <<rec[r], x>> = <<rec[s], y>>
    BY <1>4, <1>7, <2>2, <2>4
  <2>6. rec[r] = rec[s] /\ x = y
    BY <2>5
  <2> QED
    BY <1>3, <2>2, <2>4, <2>6
<1>8. IsFiniteSet(S)
  BY DEF S
<1>9. IsFiniteSet(All(f)) /\ Cardinality(All(f)) = Cardinality(S)
  BY <1>5, <1>6, <1>7, <1>8, OneToOne
<1> QED
  BY <1>9 DEF Counts, S

Joins(h, f, g) ==
  /\ DOMAIN h = DOMAIN f \cup DOMAIN g
  /\ DOMAIN f \cap DOMAIN g = {}
  /\ \A x \in DOMAIN f : h[x] = f[x]
  /\ \A x \in DOMAIN g : h[x] = g[x]

LEMMA JoinAdds ==
  ASSUME NEW f, NEW g, NEW h, Joins(h, f, g), NEW m, NEW n, Counts(m, All(f)), Counts(n, All(g))
  PROVE  Counts(m + n, All(h))
<1>1. \A k : \A p : p \in All(k) <=> \E x \in DOMAIN k : \E y \in k[x] : p = <<x, y>>
  BY InPairs DEF All
<1>2. All(h) = All(f) \cup All(g)
  <2>1. \A p : p \in All(h) <=> (p \in All(f) \/ p \in All(g))
    BY <1>1 DEF Joins
  <2> QED
    BY <2>1
<1>3. All(f) \cap All(g) = {}
  BY <1>1 DEF Joins
<1>4. IsFiniteSet(All(f)) /\ IsFiniteSet(All(g)) /\ m = Cardinality(All(f)) /\ n = Cardinality(All(g))
  BY DEF Counts
<1>5. /\ IsFiniteSet(All(f) \cup All(g))
      /\ Cardinality(All(f) \cup All(g)) = Cardinality(All(f)) + Cardinality(All(g))
  BY <1>3, <1>4, Apart
<1> QED
  BY <1>2, <1>4, <1>5 DEF Counts

LEMMA MismatchesCount ==
  ASSUME NEW k, NEW got, NEW want, NEW rules, IsFiniteSet(rules),
         \A r \in rules : IsFiniteSet(got[r]) /\ IsFiniteSet(want[r])
  PROVE  LET M == MismatchesOf(k, got, want, rules)
         IN /\ Counts(Cardinality(Pairs(got, rules) \ Pairs(want, rules)), All([x \in M |-> x.unexpected]))
            /\ Counts(Cardinality(Pairs(want, rules) \ Pairs(got, rules)), All([x \in M |-> x.missed]))
<1> DEFINE M == MismatchesOf(k, got, want, rules)
           rec == [r \in rules |-> [snapshot |-> k, rule |-> r, unexpected |-> got[r] \ want[r],
                                    missed |-> want[r] \ got[r]]]
           over == [r \in rules |-> got[r] \ want[r]]
           under == [r \in rules |-> want[r] \ got[r]]
           u == [x \in M |-> x.unexpected]
           v == [x \in M |-> x.missed]
<1>1. /\ Pairs(got, rules) \ Pairs(want, rules) = Pairs(over, rules)
      /\ Pairs(want, rules) \ Pairs(got, rules) = Pairs(under, rules)
  <2>1. /\ \A p : p \in Pairs(got, rules) <=> \E r \in rules : \E x \in got[r] : p = <<r, x>>
        /\ \A p : p \in Pairs(want, rules) <=> \E r \in rules : \E x \in want[r] : p = <<r, x>>
        /\ \A p : p \in Pairs(over, rules) <=> \E r \in rules : \E x \in over[r] : p = <<r, x>>
        /\ \A p : p \in Pairs(under, rules) <=> \E r \in rules : \E x \in under[r] : p = <<r, x>>
    BY InPairs
  <2>2. \A r \in rules : over[r] = got[r] \ want[r] /\ under[r] = want[r] \ got[r]
    OBVIOUS
  <2> HIDE DEF over, under
  <2>3. \A p : p \in Pairs(over, rules) <=> (p \in Pairs(got, rules) /\ p \notin Pairs(want, rules))
    BY <2>1, <2>2
  <2>4. \A p : p \in Pairs(under, rules) <=> (p \in Pairs(want, rules) /\ p \notin Pairs(got, rules))
    BY <2>1, <2>2
  <2> QED
    BY <2>3, <2>4
<1>2. \A r \in rules : /\ rec[r].rule = r
                       /\ rec[r].unexpected = over[r]
                       /\ rec[r].missed = under[r]
                       /\ rec[r] \in M <=> got[r] # want[r]
  <2>1. \A r \in rules : rec[r].rule = r /\ rec[r].unexpected = over[r] /\ rec[r].missed = under[r]
    OBVIOUS
  <2>2. M = {rec[r] : r \in {x \in rules : got[x] # want[x]}}
    BY DEF MismatchesOf
  <2> HIDE DEF M, rec, over, under
  <2> QED
    BY <2>1, <2>2
<1>3. M \subseteq {rec[r] : r \in rules}
  BY DEF MismatchesOf
<1>4. \A r \in rules : (over[r] # {} \/ under[r] # {}) => got[r] # want[r]
  OBVIOUS
<1>5. \A x \in M : u[x] = x.unexpected /\ v[x] = x.missed
  OBVIOUS
<1>6. DOMAIN u = M /\ DOMAIN v = M
  OBVIOUS
<1>7. \A r \in rules : IsFiniteSet(over[r]) /\ IsFiniteSet(under[r])
  <2> TAKE r \in rules
  <2>1. IsFiniteSet(got[r] \ want[r]) /\ IsFiniteSet(want[r] \ got[r])
    BY FS_Difference
  <2> QED
    BY <2>1
<1> HIDE DEF M, rec, over, under, u, v
<1>8. Renames(M, rec, u, over, rules) /\ Renames(M, rec, v, under, rules)
  BY <1>2, <1>3, <1>4, <1>5, <1>6 DEF Renames
<1>9. IsFiniteSet(Pairs(over, rules)) /\ IsFiniteSet(Pairs(under, rules))
  BY <1>7, PairsAreFinite
<1>10. Counts(Cardinality(Pairs(over, rules)), All(u)) /\ Counts(Cardinality(Pairs(under, rules)), All(v))
  BY <1>8, <1>9, SamePairs
<1> QED
  BY <1>1, <1>10 DEF u, v, M

-----------------------------------------------------------------------------
RulesIn(list) == [i \in DOMAIN list |-> list[i].rules]
ExpectedIn(list) == [i \in DOMAIN list |-> list[i].expected]
FiredIn(list) == [i \in DOMAIN list |-> list[i].fired]

Enters(new, list, k, R) == new = list \o Entered(k, R)
BreaksDown(new, list, x, y) == new = list \o <<[expected |-> x, fired |-> y]>>

\* The entries of new are those of list, or of snapshot k.
OldOrOf(k, new, list) ==
  \A i \in DOMAIN new : (i \in DOMAIN list /\ new[i] = list[i]) \/ new[i].snapshot = k

\* An entry is appended to a list unless it would be empty; either way it counts its rules.
LEMMA EnteredCounts ==
  ASSUME NEW list \in Seq(ListEntry), NEW k \in Nat, NEW R \in SUBSET Rule,
         NEW new, Enters(new, list, k, R),
         NEW c \in Nat, Counts(c, All(RulesIn(list)))
  PROVE  /\ new \in Seq(ListEntry)
         /\ OldOrOf(k, new, list)
         /\ Counts(c + Cardinality(R), All(RulesIn(new)))
<1>1. IsFiniteSet(R)
  BY RulesAreFinite, FS_Subset
<1>2. CASE R = {}
  <2>1. new = list
    BY <1>2 DEF Enters, Entered
  <2>2. Cardinality(R) = 0
    BY <1>2, FS_EmptySet
  <2> QED
    BY <2>1, <2>2 DEF OldOrOf
<1>3. CASE R # {}
  <2> DEFINE e == [snapshot |-> k, rules |-> R]
             n == Len(list)
             f == RulesIn(list)
             g == RulesIn(new)
  <2>1. e \in ListEntry /\ e.snapshot = k /\ e.rules = R
    BY DEF ListEntry
  <2>2. new = list \o <<e>>
    BY <1>3 DEF Enters, Entered
  <2> HIDE DEF e
  <2>3. /\ new \in Seq(ListEntry) /\ n \in Nat
        /\ DOMAIN list = 1..n /\ DOMAIN new = 1..(n + 1)
        /\ \A i \in 1..n : new[i] = list[i]
        /\ new[n + 1] = e
        /\ \A i \in 1..(n + 1) : i \in 1..n \/ i = n + 1
    BY <2>1, <2>2
  <2>4. g[n + 1] = R
    <3>1. n + 1 \in 1..(n + 1)
      BY <2>3
    <3> QED
      BY <2>1, <2>3, <3>1 DEF RulesIn
  <2>5. Extends(g, f, n)
    <3>1. \A i \in 1..n : i \in 1..(n + 1)
      BY <2>3
    <3> HIDE DEF n
    <3> QED
      BY <2>3, <3>1 DEF Extends, RulesIn
  <2>6. Counts(c + Cardinality(g[n + 1]), All(g))
    <3>1. IsFiniteSet(g[n + 1])
      BY <1>1, <2>4
    <3> HIDE DEF f, g, n
    <3> QED
      BY <2>3, <2>5, <3>1, EntryAdds DEF f
  <2>7. OldOrOf(k, new, list)
    BY <2>1, <2>3 DEF OldOrOf
  <2> QED
    BY <2>3, <2>4, <2>6, <2>7
<1> QED
  BY <1>2, <1>3

\* An appended breakdown counts the rules it expects and those it has fired.
LEMMA BreakdownCounts ==
  ASSUME NEW list \in Seq([expected : SUBSET Rule, fired : SUBSET Rule]),
         NEW x \in SUBSET Rule, NEW y \in SUBSET Rule,
         NEW new, BreaksDown(new, list, x, y),
         NEW c \in Nat, Counts(c, All(ExpectedIn(list))),
         NEW d \in Nat, Counts(d, All(FiredIn(list)))
  PROVE  /\ Len(new) = Len(list) + 1
         /\ Counts(c + Cardinality(x), All(ExpectedIn(new)))
         /\ Counts(d + Cardinality(y), All(FiredIn(new)))
<1> DEFINE e == [expected |-> x, fired |-> y]
           n == Len(list)
           f == ExpectedIn(list)
           g == ExpectedIn(new)
           p == FiredIn(list)
           q == FiredIn(new)
<1>1. e \in [expected : SUBSET Rule, fired : SUBSET Rule] /\ e.expected = x /\ e.fired = y
  OBVIOUS
<1> HIDE DEF e
<1>2. /\ n \in Nat /\ Len(new) = n + 1
      /\ DOMAIN list = 1..n /\ DOMAIN new = 1..(n + 1)
      /\ \A i \in 1..n : i \in 1..(n + 1) /\ new[i] = list[i]
      /\ n + 1 \in 1..(n + 1) /\ new[n + 1] = e
  <2>1. new = list \o <<e>>
    BY DEF e, BreaksDown
  <2> QED
    BY <1>1, <2>1
<1>3. Extends(g, f, n) /\ Extends(q, p, n) /\ g[n + 1] = x /\ q[n + 1] = y
  <2> HIDE DEF n
  <2> QED
    BY <1>1, <1>2 DEF Extends, ExpectedIn, FiredIn
<1>4. IsFiniteSet(g[n + 1]) /\ IsFiniteSet(q[n + 1])
  <2>1. IsFiniteSet(x) /\ IsFiniteSet(y)
    BY RulesAreFinite, FS_Subset
  <2> HIDE DEF g, q
  <2> QED
    BY <1>3, <2>1
<1>5. Counts(c, All(f)) /\ Counts(d, All(p))
  OBVIOUS
<1> HIDE DEF f, g, p, q, n
<1>6. Counts(c + Cardinality(g[n + 1]), All(g)) /\ Counts(d + Cardinality(q[n + 1]), All(q))
  BY <1>2, <1>3, <1>4, <1>5, EntryAdds
<1> QED
  BY <1>2, <1>3, <1>6 DEF g, q, n

LEMMA CurrentIsTyped ==
  ASSUME NEW m \in Mode
  PROVE  CurrentRuleSet(m) \in Seq(RuleSpec)
<1>1. Halves(m) \in {1, 2, 3}
  BY DEF Halves, Mode
<1>2. \A days \in Nat : ScaleDays(days, m) \in Nat
  <2> TAKE days \in Nat
  <2>1. days * Halves(m) + 1 \in Nat
    BY <1>1
  <2>2. (days * Halves(m) + 1) \div 2 \in Nat
    BY <2>1
  <2> QED
    BY <2>2 DEF ScaleDays
<1>3. \A cents \in Nat : ScaleAmount(cents, m) \in Nat
  <2> TAKE cents \in Nat
  <2>1. cents * Halves(m) \in Nat
    BY <1>1
  <2>2. 2 * Parts \in Nat \ {0}
    BY ThresholdAssumption
  <2>3. \A n \in Nat, d \in Nat \ {0} : n \div d \in Nat
    OBVIOUS
  <2>4. (cents * Halves(m)) \div (2 * Parts) \in Nat
    BY <2>1, <2>2, <2>3
  <2> QED
    BY <2>4 DEF ScaleAmount, ToCents
<1>4. \A r \in Rule : LimitOf(r, m) \in Nat
  BY <1>2, <1>3 DEF LimitOf, Limited, Rule, StandardThresholds
<1>5. DOMAIN RuleOrder = 1..13 /\ \A k \in 1..13 : RuleOrder[k] \in Rule
  BY DEF RuleOrder, Rule
<1>6. \A k \in 1..13 : [rule |-> RuleOrder[k], limit |-> LimitOf(RuleOrder[k], m)] \in RuleSpec
  BY <1>4, <1>5 DEF RuleSpec
<1>7. PICK n \in Nat : n = 13
  OBVIOUS
<1>8. CurrentRuleSet(m) = [k \in 1..n |-> [rule |-> RuleOrder[k], limit |-> LimitOf(RuleOrder[k], m)]]
  BY <1>5, <1>7 DEF CurrentRuleSet
<1> QED
  BY <1>6, <1>7, <1>8

LEMMA InitSInv ==
  ASSUME Init
  PROVE  SInv
<1>1. ruleSet \in Seq(RuleSpec)
  BY CurrentIsTyped, RuleSetsAssumption DEF Init
<1>2. score \in Score
  BY DEF Init, Score
<1>3. Lists
  BY DEF Init, Lists
<1>4. \A f : DOMAIN f = {} => Counts(0, All(f))
  <2> TAKE f
  <2>1. DOMAIN f = {} => All(f) = {}
    BY DEF All, Pairs
  <2> QED
    BY <2>1, FS_EmptySet DEF Counts
<1>5. RuleScores /\ RecordScores
  BY <1>4 DEF Init, RuleScores, RecordScores
<1> QED
  BY <1>1, <1>2, <1>3, <1>5 DEF SInv

\* Two sets of rules: the common ones, and those of one only.
LEMMA Split ==
  ASSUME NEW R \in SUBSET Rule, NEW S
  PROVE  /\ Cardinality(R \cap S) \in Nat /\ Cardinality(R \ S) \in Nat
         /\ Cardinality(R) = Cardinality(R \cap S) + Cardinality(R \ S)
<1>1. IsFiniteSet(R) /\ IsFiniteSet(R \cap S)
  BY RulesAreFinite, FS_Subset
<1>2. Cardinality(R) \in Nat /\ Cardinality(R \cap S) \in Nat
  BY <1>1, FS_CardinalityType
<1>3. IsFiniteSet(R \ S) /\ Cardinality(R \ S) = Cardinality(R) - Cardinality(R \cap S)
  BY <1>1, FS_Difference
<1>4. Cardinality(R \ S) \in Nat
  BY <1>3, FS_CardinalityType
<1> QED
  BY <1>2, <1>3, <1>4

LEMMA ScoreSnapshotKeepsSInv ==
  ASSUME IInv, SInv, ScoreSnapshot
  PROVE  SInv'
<1> DEFINE got == Got(Snap)
           fired == {r \in Rule : got[r] # {}}
           want == Snap.records
           rules == Scored(Snap, fired)
           expected == Snap.expected
           g == Pairs(got, rules)
           w == Pairs(want, rules)
           M == MismatchesOf(position, got, want, rules)
           tp == Cardinality(fired \cap expected)
           fp == Cardinality(fired \ expected)
           fn == Cardinality(expected \ fired)
<1>1. /\ Snap \in Snapshot
      /\ \A r \in Rule : IsFiniteSet(want[r])
      /\ position \in Nat \ {0} /\ Len(perSnapshot) = position - 1
  <2>1. /\ corpus \in Corpora /\ position \in DOMAIN corpus /\ Snap = corpus[position]
    BY DEF IInv, Shape, ScoreSnapshot, AtSnapshot, Snap
  <2>2. corpus \in Seq(Snapshot) /\ \A k \in DOMAIN corpus : \A r \in Rule : IsFiniteSet(corpus[k].records[r])
    BY <2>1, CorporaAssumption
  <2>3. position \in Nat \ {0}
    BY <2>1, <2>2
  <2> QED
    BY <2>1, <2>2, <2>3 DEF IInv, Shape
<1>2. expected \in SUBSET Rule /\ fired \in SUBSET Rule /\ rules \in SUBSET Rule
      /\ Len(Snap.entries) \in Nat
  BY <1>1 DEF Snapshot, Scored
<1>3. \A r \in Rule : IsFiniteSet(got[r])
  BY <1>2, FiredAreFinite DEF Got, SInv
<1>4. /\ score' = [tp |-> score.tp + tp, fp |-> score.fp + fp, fn |-> score.fn + fn,
                   recTp |-> score.recTp + Cardinality(g \cap w),
                   recFp |-> score.recFp + Cardinality(g \ w),
                   recFn |-> score.recFn + Cardinality(w \ g)]
      /\ mismatches' = mismatches \cup M
      /\ falsePositives' = falsePositives \o Entered(position, fired \ expected)
      /\ falseNegatives' = falseNegatives \o Entered(position, expected \ fired)
      /\ perSnapshot' = perSnapshot \o <<[expected |-> expected, fired |-> fired]>>
      /\ ruleSet' = ruleSet
  BY DEF ScoreSnapshot, Got, Breakdown
<1>5. /\ tp \in Nat /\ fp \in Nat /\ fn \in Nat
      /\ Cardinality(fired) = tp + fp /\ Cardinality(expected) = tp + fn
  <2> HIDE DEF fired, expected
  <2>1. expected \cap fired = fired \cap expected
    OBVIOUS
  <2> QED
    BY <1>2, <2>1, Split
<1> HIDE DEF got, fired, want, rules, expected
<1>6. IsFiniteSet(g) /\ IsFiniteSet(w) /\ IsFiniteSet(rules)
  <2>1. IsFiniteSet(rules)
    BY <1>2, RulesAreFinite, FS_Subset
  <2> QED
    BY <1>1, <1>2, <1>3, <2>1, PairsAreFinite
<1>7. /\ Cardinality(g \cap w) \in Nat
      /\ Cardinality(g \ w) \in Nat
      /\ Cardinality(w \ g) \in Nat
  <2> HIDE DEF g, w
  <2>1. IsFiniteSet(g \cap w) /\ IsFiniteSet(g \ w) /\ IsFiniteSet(w \ g)
    BY <1>6, FS_Subset
  <2> QED
    BY <2>1, FS_CardinalityType
<1>8. score \in Score /\ score' \in Score
  <2> HIDE DEF g, w, tp, fp, fn
  <2> DEFINE rt == Cardinality(g \cap w)
             rp == Cardinality(g \ w)
             rn == Cardinality(w \ g)
  <2>1. /\ score \in Score
        /\ score.tp \in Nat /\ score.fp \in Nat /\ score.fn \in Nat
        /\ score.recTp \in Nat /\ score.recFp \in Nat /\ score.recFn \in Nat
    BY DEF SInv, Score
  <2>2. score' = [tp |-> score.tp + tp, fp |-> score.fp + fp, fn |-> score.fn + fn,
                  recTp |-> score.recTp + rt, recFp |-> score.recFp + rp, recFn |-> score.recFn + rn]
    BY <1>4
  <2>3. rt \in Nat /\ rp \in Nat /\ rn \in Nat
    BY <1>7
  <2> HIDE DEF rt, rp, rn
  <2>4. /\ score.tp + tp \in Nat /\ score.fp + fp \in Nat /\ score.fn + fn \in Nat
        /\ score.recTp + rt \in Nat /\ score.recFp + rp \in Nat /\ score.recFn + rn \in Nat
    BY <1>5, <2>1, <2>3
  <2> QED
    BY <2>1, <2>2, <2>4 DEF Score
<1>9. /\ falsePositives \in Seq(ListEntry) /\ falseNegatives \in Seq(ListEntry)
      /\ Counts(score.fp, All(RulesIn(falsePositives)))
      /\ Counts(score.fn, All(RulesIn(falseNegatives)))
      /\ score.fp \in Nat /\ score.fn \in Nat /\ score.tp \in Nat
      /\ score.recFp \in Nat /\ score.recFn \in Nat
  BY <1>8 DEF SInv, Lists, RuleScores, RulesIn, Score
<1>10. /\ falsePositives' \in Seq(ListEntry)
       /\ OldOrOf(position, falsePositives', falsePositives)
       /\ Counts(score.fp + fp, All(RulesIn(falsePositives')))
  <2>1. /\ fired \ expected \in SUBSET Rule /\ position \in Nat
        /\ Enters(falsePositives', falsePositives, position, fired \ expected)
    BY <1>1, <1>2, <1>4 DEF Enters
  <2> QED
    BY <1>9, <2>1, EnteredCounts
<1>11. /\ falseNegatives' \in Seq(ListEntry)
       /\ OldOrOf(position, falseNegatives', falseNegatives)
       /\ Counts(score.fn + fn, All(RulesIn(falseNegatives')))
  <2>1. /\ expected \ fired \in SUBSET Rule /\ position \in Nat
        /\ Enters(falseNegatives', falseNegatives, position, expected \ fired)
    BY <1>1, <1>2, <1>4 DEF Enters
  <2> QED
    BY <1>9, <2>1, EnteredCounts
<1>12. /\ Len(perSnapshot') = Len(perSnapshot) + 1
       /\ Counts((score.tp + score.fn) + Cardinality(expected), All(ExpectedIn(perSnapshot')))
       /\ Counts((score.tp + score.fp) + Cardinality(fired), All(FiredIn(perSnapshot')))
  <2>1. /\ perSnapshot \in Seq([expected : SUBSET Rule, fired : SUBSET Rule])
        /\ Counts(score.tp + score.fn, All(ExpectedIn(perSnapshot)))
        /\ Counts(score.tp + score.fp, All(FiredIn(perSnapshot)))
        /\ score.tp + score.fn \in Nat /\ score.tp + score.fp \in Nat
    BY <1>9 DEF IInv, Shape, SInv, RuleScores, ExpectedIn, FiredIn
  <2>2. BreaksDown(perSnapshot', perSnapshot, expected, fired)
    BY <1>4 DEF BreaksDown
  <2> DEFINE c == score.tp + score.fn
             d == score.tp + score.fp
  <2>3. /\ c \in Nat /\ Counts(c, All(ExpectedIn(perSnapshot)))
        /\ d \in Nat /\ Counts(d, All(FiredIn(perSnapshot)))
    BY <2>1
  <2> HIDE DEF c, d
  <2>4. /\ Len(perSnapshot') = Len(perSnapshot) + 1
        /\ Counts(c + Cardinality(expected), All(ExpectedIn(perSnapshot')))
        /\ Counts(d + Cardinality(fired), All(FiredIn(perSnapshot')))
    BY <1>2, <2>1, <2>2, <2>3, BreakdownCounts
  <2> QED
    BY <2>4 DEF c, d
<1>13. Len(perSnapshot') = position /\ 1..(position - 1) \subseteq 1..position /\ position \in 1..position
  BY <1>1, <1>12
<1>14. Lists'
  <2>1. \A x \in M : x.snapshot = position
    BY DEF MismatchesOf
  <2> HIDE DEF M
  <2>2. /\ \A i \in DOMAIN falsePositives : falsePositives[i].snapshot \in 1..(position - 1)
        /\ \A i \in DOMAIN falseNegatives : falseNegatives[i].snapshot \in 1..(position - 1)
        /\ \A x \in mismatches : x.snapshot \in 1..(position - 1)
    BY <1>1 DEF SInv, Lists
  <2>3. \A x \in mismatches' : x.snapshot \in 1..position
    BY <1>4, <1>13, <2>1, <2>2
  <2>4. \A i \in DOMAIN falsePositives' : falsePositives'[i].snapshot \in 1..position
    BY <1>10, <1>13, <2>2 DEF OldOrOf
  <2>5. \A i \in DOMAIN falseNegatives' : falseNegatives'[i].snapshot \in 1..position
    BY <1>11, <1>13, <2>2 DEF OldOrOf
  <2> QED
    BY <1>10, <1>11, <1>13, <2>3, <2>4, <2>5 DEF Lists
<1>15. RuleScores'
  <2>1. /\ score'.tp = score.tp + tp /\ score'.fp = score.fp + fp /\ score'.fn = score.fn + fn
    BY <1>4
  <2>2. /\ score'.tp + score'.fn = (score.tp + score.fn) + Cardinality(expected)
        /\ score'.tp + score'.fp = (score.tp + score.fp) + Cardinality(fired)
    <3> HIDE DEF tp, fp, fn
    <3> QED
      BY <1>5, <1>9, <2>1
  <2> QED
    BY <1>10, <1>11, <1>12, <2>1, <2>2 DEF RuleScores, RulesIn, ExpectedIn, FiredIn
<1>16. RecordScores'
  <2> DEFINE old == [x \in mismatches |-> x.unexpected]
             new == [x \in M |-> x.unexpected]
             all == [x \in mismatches' |-> x.unexpected]
             oldM == [x \in mismatches |-> x.missed]
             newM == [x \in M |-> x.missed]
             allM == [x \in mismatches' |-> x.missed]
  <2>1. Counts(Cardinality(g \ w), All(new)) /\ Counts(Cardinality(w \ g), All(newM))
    <3>1. \A r \in rules : IsFiniteSet(got[r]) /\ IsFiniteSet(want[r])
      BY <1>1, <1>2, <1>3
    <3> QED
      BY <1>6, <3>1, MismatchesCount
  <2>2. M \cap mismatches = {}
    <3>1. \A x \in M : x.snapshot = position
      BY DEF MismatchesOf
    <3>2. \A x \in mismatches : x.snapshot # position
      BY <1>1 DEF SInv, Lists
    <3> HIDE DEF M
    <3> QED
      BY <3>1, <3>2
  <2>3. Counts(score.recFp, All(old)) /\ Counts(score.recFn, All(oldM))
    BY DEF SInv, RecordScores
  <2> HIDE DEF M
  <2>4. Joins(all, old, new) /\ Joins(allM, oldM, newM)
    BY <1>4, <2>2 DEF Joins
  <2> HIDE DEF old, new, all, oldM, newM, allM, g, w
  <2>5. /\ Counts(score.recFp + Cardinality(g \ w), All(all))
        /\ Counts(score.recFn + Cardinality(w \ g), All(allM))
    BY <2>1, <2>3, <2>4, JoinAdds
  <2>6. score'.recFp = score.recFp + Cardinality(g \ w) /\ score'.recFn = score.recFn + Cardinality(w \ g)
    BY <1>4
  <2> QED
    BY <2>5, <2>6 DEF RecordScores, all, allM
<1> QED
  BY <1>4, <1>8, <1>14, <1>15, <1>16 DEF SInv

LEMMA StepKeepsSInv == IInv /\ SInv /\ [Next]_vars => SInv'
<1> SUFFICES ASSUME IInv, SInv, [Next]_vars
             PROVE  SInv'
  OBVIOUS
<1>1. CASE ScoreSnapshot
  BY <1>1, ScoreSnapshotKeepsSInv
<1>2. CASE Load \/ SnapshotRaises \/ Return \/ UNCHANGED vars
  <2>1. /\ ruleSet' = ruleSet /\ score' = score /\ mismatches' = mismatches
        /\ falsePositives' = falsePositives /\ falseNegatives' = falseNegatives
        /\ perSnapshot' = perSnapshot
    BY <1>2 DEF Load, SnapshotRaises, Return, vars, lists
  <2> QED
    BY <2>1 DEF SInv, Lists, RuleScores, RecordScores
<1> QED
  BY <1>1, <1>2 DEF Next

\* The lists of a replay count what its totals say, after each snapshot.
THEOREM TotalsFollowLists == Spec => []SInv
BY InitSInv, StepKeepsSInv, Invariance, PTL DEF Spec

\* A replay keeps the types of its totals, and its lists go as far as it has.
THEOREM ReplayIsTyped == Spec => []TypeOK
<1>1. IInv /\ SInv => TypeOK
  <2> SUFFICES ASSUME IInv, SInv PROVE TypeOK
    OBVIOUS
  <2>1. Len(corpus) \in Nat
    BY CorporaAssumption DEF IInv, Shape
  <2>2. position \in 0..(Len(corpus) + 1)
    BY <2>1 DEF IInv, Shape
  <2>3. outcome \in {"none", "ok", "raw_error"}
    BY DEF IInv, Shape
  <2> QED
    BY <2>2, <2>3 DEF TypeOK, IInv, Shape, SInv, Score, Lists
<1> QED
  BY <1>1, Invariance, TotalsFollowLists, PTL

(***************************************************************************)
(* The totals of a ReplayResult are those of its lists, for any corpus and *)
(* rule set: nothing is counted without being listed, or listed without    *)
(* being counted.                                                          *)
(***************************************************************************)
THEOREM TotalsAreThoseOfTheLists == Spec => []ScoresMatchTheLists
<1>1. SInv => ScoresMatchTheLists
  BY DEF SInv, RuleScores, RecordScores, ScoresMatchTheLists, Counts, All, Total
<1> QED
  BY <1>1, TotalsFollowLists, PTL
=============================================================================
