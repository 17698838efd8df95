--------------------------- MODULE PipelineProofs ---------------------------
(***************************************************************************)
(* Type correctness of Pipeline, and that run_log.json seals its output.   *)
(* SealedOutput is not inductive: the invariant SealInv adds how far the   *)
(* current run has got (Underway: the artefacts before pc are of this run) *)
(* and that the artefacts are nested by generation (Nested: a file that a  *)
(* run completes later is never newer than one it completes earlier).      *)
(*                                                                         *)
(* The second half is about what the artefacts say.  FindingsInv relates   *)
(* the lists that run_pipeline accumulates to the input; FileStep says     *)
(* which of these lists a step may put on disk; each theorem about the     *)
(* content of the files follows from the two, and so does that             *)
(* run_pipeline implements the abstract Review.                            *)
(***************************************************************************)
EXTENDS Pipeline, FiniteSetTheorems, SequenceTheorems, TLAPS

USE SubsetAssumption, DatasetAssumption, FiniteAssumption, InputAssumption, BoundAssumption

\* The current input, while a run is going on.
LEMMA InputType ==
  ASSUME TypeOK, pc # "idle"
  PROVE  run \in 1..MaxRuns /\ input \in Input
  BY DEF TypeOK, run, input, Steps

\* What a rule is given and what it reports are finite.
LEMMA FailedType ==
  ASSUME NEW inp \in Input, NEW i \in 1..Len(inp.enabled)
  PROVE  /\ inp.enabled[i] \in Rule
         /\ IsFiniteSet(RecordsFor(inp, inp.enabled[i]))
         /\ Cardinality(RecordsFor(inp, inp.enabled[i])) \in Nat
         /\ FailedResults(inp, i) \subseteq Finding
         /\ IsFiniteSet(FailedResults(inp, i))
         /\ Cardinality(FailedResults(inp, i)) \in Nat
<1> DEFINE r == inp.enabled[i]
           S == {y \in RecordsFor(inp, r) : <<r, y>> \in inp.breaches}
           f == [x \in S |-> [at |-> i, rule |-> r, record |-> x]]
<1>0. FailedResults(inp, i) = {[at |-> i, rule |-> r, record |-> x] : x \in S}
  BY DEF FailedResults
<1> HIDE DEF r, S
<1>1. r \in Rule /\ i \in Nat
  BY DEF r, Input
<1>2. RecordsFor(inp, r) \in SUBSET Record
  BY <1>1 DEF r, RecordsFor, Input
<1>3. IsFiniteSet(RecordsFor(inp, r)) /\ IsFiniteSet(S)
  BY <1>2, FS_Subset DEF S
<1>4. FailedResults(inp, i) \subseteq Finding
  <2>1. S \subseteq Record
    BY <1>2 DEF S
  <2>2. \A x \in S : [at |-> i, rule |-> r, record |-> x] \in Finding
    BY <1>1, <2>1 DEF Finding
  <2> QED
    BY <1>0, <2>2
<1>5. f \in Surjection(S, FailedResults(inp, i))
  BY <1>0 DEF Surjection
<1>6. IsFiniteSet(FailedResults(inp, i))
  BY <1>3, <1>5, FS_Surjection
<1> QED
  BY <1>1, <1>3, <1>4, <1>6, FS_CardinalityType DEF r

\* What the writers put on disk.
LEMMA ContentType ==
  ASSUME TypeOK
  PROVE  /\ Blank \in Content /\ Blank.gen = 0 /\ ~Blank.whole
         /\ \A f \in File : Torn(f) \in Content /\ Torn(f).gen = run /\ ~Torn(f).whole
         /\ Doc \in Content /\ Doc.gen = run /\ Doc.whole
         /\ Report \in Content /\ Report.gen = run /\ Report.whole /\ Report.found = violations
         /\ FundsTrail \in Content /\ FundsTrail.gen = run /\ FundsTrail.whole
         /\ FundsTrail.sources = loaded
<1>1. run \in Nat
  BY DEF TypeOK, run
<1>2. Blank \in Content /\ Blank.gen = 0 /\ ~Blank.whole
  BY DEF Blank, Content
<1>3. \A f \in File : files[f].trail \in Seq(Line)
  BY DEF TypeOK, Content
<1>4. \A f \in File : Torn(f) \in Content /\ Torn(f).gen = run /\ ~Torn(f).whole
  BY <1>1, <1>2, <1>3 DEF Torn, Blank, Content
<1>5. Doc \in Content /\ Doc.gen = run /\ Doc.whole
  BY <1>1, <1>2 DEF Doc, Blank, Content
<1>6. Report \in Content /\ Report.gen = run /\ Report.whole /\ Report.found = violations
  BY <1>5 DEF Report, Content, TypeOK
<1>7. /\ FundsTrail \in Content /\ FundsTrail.gen = run /\ FundsTrail.whole
      /\ FundsTrail.sources = loaded
  BY <1>5 DEF FundsTrail, Content, TypeOK
<1> QED
  BY <1>2, <1>4, <1>5, <1>6, <1>7

\* A step that writes one file, or none, and leaves the findings alone.
LEMMA PutType ==
  ASSUME TypeOK, Keep, pc # "idle", pc' \in Steps, outcome' \in Outcomes,
         NEW f \in File, NEW doc \in Content, Put(f, doc), doc.gen <= run,
         doc.whole => doc.gen # 0
  PROVE  TypeOK'
<1>1. run' = run
  BY DEF Keep, run
<1>2. files' \in [File -> Content]
  BY DEF Put, TypeOK
<1>3. \A g \in File : files'[g].gen <= run /\ (files'[g].whole => files'[g].gen # 0)
  BY DEF Put, TypeOK, Exists
<1> QED
  BY <1>1, <1>2, <1>3 DEF TypeOK, Keep, Exists

\* A writer that completes a file and goes on: open(..., "w"), then the next
\* statement of run_pipeline.
LEMMA PutThenGotoType ==
  ASSUME TypeOK, Keep, pc # "idle", NEW step \in Steps, Goto(step),
         NEW f \in File, NEW doc \in Content, Put(f, doc), doc.gen <= run,
         doc.whole => doc.gen # 0
  PROVE  TypeOK'
<1>1. pc' \in Steps /\ outcome' \in Outcomes
  BY DEF Goto, TypeOK
<1> QED
  BY <1>1, PutType

\* An exception that leaves run_pipeline changes no file.
LEMMA RaiseType ==
  ASSUME TypeOK, Keep, UNCHANGED files, pc # "idle", pc' \in Steps, outcome' \in Outcomes
  PROVE  TypeOK'
  BY DEF TypeOK, Keep, Exists, run

\* adapt_compliance_checks keeps the rows of rule_summary and their order.
LEMMA BadgeType ==
  ASSUME NEW rules \in Seq(Row)
  PROVE  /\ ComplianceChecks(rules) \in Seq(Row)
         /\ DOMAIN ComplianceChecks(rules) = DOMAIN rules
<1>1. \A e \in Row : [e EXCEPT !.result = Badge(e)] \in Row
  BY DEF Badge, Badges, Row
<1> QED
  BY <1>1 DEF ComplianceChecks

\* The fields of a file.
LEMMA FieldType ==
  ASSUME TypeOK, NEW f \in File
  PROVE  /\ files[f].gen \in Nat /\ files[f].whole \in BOOLEAN
         /\ files[f].found \subseteq Finding
         /\ files[f].rules \in Seq(Row)
         /\ files[f].trail \in Seq(Line) /\ Len(files[f].trail) \in Nat
  BY DEF Content, TypeOK

\* The files that are made from more than the findings.
LEMMA LongerType ==
  ASSUME TypeOK, NEW line \in Line
  PROVE  /\ Longer(line) \in Content /\ Longer(line).gen = run /\ Longer(line).whole
         /\ Longer(line).trail = Append(files[AuditLog].trail, line)
<1>1. files[AuditLog] \in Content /\ run \in Nat
  BY DEF TypeOK, File, AuditLog, run
<1>2. Append(files[AuditLog].trail, line) \in Seq(Line)
  BY <1>1 DEF Content
<1> QED
  BY <1>1, <1>2 DEF Longer, Content

\* evidence_pack.md, frontend_payload.json, data.ts and run_log.json: what
\* each is made from.
LEMMA CompositeType ==
  ASSUME TypeOK
  PROVE  /\ Pack \in Content /\ Pack.gen = run /\ Pack.whole
         /\ Pack.found = violations /\ Pack.trail = files[AuditLog].trail
         /\ FullReport \in Content /\ FullReport.gen = run /\ FullReport.whole
         /\ FullReport.found = violations /\ FullReport.rules = ComplianceChecks(summary)
         /\ FullReport.sources = loaded
         /\ CopyOfPayload \in Content /\ CopyOfPayload.gen = run /\ CopyOfPayload.whole
         /\ CopyOfPayload.found = files[Payload].found
         /\ CopyOfPayload.rules = files[Payload].rules
         /\ RunLogData \in Content /\ RunLogData.gen = run /\ RunLogData.whole
         /\ RunLogData.found = violations /\ RunLogData.sources = loaded
<1>1. Report \in Content /\ Report.gen = run /\ Report.whole /\ Report.found = violations
  BY ContentType
<1>2. Doc \in Content /\ Doc.gen = run /\ Doc.whole
  BY ContentType
<1>3. /\ files[AuditLog].trail \in Seq(Line)
      /\ files[Payload].found \subseteq Finding /\ files[Payload].rules \in Seq(Row)
  BY FieldType DEF File, AuditLog, Payload
<1>4. ComplianceChecks(summary) \in Seq(Row) /\ summary \in Seq(Row) /\ loaded \subseteq Supplementary
  BY BadgeType DEF TypeOK
<1>5. /\ Pack \in Content /\ Pack.gen = run /\ Pack.whole
      /\ Pack.found = violations /\ Pack.trail = files[AuditLog].trail
  BY <1>1, <1>3, <1>4 DEF Pack, Content
<1>6. /\ FullReport \in Content /\ FullReport.gen = run /\ FullReport.whole
      /\ FullReport.found = violations /\ FullReport.rules = ComplianceChecks(summary)
      /\ FullReport.sources = loaded
  BY <1>1, <1>4 DEF FullReport, Content
<1>7. /\ CopyOfPayload \in Content /\ CopyOfPayload.gen = run /\ CopyOfPayload.whole
      /\ CopyOfPayload.found = files[Payload].found
      /\ CopyOfPayload.rules = files[Payload].rules
  BY <1>2, <1>3 DEF CopyOfPayload, Content
<1>8. /\ RunLogData \in Content /\ RunLogData.gen = run /\ RunLogData.whole
      /\ RunLogData.found = violations /\ RunLogData.sources = loaded
  BY <1>1, <1>4 DEF RunLogData, Content
<1> QED
  BY <1>5, <1>6, <1>7, <1>8

\* A kill can only cut short a file of _OUTPUT_FILES.
LEMMA TargetType == \A step \in Steps : Target(step) \subseteq File
  BY DEF Steps, Target, File, ReportMd, ReportJson, ReportPdf, AuditLog, EvidencePack,
         TrailMd, TrailJson, Payload, DataTs, RunLog

\* A RULE_RUN line is made from a row of rule_summary.
LEMMA RuleLineType ==
  ASSUME TypeOK, pc # "idle", logged < Len(summary)
  PROVE  RuleLine(run, summary[logged + 1]) \in Line
<1>0. AuditLog \in File
  BY DEF File, AuditLog
<1>1. run \in Nat /\ summary \in Seq(Row) /\ logged \in Nat
  BY <1>0, InputType, FieldType DEF TypeOK, logged
<1>2. summary[logged + 1] \in Row /\ summary[logged + 1].result \in Result
  BY <1>1 DEF TypeOK
<1> QED
  BY <1>1, <1>2 DEF RuleLine, Line, Row

\* The REVIEW_COMPLETE line counts a finite list of violations.
LEMMA ReviewLineType ==
  ASSUME TypeOK
  PROVE  ReviewLine(run, Cardinality(violations)) \in Line
<1>1. run \in Nat /\ Cardinality(violations) \in Nat
  BY FS_CardinalityType DEF TypeOK, run
<1> QED
  BY <1>1 DEF ReviewLine, Line

\* Every file on disk is the work of a run that has started, and summary and audit
\* log know two results of a rule, whatever the configurations, the failures and the
\* number of runs.
THEOREM TypeCorrect == Spec => []TypeOK
<1>1. Init => TypeOK
  <2> SUFFICES ASSUME Init PROVE TypeOK
    OBVIOUS
  <2>1. Blank \in Content /\ Blank.gen = 0 /\ ~Blank.whole
    BY DEF Blank, Content
  <2>2. IsFiniteSet({})
    BY FS_EmptySet
  <2>3. inputs \in Seq(Inputs) /\ run = 0
    BY DEF Init, run
  <2>4. summary \in Seq(Row) /\ DOMAIN summary = {}
    BY DEF Init
  <2>5. files \in [File -> Content] /\ \A f \in File : files[f].gen = 0 /\ ~files[f].whole
    BY <2>1 DEF Init
  <2> QED
    BY <2>2, <2>3, <2>4, <2>5 DEF Init, TypeOK, Steps, Outcomes, Exists
<1>2. TypeOK /\ [Next]_vars => TypeOK'
  <2> SUFFICES ASSUME TypeOK, [Next]_vars PROVE TypeOK'
    OBVIOUS
  <2> USE DEF Goto, Finish, Steps, Outcomes
  <2>1. ASSUME NEW inp \in Inputs, StartRun(inp) PROVE TypeOK'
    <3>1. run' = run + 1 /\ inputs' \in Seq(Inputs)
      BY <2>1 DEF StartRun, TypeOK, run
    <3>2. IsFiniteSet({}) /\ run \in Nat
      BY FS_EmptySet DEF TypeOK, run
    <3> QED
      BY <2>1, <3>1, <3>2 DEF StartRun, TypeOK, Exists, Content
  <2>2. CASE LoadConfig \/ LoadDatasets
    <3>1. Keep /\ UNCHANGED files /\ pc # "idle" /\ pc' \in Steps /\ outcome' \in Outcomes
      BY <2>2 DEF LoadConfig, LoadDatasets, Raise, TypeOK
    <3> QED
      BY <3>1, RaiseType
  <2>3. CASE SupplementUnreadable \/ RuleRaises \/ PdfReportRaises \/ WriterRaises
    BY <2>3, RaiseType
       DEF SupplementUnreadable, RuleRaises, PdfReportRaises, WriterRaises, Fragile, AtRule, Raise
  <2>4. CASE SkipRule
    <3>1. input.enabled[position] \in Rule
      BY <2>4, InputType, FailedType DEF SkipRule, AtRule, position, TypeOK
    <3> DEFINE e == SummaryEntry(input.enabled[position], 0, 0, "NOT_EVALUATED")
    <3>2. e \in Row /\ e.result \in Result
      BY <3>1 DEF SummaryEntry, Row, Status, Result
    <3> QED
      BY <2>4, <3>2 DEF SkipRule, TypeOK, Exists, run
  <2>5. CASE EvaluateRule
    <3> DEFINE r == input.enabled[position]
               failed == FailedResults(input, position)
               e == SummaryEntry(r, Cardinality(RecordsFor(input, r)),
                                 Cardinality(failed), "EVALUATED")
    <3>1. position \in 1..Len(input.enabled)
      BY <2>5 DEF EvaluateRule, AtRule, position, TypeOK
    <3>2. e \in Row /\ e.result \in Result
      BY <2>5, <3>1, InputType, FailedType DEF EvaluateRule, AtRule, SummaryEntry, Row, Status, Result
    <3>3. violations \cup failed \subseteq Finding /\ IsFiniteSet(violations \cup failed)
      BY <2>5, <3>1, InputType, FailedType, FS_Union DEF EvaluateRule, AtRule, TypeOK
    <3>4. loaded' \subseteq Supplementary
      BY <2>5 DEF EvaluateRule, LazyLoad, Needs, Supplementary, TypeOK
    <3> QED
      BY <2>5, <3>2, <3>3, <3>4 DEF EvaluateRule, TypeOK, Exists, run
  <2>6. CASE ValidateViolations
    <3>1. Keep /\ UNCHANGED files /\ pc # "idle" /\ pc' \in Steps /\ outcome' \in Outcomes
      BY <2>6 DEF ValidateViolations, Raise, TypeOK
    <3> QED
      BY <3>1, RaiseType
  <2> HIDE DEF Goto, Steps
  <2>7. CASE WriteReportMd
    <3>1. PICK step \in Steps : Goto(step)
      BY <2>7 DEF WriteReportMd, Steps
    <3> QED
      BY <2>7, <3>1, ContentType, PutThenGotoType, InputType DEF WriteReportMd, File, ReportMd
  <2>8. CASE WriteReportJson
    <3>1. PICK step \in Steps : Goto(step)
      BY <2>8 DEF WriteReportJson, Steps
    <3> QED
      BY <2>8, <3>1, ContentType, PutThenGotoType, InputType DEF WriteReportJson, File, ReportJson
  <2>9. CASE GeneratePdfReport
    BY <2>9, ContentType, PutThenGotoType, InputType DEF GeneratePdfReport, File, ReportPdf, Steps
  <2>10. CASE ClearAuditLog
    BY <2>10, ContentType, PutThenGotoType, InputType DEF ClearAuditLog, File, AuditLog, Steps
  <2>11. CASE LogRuleRun
    <3> DEFINE line == RuleLine(run, summary[logged + 1])
    <3>1. run > 0 /\ line \in Line
      BY <2>11, InputType, RuleLineType DEF LogRuleRun
    <3>2. Put(AuditLog, Longer(line)) /\ AuditLog \in File
      BY <2>11 DEF LogRuleRun, AppendToLog, File, AuditLog
    <3>3. Goto(pc) /\ pc \in Steps /\ Keep /\ pc # "idle"
      BY <2>11 DEF LogRuleRun, Goto, Steps
    <3>4. run \in Nat
      BY DEF TypeOK, run
    <3> HIDE DEF line
    <3> QED
      BY <3>1, <3>2, <3>3, <3>4, LongerType, PutThenGotoType
  <2>12. CASE LogReviewComplete
    <3> DEFINE line == ReviewLine(run, Cardinality(violations))
    <3>1. run > 0 /\ run \in Nat /\ line \in Line
      BY <2>12, InputType, ReviewLineType DEF LogReviewComplete
    <3>2. Put(AuditLog, Longer(line)) /\ AuditLog \in File
      BY <2>12 DEF LogReviewComplete, AppendToLog, File, AuditLog
    <3>3. Goto("pack") /\ "pack" \in Steps /\ Keep /\ pc # "idle"
      BY <2>12 DEF LogReviewComplete, Steps
    <3> HIDE DEF line
    <3> QED
      BY <3>1, <3>2, <3>3, LongerType, PutThenGotoType
  <2>13. CASE WriteEvidencePack
    BY <2>13, CompositeType, PutThenGotoType, InputType DEF WriteEvidencePack, File, EvidencePack, Steps
  <2>14. CASE ValidateEvidencePack
    <3>1. Keep /\ UNCHANGED files /\ pc # "idle" /\ pc' \in Steps /\ outcome' \in Outcomes
      BY <2>14 DEF ValidateEvidencePack, TypeOK, Goto, Steps
    <3> QED
      BY <3>1, RaiseType
  <2>15. CASE WriteFundsTrailMd
    BY <2>15, ContentType, PutThenGotoType, InputType DEF WriteFundsTrailMd, File, TrailMd, Steps
  <2>16. CASE WriteFundsTrailJson
    BY <2>16, ContentType, PutThenGotoType, InputType DEF WriteFundsTrailJson, File, TrailJson, Steps
  <2>17. CASE AdaptFullReport
    <3>1. CASE Numeric
      <4>1. Keep /\ UNCHANGED files /\ pc # "idle" /\ pc' \in Steps /\ outcome' \in Outcomes
        BY <2>17, <3>1 DEF AdaptFullReport, Raise, Steps
      <4> QED
        BY <4>1, RaiseType
    <3>2. CASE ~Numeric
      BY <2>17, <3>2, CompositeType, PutThenGotoType, InputType
         DEF AdaptFullReport, File, Payload, Steps
    <3> QED
      BY <3>1, <3>2
  <2>18. CASE GenerateDataTs
    BY <2>18, CompositeType, PutThenGotoType, InputType DEF GenerateDataTs, File, DataTs, Steps
  <2>19. CASE WriteRunLog
    <3>1. /\ pc' \in Steps /\ outcome' \in Outcomes /\ run \in Nat /\ run > 0
          /\ pc # "idle" /\ Keep /\ Put(RunLog, RunLogData) /\ RunLog \in File
      BY <2>19, InputType DEF WriteRunLog, Steps, File, RunLog
    <3> QED
      BY <3>1, CompositeType, PutType
  <2>20. CASE Crash
    <3>1. Keep /\ pc # "idle" /\ pc' \in Steps /\ outcome' \in Outcomes
      BY <2>20 DEF Crash, Steps
    <3>2. CASE UNCHANGED files
      BY <3>1, <3>2, RaiseType
    <3>3. CASE \E f \in Target(pc) : Put(f, Torn(f))
      <4>1. PICK f \in File : Put(f, Torn(f))
        BY <3>3, TargetType DEF TypeOK
      <4> QED
        BY <3>1, <4>1, ContentType, PutType, InputType
    <3> QED
      BY <2>20, <3>2, <3>3 DEF Crash
  <2>21. CASE UNCHANGED vars
    BY <2>21 DEF vars, TypeOK, Exists, run
  <2> QED
    BY <2>1, <2>2, <2>3, <2>4, <2>5, <2>6, <2>7, <2>8, <2>9, <2>10, <2>11, <2>12,
       <2>13, <2>14, <2>15, <2>16, <2>17, <2>18, <2>19, <2>20, <2>21 DEF Next, Step
<1> QED
  BY <1>1, <1>2, PTL DEF Spec

-----------------------------------------------------------------------------
(***************************************************************************)
(* SealedOutput.  The files are written in the order of their numbers, the *)
(* run log last, so outside audit.log a file is never older than a later   *)
(* one (Nested) and a torn file is newer than the run log (TornIsNew); a   *)
(* run that is going on is newer than the run log, and what it has written *)
(* so far is complete (Underway).                                          *)
(***************************************************************************)
Reading == {"config", "datasets", "rules"}

\* How many files the current run has completed when it is at a step.
Progress(step) ==
  CASE step = "report_json" -> 1
    [] step = "pdf"         -> 2
    [] step \in {"again_md", "again_json", "clear_log", "append_log"} -> 3
    [] step = "pack"        -> 4
    [] step \in {"validate_pack", "trail_md"} -> 5
    [] step = "trail_json"  -> 6
    [] step = "payload"     -> 7
    [] step = "data_ts"     -> 8
    [] step = "run_log"     -> 9
    [] OTHER                -> 0

Nested ==
  \A f, g \in File \ {AuditLog} : f < g => files[g].gen <= files[f].gen
TornIsNew ==
  \A f \in File \ {AuditLog, RunLog} :
    Exists(f) /\ ~files[f].whole => files[RunLog].gen < files[f].gen
LogIsSealed ==
  files[RunLog].whole =>
    \/ /\ files[AuditLog].gen = files[RunLog].gen /\ files[AuditLog].whole
       /\ logged = Len(inputs[files[RunLog].gen].enabled) + 1
    \/ files[ReportPdf].gen > files[RunLog].gen
Underway ==
  pc # "idle" =>
    /\ files[RunLog].gen < run
    /\ Len(summary) <= Len(input.enabled)
    /\ pc \notin Reading => Len(summary) = Len(input.enabled)
    /\ \A f \in File : f <= Progress(pc) => files[f].gen = run /\ files[f].whole
    /\ pc = "append_log" => logged <= Len(summary)
    /\ Progress(pc) >= 4 => logged = Len(summary) + 1
SealInv == Nested /\ TornIsNew /\ LogIsSealed /\ Underway

\* What the three conjuncts about the disk need of a step, whoever takes it.
Sane == Nested /\ TornIsNew /\ LogIsSealed

\* A step that writes nothing keeps the disk in order.
LEMMA QuietIsSane ==
  ASSUME TypeOK, Sane, UNCHANGED <<inputs, files>>
  PROVE  Sane'
  BY DEF Sane, Nested, TornIsNew, LogIsSealed, Exists, logged

\* Completing a file other than audit.log and run_log.json keeps the disk in
\* order, if the run has written every file that comes before it.
LEMMA WriteIsSane ==
  ASSUME TypeOK, Sane, Underway, pc # "idle", UNCHANGED inputs,
         NEW f \in File \ {AuditLog, RunLog}, NEW doc \in Content, Put(f, doc), doc.gen = run,
         \A g \in File \ {AuditLog} : g < f => files[g].gen = run
  PROVE  Sane'
<1>1. \A g \in File : files[g].gen \in Nat /\ files[g].gen <= run
  BY FieldType DEF TypeOK
<1>2. \A g \in File : files'[g] = IF g = f THEN doc ELSE files[g]
  BY DEF Put, TypeOK
<1>3. files[RunLog].gen < run /\ files'[RunLog] = files[RunLog]
  BY <1>2 DEF Underway, File, RunLog
<1>4. Nested'
  BY <1>1, <1>2 DEF Nested, Sane, File
<1>5. TornIsNew'
  BY <1>2, <1>3 DEF TornIsNew, Sane, Exists
<1>6. LogIsSealed'
  <2>1. files'[AuditLog] = files[AuditLog]
    BY <1>2 DEF File, AuditLog
  <2>2. files[ReportPdf].gen <= files'[ReportPdf].gen
    BY <1>1, <1>2 DEF File, ReportPdf
  <2>3. files[ReportPdf].gen \in Nat /\ files'[ReportPdf].gen \in Nat /\ files[RunLog].gen \in Nat
    <3>1. doc.gen \in Nat
      BY DEF Content
    <3>2. ReportPdf \in File /\ RunLog \in File
      BY DEF File, ReportPdf, RunLog
    <3> QED
      BY <1>1, <1>2, <3>1, <3>2
  <2> QED
    BY <1>3, <2>1, <2>2, <2>3 DEF LogIsSealed, Sane, logged
<1> QED
  BY <1>4, <1>5, <1>6 DEF Sane

\* Writing to audit.log, or unlinking it, keeps the disk in order once the
\* current run has written its PDF.
LEMMA AppendIsSane ==
  ASSUME TypeOK, Sane, Underway, pc # "idle", UNCHANGED inputs,
         NEW doc \in Content, Put(AuditLog, doc), files[ReportPdf].gen = run
  PROVE  Sane'
<1>1. \A g \in File \ {AuditLog} : files'[g] = files[g]
  BY DEF Put, TypeOK
<1>2. files[RunLog].gen < run /\ files'[RunLog] = files[RunLog] /\ files'[ReportPdf] = files[ReportPdf]
  BY <1>1 DEF Underway, File, RunLog, ReportPdf, AuditLog
<1>3. Nested' /\ TornIsNew'
  BY <1>1, <1>2 DEF Nested, TornIsNew, Sane, Exists
<1>4. LogIsSealed'
  BY <1>2 DEF LogIsSealed
<1> QED
  BY <1>3, <1>4 DEF Sane

\* A step that completes one file other than the log and goes on.
LEMMA WriteIsUnderway ==
  ASSUME TypeOK, Underway, Keep, pc # "idle", pc \notin Reading,
         NEW step \in Steps \ (Reading \cup {"idle", "append_log"}), Goto(step),
         NEW f \in File \ {AuditLog, RunLog}, NEW doc \in Content, Put(f, doc),
         doc.gen = run, doc.whole,
         Progress(step) <= Progress(pc) \/ (Progress(step) = f /\ Progress(pc) = f - 1),
         Progress(step) >= 4 => Progress(pc) >= 4
  PROVE  Underway'
<1>1. pc' = step /\ run' = run /\ input' = input /\ summary' = summary
  BY DEF Goto, Keep, run, input
<1>2. \A g \in File : files'[g] = IF g = f THEN doc ELSE files[g]
  BY DEF Put, TypeOK
<1>3. files'[RunLog].gen < run'
  BY <1>1, <1>2 DEF Underway, File, RunLog
<1>4. \A g \in File : g <= Progress(pc') => files'[g].gen = run' /\ files'[g].whole
  <2>1. Progress(step) \in Int /\ Progress(pc) \in Int
    BY DEF Progress
  <2>2. \A g \in File : g <= Progress(pc) => files[g].gen = run /\ files[g].whole
    BY DEF Underway
  <2>3. \A g \in File : g <= Progress(step) => g = f \/ g <= Progress(pc)
    BY <2>1 DEF File
  <2> QED
    BY <1>1, <1>2, <2>2, <2>3
<1>5. logged' = logged
  BY <1>2 DEF logged, File, AuditLog
<1> QED
  BY <1>1, <1>3, <1>4, <1>5 DEF Underway, Reading

\* A writer that completes the next file, or write_report writing its two
\* files a second time, keeps the seal.
LEMMA WriteKeepsSeal ==
  ASSUME TypeOK, Sane, Underway, Keep, pc # "idle", pc \notin Reading,
         NEW step \in Steps \ (Reading \cup {"idle", "append_log"}), Goto(step),
         NEW f \in File \ {AuditLog, RunLog}, NEW doc \in Content, Put(f, doc),
         doc.gen = run, doc.whole, Progress(pc) >= f - 1,
         Progress(step) <= Progress(pc) \/ (Progress(step) = f /\ Progress(pc) = f - 1),
         Progress(step) >= 4 => Progress(pc) >= 4
  PROVE  Sane' /\ Underway'
<1>1. \A g \in File \ {AuditLog} : g < f => files[g].gen = run
  <2>1. Progress(pc) \in Int
    BY DEF Progress
  <2> QED
    BY <2>1 DEF Underway, File
<1>2. Underway'
  BY WriteIsUnderway
<1>3. UNCHANGED inputs
  BY DEF Keep
<1> QED
  BY <1>1, <1>2, <1>3, WriteIsSane

\* Reading the configuration and the data, and evaluating rules, keep the
\* account of what the run has written.
LEMMA ReadIsUnderway ==
  ASSUME TypeOK, Underway, UNCHANGED <<inputs, files>>, pc # "idle",
         pc' \in Reading \cup {"idle"}, Len(summary') <= Len(input.enabled)
  PROVE  Underway'
<1>1. run' = run /\ input' = input
  BY DEF run, input
<1>2. Progress(pc') = 0 /\ pc' # "append_log" /\ (pc' = "idle" \/ pc' \in Reading)
  BY DEF Reading, Progress
<1> QED
  BY <1>1, <1>2 DEF Underway, File

\* A file that a kill may cut short is at most the next one to complete.
LEMMA TargetProgress ==
  \A step \in Steps : /\ Progress(step) \in Int
                      /\ \A f \in Target(step) : f \in File /\ Progress(step) >= f - 1
  BY DEF Steps, Target, Progress, File, ReportMd, ReportJson, ReportPdf, AuditLog,
         EvidencePack, TrailMd, TrailJson, Payload, DataTs, RunLog

\* The output of a review is sealed by its run log: the invariant is inductive.
THEOREM SealInductive == TypeOK /\ TypeOK' /\ SealInv /\ [Next]_vars => SealInv'
<1> SUFFICES ASSUME TypeOK, TypeOK', SealInv, [Next]_vars PROVE SealInv'
  OBVIOUS
<1> USE DEF Finish
<1>0. Sane /\ Underway
  BY DEF SealInv, Sane
<1>1. SUFFICES Sane' /\ Underway'
  BY DEF SealInv, Sane
<1>2. ASSUME NEW inp \in Inputs, StartRun(inp) PROVE Sane' /\ Underway'
  <2>1. /\ run \in Nat /\ run' = run + 1 /\ files' = files /\ pc' = "config"
        /\ \A g \in 1..run : inputs'[g] = inputs[g]
        /\ Len(summary') = 0 /\ Len(input'.enabled) \in Nat
    BY <1>2 DEF StartRun, TypeOK, run, input, Input
  <2>2. \A g \in File : files[g].gen \in Nat /\ files[g].gen <= run
    BY FieldType DEF TypeOK
  <2>3. Progress("config") = 0 /\ \A g \in File : ~(g <= 0)
    BY DEF Progress, File
  <2>4. Underway'
    <3>1. RunLog \in File /\ Progress(pc') = 0 /\ pc' \in Reading /\ pc' # "append_log"
      BY <2>1, <2>3 DEF File, RunLog, Reading
    <3> QED
      BY <2>1, <2>2, <2>3, <3>1 DEF Underway
  <2>5. LogIsSealed'
    <3>1. RunLog \in File /\ AuditLog \in File /\ ReportPdf \in File
      BY DEF File, RunLog, AuditLog, ReportPdf
    <3>2. files[RunLog].whole => files[RunLog].gen \in 1..run
      BY <2>1, <2>2, <3>1 DEF TypeOK, Exists
    <3> QED
      BY <1>0, <2>1, <3>2 DEF LogIsSealed, Sane, logged
  <2> QED
    BY <1>0, <2>1, <2>4, <2>5 DEF Sane, Nested, TornIsNew, Exists
<1>3. CASE LoadConfig \/ LoadDatasets \/ SupplementUnreadable \/ RuleRaises
  <2>1. UNCHANGED <<inputs, summary, files>> /\ pc # "idle" /\ pc' \in Reading \cup {"idle"}
    BY <1>3 DEF LoadConfig, LoadDatasets, SupplementUnreadable, RuleRaises, AtRule,
                Raise, Keep, Goto, Reading
  <2> QED
    BY <1>0, <2>1, QuietIsSane, ReadIsUnderway DEF Underway
<1>4. CASE SkipRule \/ EvaluateRule
  <2>1. /\ UNCHANGED <<inputs, files>> /\ pc # "idle" /\ pc' \in Reading
        /\ Len(summary') <= Len(input.enabled)
    BY <1>4 DEF SkipRule, EvaluateRule, AtRule, Reading, position, TypeOK
  <2> QED
    BY <1>0, <2>1, QuietIsSane, ReadIsUnderway
<1>5. CASE ValidateViolations
  <2>1. /\ UNCHANGED <<inputs, summary, files>> /\ pc = "rules"
        /\ Len(summary) = Len(input.enabled) /\ pc' \in {"idle", "report_md"}
    BY <1>0, <1>5, InputType DEF ValidateViolations, Raise, Keep, Goto, position, Underway, TypeOK, Input
  <2>2. run' = run /\ input' = input
    BY <2>1 DEF run, input
  <2>3. Progress("report_md") = 0 /\ \A g \in File : ~(g <= 0)
    BY DEF Progress, File
  <2> QED
    BY <1>0, <2>1, <2>2, <2>3, QuietIsSane DEF Underway, Reading
<1>6. CASE WriteReportMd
  <2>1. PICK step \in {"report_json", "again_json"} :
          /\ Goto(step) /\ Keep /\ Put(ReportMd, Report)
          /\ \/ pc = "report_md" /\ step = "report_json"
             \/ pc = "again_md" /\ step = "again_json"
    BY <1>6 DEF WriteReportMd, Goto
  <2>2. /\ step \in Steps \ (Reading \cup {"idle", "append_log"}) /\ pc \notin Reading /\ pc # "idle"
        /\ Progress(step) <= Progress(pc) \/ (Progress(step) = 1 /\ Progress(pc) = 0)
        /\ Progress(pc) >= 0 /\ ~(Progress(step) >= 4)
    BY <2>1 DEF Steps, Reading, Progress
  <2>3. ReportMd \in File \ {AuditLog, RunLog} /\ ReportMd = 1
    BY DEF ReportMd, File, AuditLog, RunLog
  <2> QED
    BY <1>0, <2>1, <2>2, <2>3, ContentType, WriteKeepsSeal
<1>7. CASE WriteReportJson
  <2>1. PICK step \in {"pdf", "clear_log"} :
          /\ Goto(step) /\ Keep /\ Put(ReportJson, Report)
          /\ \/ pc = "report_json" /\ step = "pdf"
             \/ pc = "again_json" /\ step = "clear_log"
    BY <1>7 DEF WriteReportJson, Goto
  <2>2. /\ step \in Steps \ (Reading \cup {"idle", "append_log"}) /\ pc \notin Reading /\ pc # "idle"
        /\ Progress(step) <= Progress(pc) \/ (Progress(step) = 2 /\ Progress(pc) = 1)
        /\ Progress(pc) >= 1 /\ ~(Progress(step) >= 4)
    BY <2>1 DEF Steps, Reading, Progress
  <2>3. ReportJson \in File \ {AuditLog, RunLog} /\ ReportJson = 2
    BY DEF ReportJson, File, AuditLog, RunLog
  <2> QED
    BY <1>0, <2>1, <2>2, <2>3, ContentType, WriteKeepsSeal
<1>8. CASE GeneratePdfReport
  <2>1. /\ Goto("again_md") /\ Keep /\ Put(ReportPdf, Report)
        /\ "again_md" \in Steps \ (Reading \cup {"idle", "append_log"}) /\ pc \notin Reading /\ pc # "idle"
        /\ Progress("again_md") = 3 /\ Progress(pc) = 2
        /\ ReportPdf \in File \ {AuditLog, RunLog} /\ ReportPdf = 3
    BY <1>8 DEF GeneratePdfReport, Steps, Reading, Progress, ReportPdf, File, AuditLog, RunLog
  <2> QED
    BY <1>0, <2>1, ContentType, WriteKeepsSeal
<1>9. CASE PdfReportRaises \/ WriterRaises
  <2>1. UNCHANGED <<inputs, summary, files>> /\ pc # "idle" /\ pc' = "idle"
    BY <1>9 DEF PdfReportRaises, WriterRaises, Fragile, Raise, Keep
  <2> QED
    BY <1>0, <2>1, QuietIsSane DEF Underway
<1>10. CASE ClearAuditLog
  <2>1. /\ Keep /\ UNCHANGED inputs /\ Put(AuditLog, Blank) /\ pc = "clear_log" /\ pc' = "append_log"
        /\ Progress(pc) = 3 /\ Progress(pc') = 3 /\ pc \notin Reading /\ pc' \notin Reading
        /\ run' = run /\ input' = input /\ summary' = summary
    BY <1>10 DEF ClearAuditLog, Goto, Keep, Progress, Reading, run, input
  <2>2. ReportPdf \in File /\ AuditLog \in File /\ RunLog \in File /\ RunLog # AuditLog
        /\ ReportPdf <= 3 /\ \A g \in File : g <= 3 => g # AuditLog
    BY DEF ReportPdf, AuditLog, RunLog, File
  <2>3. \A g \in File : files'[g] = IF g = AuditLog THEN Blank ELSE files[g]
    BY <2>1 DEF Put, TypeOK
  <2>4. logged' = 0 /\ Len(summary) \in Nat
    BY <2>2, <2>3 DEF logged, Blank, TypeOK
  <2>5. Underway'
    BY <1>0, <2>1, <2>2, <2>3, <2>4 DEF Underway
  <2> QED
    BY <1>0, <2>1, <2>2, <2>5, ContentType, AppendIsSane DEF Underway
<1>11. CASE LogRuleRun
  <2> DEFINE doc == Longer(RuleLine(run, summary[logged + 1]))
  <2>1. /\ Keep /\ UNCHANGED inputs /\ Put(AuditLog, doc) /\ pc = "append_log" /\ pc' = pc
        /\ Progress(pc) = 3 /\ pc \notin Reading
        /\ run' = run /\ input' = input /\ summary' = summary /\ logged < Len(summary)
    BY <1>11 DEF LogRuleRun, AppendToLog, Keep, Progress, Reading, run, input
  <2>2. ReportPdf \in File /\ AuditLog \in File /\ RunLog \in File /\ RunLog # AuditLog
        /\ ReportPdf <= 3 /\ \A g \in File : g <= 3 => g # AuditLog
    BY DEF ReportPdf, AuditLog, RunLog, File
  <2>3. doc \in Content /\ doc.trail = Append(files[AuditLog].trail, RuleLine(run, summary[logged + 1]))
    <3>1. RuleLine(run, summary[logged + 1]) \in Line
      BY <2>1, <2>2, RuleLineType
    <3> QED
      BY <3>1, LongerType
  <2> HIDE DEF doc
  <2>4. \A g \in File : files'[g] = IF g = AuditLog THEN doc ELSE files[g]
    BY <2>1 DEF Put, TypeOK
  <2>5. logged' = logged + 1 /\ logged \in Nat /\ Len(summary) \in Nat
    BY <2>2, <2>3, <2>4, FieldType DEF logged, TypeOK
  <2>6. Underway'
    BY <1>0, <2>1, <2>2, <2>4, <2>5 DEF Underway
  <2> QED
    BY <1>0, <2>1, <2>2, <2>3, <2>6, AppendIsSane DEF Underway
<1>12. CASE LogReviewComplete
  <2> DEFINE line == ReviewLine(run, Cardinality(violations))
             doc == Longer(line)
  <2>1. /\ Keep /\ UNCHANGED inputs /\ Put(AuditLog, doc) /\ pc = "append_log" /\ pc' = "pack"
        /\ Progress(pc) = 3 /\ Progress(pc') = 4 /\ pc \notin Reading /\ pc' \notin Reading
        /\ run' = run /\ input' = input /\ summary' = summary /\ logged = Len(summary)
    BY <1>12 DEF LogReviewComplete, AppendToLog, Goto, Keep, Progress, Reading, run, input
  <2>2. ReportPdf \in File /\ AuditLog \in File /\ RunLog \in File /\ RunLog # AuditLog
        /\ ReportPdf <= 3 /\ \A g \in File : g <= 4 => g <= 3 \/ g = AuditLog
    BY DEF ReportPdf, AuditLog, RunLog, File
  <2>3. doc \in Content /\ doc.gen = run /\ doc.whole /\ doc.trail = Append(files[AuditLog].trail, line)
    BY <2>1, ReviewLineType, LongerType
  <2> HIDE DEF line, doc
  <2>4. \A g \in File : files'[g] = IF g = AuditLog THEN doc ELSE files[g]
    BY <2>1 DEF Put, TypeOK
  <2>5. logged' = logged + 1 /\ logged \in Nat /\ Len(summary) \in Nat
    BY <2>2, <2>3, <2>4, FieldType DEF logged, TypeOK
  <2>6. Underway'
    BY <1>0, <2>1, <2>2, <2>3, <2>4, <2>5 DEF Underway
  <2> QED
    BY <1>0, <2>1, <2>2, <2>3, <2>6, AppendIsSane DEF Underway
<1>13. CASE WriteEvidencePack
  <2>1. /\ Goto("validate_pack") /\ Keep /\ Put(EvidencePack, Pack)
        /\ "validate_pack" \in Steps \ (Reading \cup {"idle", "append_log"})
        /\ pc \notin Reading /\ pc # "idle"
        /\ Progress("validate_pack") = 5 /\ Progress(pc) = 4
        /\ EvidencePack \in File \ {AuditLog, RunLog} /\ EvidencePack = 5
    BY <1>13 DEF WriteEvidencePack, Steps, Reading, Progress, EvidencePack, File, AuditLog, RunLog
  <2> QED
    BY <1>0, <2>1, CompositeType, WriteKeepsSeal
<1>14. CASE ValidateEvidencePack
  <2>1. /\ UNCHANGED <<inputs, summary, files>> /\ pc # "idle" /\ pc' = "trail_md"
        /\ pc \notin Reading /\ pc' \notin Reading /\ Progress(pc) = 5 /\ Progress(pc') = 5
        /\ run' = run /\ input' = input
    BY <1>14 DEF ValidateEvidencePack, Goto, Keep, Reading, Progress, run, input
  <2>2. logged' = logged
    BY <2>1 DEF logged
  <2>3. Underway'
    BY <1>0, <2>1, <2>2 DEF Underway
  <2> QED
    BY <1>0, <2>1, <2>3, QuietIsSane
<1>15. CASE WriteFundsTrailMd
  <2>1. /\ Goto("trail_json") /\ Keep /\ Put(TrailMd, FundsTrail)
        /\ "trail_json" \in Steps \ (Reading \cup {"idle", "append_log"})
        /\ pc \notin Reading /\ pc # "idle"
        /\ Progress("trail_json") = 6 /\ Progress(pc) = 5
        /\ TrailMd \in File \ {AuditLog, RunLog} /\ TrailMd = 6
    BY <1>15 DEF WriteFundsTrailMd, Steps, Reading, Progress, TrailMd, File, AuditLog, RunLog
  <2> QED
    BY <1>0, <2>1, ContentType, WriteKeepsSeal
<1>16. CASE WriteFundsTrailJson
  <2>1. /\ Goto("payload") /\ Keep /\ Put(TrailJson, FundsTrail)
        /\ "payload" \in Steps \ (Reading \cup {"idle", "append_log"})
        /\ pc \notin Reading /\ pc # "idle"
        /\ Progress("payload") = 7 /\ Progress(pc) = 6
        /\ TrailJson \in File \ {AuditLog, RunLog} /\ TrailJson = 7
    BY <1>16 DEF WriteFundsTrailJson, Steps, Reading, Progress, TrailJson, File, AuditLog, RunLog
  <2> QED
    BY <1>0, <2>1, ContentType, WriteKeepsSeal
<1>17. CASE AdaptFullReport
  <2>1. CASE Numeric
    <3>1. UNCHANGED <<inputs, summary, files>> /\ pc # "idle" /\ pc' = "idle"
      BY <1>17, <2>1 DEF AdaptFullReport, Raise, Keep
    <3> QED
      BY <1>0, <3>1, QuietIsSane DEF Underway
  <2>2. CASE ~Numeric
    <3>1. /\ Goto("data_ts") /\ Keep /\ Put(Payload, FullReport)
          /\ "data_ts" \in Steps \ (Reading \cup {"idle", "append_log"})
          /\ pc \notin Reading /\ pc # "idle"
          /\ Progress("data_ts") = 8 /\ Progress(pc) = 7
          /\ Payload \in File \ {AuditLog, RunLog} /\ Payload = 8
      BY <1>17, <2>2 DEF AdaptFullReport, Steps, Reading, Progress, Payload, File, AuditLog, RunLog
    <3> QED
      BY <1>0, <3>1, CompositeType, WriteKeepsSeal
  <2> QED
    BY <2>1, <2>2
<1>18. CASE GenerateDataTs
  <2>1. /\ Goto("run_log") /\ Keep /\ Put(DataTs, CopyOfPayload)
        /\ "run_log" \in Steps \ (Reading \cup {"idle", "append_log"})
        /\ pc \notin Reading /\ pc # "idle"
        /\ Progress("run_log") = 9 /\ Progress(pc) = 8
        /\ DataTs \in File \ {AuditLog, RunLog} /\ DataTs = 9
    BY <1>18 DEF GenerateDataTs, Steps, Reading, Progress, DataTs, File, AuditLog, RunLog
  <2> QED
    BY <1>0, <2>1, CompositeType, WriteKeepsSeal
<1>19. CASE WriteRunLog
  <2>1. /\ UNCHANGED inputs /\ Put(RunLog, RunLogData) /\ pc' = "idle" /\ pc # "idle"
        /\ Progress(pc) = 9 /\ pc \notin Reading /\ run' = run
    BY <1>19 DEF WriteRunLog, Keep, Progress, Reading, run
  <2>2. RunLog \in File /\ RunLog = 10 /\ AuditLog \in File /\ AuditLog <= 9 /\ AuditLog # RunLog
        /\ \A g \in File : g # RunLog <=> g <= 9
    BY DEF RunLog, AuditLog, File
  <2>3. \A g \in File : files'[g] = IF g = RunLog THEN RunLogData ELSE files[g]
    BY <2>1 DEF Put, TypeOK
  <2>4. \A g \in File : files'[g].gen = run /\ files'[g].whole
    BY <1>0, <2>1, <2>2, <2>3, CompositeType DEF Underway
  <2>5. run \in Nat
    BY DEF TypeOK, run
  <2>6. Nested' /\ TornIsNew'
    BY <2>4, <2>5 DEF Nested, TornIsNew
  <2>7. logged = Len(input.enabled) + 1 /\ logged' = logged
    BY <1>0, <2>1, <2>2, <2>3 DEF Underway, logged
  <2>8. LogIsSealed'
    BY <2>1, <2>2, <2>4, <2>7 DEF LogIsSealed, input
  <2> QED
    BY <2>1, <2>6, <2>8 DEF Sane, Underway
<1>20. CASE Crash
  <2>1. UNCHANGED inputs /\ pc # "idle" /\ pc' = "idle"
    BY <1>20 DEF Crash, Keep
  <2>2. Underway'
    BY <2>1 DEF Underway
  <2>3. CASE UNCHANGED files
    BY <1>0, <2>1, <2>2, <2>3, QuietIsSane
  <2>4. ASSUME NEW f \in Target(pc), Put(f, Torn(f)) PROVE Sane'
    <3>1. f \in File /\ Progress(pc) \in Int /\ Progress(pc) >= f - 1
      BY <2>1, TargetProgress DEF TypeOK
    <3>2. \A g \in File : g < f => files[g].gen = run /\ files[g].whole
      BY <1>0, <2>1, <3>1 DEF Underway, File
    <3>3. Torn(f) \in Content /\ Torn(f).gen = run /\ ~Torn(f).whole
      BY <3>1, ContentType
    <3>4. CASE f \notin {AuditLog, RunLog}
      BY <1>0, <2>1, <2>4, <3>1, <3>2, <3>3, <3>4, WriteIsSane
    <3>5. CASE f = AuditLog
      <4>1. files[ReportPdf].gen = run
        BY <3>2, <3>5 DEF AuditLog, ReportPdf, File
      <4> QED
        BY <1>0, <2>1, <2>4, <3>3, <3>5, <4>1, AppendIsSane
    <3>6. CASE f = RunLog
      <4>1. \A g \in File : files'[g] = IF g = RunLog THEN Torn(f) ELSE files[g]
        BY <2>4, <3>6 DEF Put, TypeOK
      <4>2. \A g \in File : files'[g].gen = run /\ (g # RunLog => files'[g].whole)
        BY <3>2, <3>3, <3>6, <4>1 DEF File, RunLog
      <4>3. ~files'[RunLog].whole /\ run \in Nat
        BY <3>1, <3>3, <3>6, <4>1 DEF TypeOK, run
      <4> QED
        BY <4>2, <4>3 DEF Sane, Nested, TornIsNew, LogIsSealed
    <3> QED
      BY <3>4, <3>5, <3>6
  <2> QED
    BY <1>20, <2>2, <2>3, <2>4 DEF Crash
<1>21. CASE UNCHANGED vars
  BY <1>0, <1>21, QuietIsSane DEF vars, Underway, run, input, logged
<1> QED
  BY <1>2, <1>3, <1>4, <1>5, <1>6, <1>7, <1>8, <1>9, <1>10, <1>11, <1>12, <1>13,
     <1>14, <1>15, <1>16, <1>17, <1>18, <1>19, <1>20, <1>21 DEF Next, Step

\* An empty output directory seals nothing.
LEMMA SealInitially == Init => SealInv
<1>1. Init => \A f \in File : files[f].gen = 0 /\ ~files[f].whole
  BY DEF Init, Blank
<1>2. RunLog \in File
  BY DEF RunLog, File
<1> QED
  BY <1>1, <1>2 DEF Init, SealInv, Nested, TornIsNew, LogIsSealed, Underway, Exists

\* run_log.json is the seal of a review: whatever is enabled, whatever fails
\* and whenever the process is killed, while it is on disk for a run every
\* other artefact is of that run and complete, or is of a later run.
THEOREM OutputIsSealed == Spec => []SealedOutput
<1>1. Init => SealInv
  BY SealInitially
<1>2. TypeOK /\ SealInv => SealedOutput
  <2> SUFFICES ASSUME TypeOK, SealInv, files[RunLog].whole
               PROVE  SealedBy(files[RunLog].gen)
    BY DEF SealedOutput
  <2> DEFINE g == files[RunLog].gen
  <2>1. RunLog \in File \ {AuditLog} /\ \A f \in File : f # RunLog => f < RunLog
    BY DEF RunLog, File, AuditLog
  <2>2. \A f \in File : files[f].gen \in Nat
    BY FieldType
  <2>3. g > 0
    BY <2>1, <2>2 DEF TypeOK, Exists
  <2>4. \A f \in File \ {AuditLog} : files[f].gen >= g
    BY <2>1, <2>2 DEF SealInv, Nested
  <2>5. \A f \in File \ {AuditLog} : files[f].gen = g => files[f].whole
    BY <2>1, <2>2, <2>3 DEF SealInv, TornIsNew, Exists
  <2> QED
    BY <2>4, <2>5 DEF SealInv, LogIsSealed, SealedBy, logged
<1> QED
  BY <1>1, <1>2, TypeCorrect, SealInductive, PTL DEF Spec

-----------------------------------------------------------------------------
(***************************************************************************)
(* What the artefacts of a review say.                                     *)
(***************************************************************************)

\* The enabled rules of the current run that were evaluated so far.
Considered == {i \in Evaluated(input) : i <= Len(summary)}

RowIsRight(i) ==
  /\ summary[i].rule = input.enabled[i]
  /\ (summary[i].status = "NOT_EVALUATED") <=> Skipped(input, i)
  /\ (summary[i].result = "PASS") <=> Passes(input, i)

FindingsInv ==
  pc # "idle" =>
    /\ violations = UNION {FailedResults(input, i) : i \in Considered}
    /\ loaded = UNION {Needs(input.enabled[i]) : i \in Considered}
    /\ \A i \in DOMAIN summary : RowIsRight(i)
    /\ pc \notin Reading => ~Unpublishable
    /\ pc = "data_ts" => /\ files[Payload].found = violations
                         /\ files[Payload].rules = ComplianceChecks(summary)

\* Before the loop over the rules and after it.
LEMMA FindingsAtStart ==
  ASSUME NEW inp \in Inputs, StartRun(inp)
  PROVE  FindingsInv'
<1>1. /\ pc' = "config" /\ violations' = {} /\ loaded' = {} /\ DOMAIN summary' = {}
      /\ Len(summary') = 0
  BY DEF StartRun
<1>2. Considered' = {}
  BY <1>1 DEF Considered, Evaluated
<1> QED
  BY <1>1, <1>2 DEF FindingsInv, Reading

\* After the loop the accumulated lists say all there is to say of the input.
LEMMA FindingsAreComplete ==
  ASSUME TypeOK, SealInv, FindingsInv, pc # "idle", pc \notin Reading
  PROVE  /\ violations = Breaches(input)
         /\ loaded = Wanted(input)
         /\ DOMAIN summary = 1..Len(input.enabled)
<1>1. Len(summary) = Len(input.enabled)
  BY DEF SealInv, Underway
<1>2. Considered = Evaluated(input)
  BY <1>1, InputType DEF Considered, Evaluated, Input
<1> QED
  BY <1>1, <1>2 DEF FindingsInv, Breaches, Wanted, TypeOK

\* A step that leaves the lists alone.
LEMMA FindingsKept ==
  ASSUME FindingsInv, Keep, pc # "idle",
         pc' \notin Reading \cup {"idle"} => ~Unpublishable,
         pc' = "data_ts" => /\ files'[Payload].found = violations
                            /\ files'[Payload].rules = ComplianceChecks(summary)
  PROVE  FindingsInv'
<1>1. /\ input' = input /\ violations' = violations /\ loaded' = loaded /\ summary' = summary
  BY DEF Keep, input, run
<1>2. Considered' = Considered /\ (Unpublishable' <=> Unpublishable)
  BY <1>1 DEF Considered, Unpublishable
<1>3. \A i : RowIsRight(i)' <=> RowIsRight(i)
  BY <1>1 DEF RowIsRight
<1> QED
  BY <1>1, <1>2, <1>3 DEF FindingsInv

\* Skipping R14 adds a row and no finding.
LEMMA SkipKeepsFindings ==
  ASSUME TypeOK, FindingsInv, SkipRule
  PROVE  FindingsInv'
<1> DEFINE e == SummaryEntry(input.enabled[position], 0, 0, "NOT_EVALUATED")
<1>0. PICK p : p = position
  OBVIOUS
<1>1. /\ input' = input /\ violations' = violations /\ loaded' = loaded /\ pc' = "rules"
      /\ pc = "rules" /\ summary' = Append(summary, e) /\ Skipped(input, position)
      /\ p = position /\ p = Len(summary) + 1 /\ p \in 1..Len(input.enabled)
      /\ summary \in Seq(Row)
  BY <1>0 DEF SkipRule, AtRule, input, run, position, TypeOK
<1>2. Considered' = Considered
  BY <1>1 DEF Considered, Evaluated
<1>3. RowIsRight(p)'
  BY <1>1 DEF RowIsRight, SummaryEntry, Passes, Evaluated
<1>4. \A i \in DOMAIN summary : RowIsRight(i)'
  BY <1>1 DEF RowIsRight, FindingsInv
<1>5. DOMAIN summary' = DOMAIN summary \cup {p}
  BY <1>1
<1> QED
  BY <1>1, <1>2, <1>3, <1>4, <1>5 DEF FindingsInv, Reading

\* Evaluating a rule adds its failures, its row and the data it needs.
LEMMA EvaluateKeepsFindings ==
  ASSUME TypeOK, FindingsInv, EvaluateRule
  PROVE  FindingsInv'
<1> DEFINE r == input.enabled[position]
           failed == FailedResults(input, position)
           e == SummaryEntry(r, Cardinality(RecordsFor(input, r)), Cardinality(failed), "EVALUATED")
<1>0. PICK p : p = position
  OBVIOUS
<1>1. /\ input' = input /\ pc' = "rules" /\ pc = "rules" /\ summary' = Append(summary, e)
      /\ violations' = violations \cup failed /\ loaded' = loaded \cup Needs(r)
      /\ ~Skipped(input, position)
      /\ p = position /\ p = Len(summary) + 1 /\ p \in 1..Len(input.enabled)
      /\ summary \in Seq(Row)
  BY <1>0 DEF EvaluateRule, LazyLoad, AtRule, input, run, position, TypeOK
<1> HIDE DEF e
<1>2. Considered' = Considered \cup {p}
  BY <1>1 DEF Considered, Evaluated
<1>3. /\ violations' = UNION {FailedResults(input, i) : i \in Considered'}
      /\ loaded' = UNION {Needs(input.enabled[i]) : i \in Considered'}
  BY <1>1, <1>2 DEF FindingsInv
<1>4. RowIsRight(p)'
  <2>1. Cardinality(failed) = 0 <=> failed = {}
    BY <1>1, FailedType, FS_EmptySet, InputType
  <2>2. Passes(input, position) <=> failed = {}
    BY <1>1 DEF Passes, Evaluated
  <2>3. /\ e.rule = r /\ e.status = "EVALUATED"
        /\ e.result = IF Cardinality(failed) = 0 THEN "PASS" ELSE "VIOLATIONS FOUND"
    BY DEF e, SummaryEntry
  <2>4. summary'[position] = e
    BY <1>1
  <2> QED
    BY <1>1, <2>1, <2>2, <2>3, <2>4 DEF RowIsRight
<1>5. \A i \in DOMAIN summary : RowIsRight(i)'
  BY <1>1 DEF RowIsRight, FindingsInv
<1>6. DOMAIN summary' = DOMAIN summary \cup {p}
  BY <1>1
<1> QED
  BY <1>1, <1>3, <1>4, <1>5, <1>6 DEF FindingsInv, Reading

\* The lists never lose a finding and never hold one that is not a breach.
THEOREM FindingsInductive == TypeOK /\ FindingsInv /\ [Next]_vars => FindingsInv'
<1> SUFFICES ASSUME TypeOK, FindingsInv, [Next]_vars PROVE FindingsInv'
  OBVIOUS
<1>1. ASSUME NEW inp \in Inputs, StartRun(inp) PROVE FindingsInv'
  BY <1>1, FindingsAtStart
<1>2. CASE LoadConfig \/ LoadDatasets \/ SupplementUnreadable \/ RuleRaises
  <2>1. Keep /\ pc # "idle" /\ pc' \in Reading \cup {"idle"} /\ pc' # "data_ts"
    BY <1>2 DEF LoadConfig, LoadDatasets, SupplementUnreadable, RuleRaises, AtRule,
                Raise, Goto, Finish, Reading
  <2> QED
    BY <2>1, FindingsKept
<1>3. CASE SkipRule
  BY <1>3, SkipKeepsFindings
<1>4. CASE EvaluateRule
  BY <1>4, EvaluateKeepsFindings
<1>5. CASE ValidateViolations
  <2>1. /\ Keep /\ pc # "idle" /\ pc' # "data_ts"
        /\ pc' \notin Reading \cup {"idle"} => ~Unpublishable
    BY <1>5 DEF ValidateViolations, Raise, Goto, Finish, Reading
  <2> QED
    BY <2>1, FindingsKept
<1>6. CASE \/ WriteReportMd \/ WriteReportJson \/ GeneratePdfReport \/ PdfReportRaises \/ WriterRaises
           \/ ClearAuditLog \/ LogRuleRun \/ LogReviewComplete
           \/ WriteEvidencePack \/ ValidateEvidencePack
           \/ WriteFundsTrailMd \/ WriteFundsTrailJson \/ GenerateDataTs
           \/ WriteRunLog \/ Crash
  <2>1. /\ Keep /\ pc # "idle" /\ pc' # "data_ts"
        /\ pc \notin Reading \/ pc' = "idle"
    BY <1>6 DEF WriteReportMd, WriteReportJson, GeneratePdfReport, PdfReportRaises, WriterRaises, Fragile,
                ClearAuditLog, LogRuleRun, LogReviewComplete, WriteEvidencePack,
                ValidateEvidencePack, WriteFundsTrailMd, WriteFundsTrailJson,
                GenerateDataTs, WriteRunLog, Crash, Raise, Goto, Finish, Reading
  <2> QED
    BY <2>1, FindingsKept DEF FindingsInv
<1>7. CASE AdaptFullReport
  <2>1. Keep /\ pc = "payload" /\ pc \notin Reading
    BY <1>7 DEF AdaptFullReport, Raise, Reading
  <2>2. CASE Numeric
    BY <1>7, <2>1, <2>2, FindingsKept DEF AdaptFullReport, Raise, Finish
  <2>3. CASE ~Numeric
    <3>1. files'[Payload] = FullReport
      BY <1>7, <2>3 DEF AdaptFullReport, Put, TypeOK, File, Payload
    <3> QED
      BY <2>1, <3>1, CompositeType, FindingsKept DEF FindingsInv
  <2> QED
    BY <2>2, <2>3
<1>8. CASE UNCHANGED vars
  <2>1. /\ input' = input /\ Considered' = Considered /\ (Unpublishable' <=> Unpublishable)
        /\ \A i : RowIsRight(i)' <=> RowIsRight(i)
    BY <1>8 DEF vars, input, run, Considered, Unpublishable, RowIsRight
  <2> QED
    BY <1>8, <2>1 DEF vars, FindingsInv
<1> QED
  BY <1>1, <1>2, <1>3, <1>4, <1>5, <1>6, <1>7, <1>8 DEF Next, Step

-----------------------------------------------------------------------------
\* What a complete file of the current run says.
States(doc, f) ==
  /\ f \notin {TrailMd, TrailJson} => doc.found = violations
  /\ f \in {TrailMd, TrailJson, Payload, RunLog} => doc.sources = loaded
  /\ f \in {Payload, DataTs} => doc.rules = ComplianceChecks(summary)
  /\ f = EvidencePack => pc = "pack" /\ doc.trail = files[AuditLog].trail

\* A step leaves a file alone, tears it, or makes it state what the run found.
LEMMA FileStep ==
  ASSUME TypeOK, FindingsInv, [Next]_vars,
         NEW f \in File \ {AuditLog}, files'[f] # files[f]
  PROVE  /\ pc # "idle" /\ pc \notin Reading /\ UNCHANGED inputs
         /\ files'[f].gen = run
         /\ files'[f].whole => States(files'[f], f)
<1>1. CASE UNCHANGED files
  BY <1>1
<1>2. ASSUME Keep, pc # "idle", pc \notin Reading,
             NEW g \in File \ {AuditLog}, NEW doc \in Content, Put(g, doc),
             doc.gen = run, doc.whole => States(doc, g)
      PROVE  /\ pc # "idle" /\ pc \notin Reading /\ UNCHANGED inputs
             /\ files'[f].gen = run
             /\ files'[f].whole => States(files'[f], f)
  BY <1>2 DEF Put, Keep, TypeOK
<1> DEFINE Numbered == /\ ReportMd = 1 /\ ReportJson = 2 /\ ReportPdf = 3 /\ AuditLog = 4
                       /\ EvidencePack = 5 /\ TrailMd = 6 /\ TrailJson = 7
                       /\ Payload = 8 /\ DataTs = 9 /\ RunLog = 10 /\ File = 1..10
<1>3. Numbered
  BY DEF ReportMd, ReportJson, ReportPdf, AuditLog, EvidencePack, TrailMd, TrailJson,
         Payload, DataTs, RunLog, File
<1>4. CASE WriteReportMd \/ WriteReportJson \/ GeneratePdfReport
  <2>1. Keep /\ pc # "idle" /\ pc \notin Reading /\ \E g \in {ReportMd, ReportJson, ReportPdf} : Put(g, Report)
    BY <1>4 DEF WriteReportMd, WriteReportJson, GeneratePdfReport, Reading
  <2>2. \A g \in {ReportMd, ReportJson, ReportPdf} : g \in File \ {AuditLog} /\ States(Report, g)
    BY <1>3, ContentType DEF States
  <2> QED
    BY <1>2, <2>1, <2>2, ContentType
<1>5. CASE ClearAuditLog \/ LogRuleRun \/ LogReviewComplete
  BY <1>5 DEF ClearAuditLog, LogRuleRun, LogReviewComplete, AppendToLog, Put, TypeOK
<1>6. CASE WriteEvidencePack
  <2>1. pc = "pack" /\ Keep /\ pc # "idle" /\ pc \notin Reading /\ Put(EvidencePack, Pack)
    BY <1>6 DEF WriteEvidencePack, Reading
  <2>2. EvidencePack \in File \ {AuditLog} /\ States(Pack, EvidencePack)
    BY <1>3, <2>1, CompositeType DEF States
  <2> QED
    BY <1>2, <2>1, <2>2, CompositeType
<1>7. CASE WriteFundsTrailMd \/ WriteFundsTrailJson
  <2>1. Keep /\ pc # "idle" /\ pc \notin Reading /\ \E g \in {TrailMd, TrailJson} : Put(g, FundsTrail)
    BY <1>7 DEF WriteFundsTrailMd, WriteFundsTrailJson, Reading
  <2>2. \A g \in {TrailMd, TrailJson} : g \in File \ {AuditLog} /\ States(FundsTrail, g)
    BY <1>3, ContentType DEF States
  <2> QED
    BY <1>2, <2>1, <2>2, ContentType
<1>8. CASE AdaptFullReport
  <2>1. Numeric \/ (Keep /\ pc # "idle" /\ pc \notin Reading /\ Put(Payload, FullReport))
    BY <1>8 DEF AdaptFullReport, Reading
  <2>2. Payload \in File \ {AuditLog} /\ States(FullReport, Payload)
    BY <1>3, CompositeType DEF States
  <2> QED
    BY <1>1, <1>2, <1>8, <2>1, <2>2, CompositeType DEF AdaptFullReport, Raise
<1>9. CASE GenerateDataTs
  <2>1. pc = "data_ts" /\ Keep /\ pc # "idle" /\ pc \notin Reading /\ Put(DataTs, CopyOfPayload)
    BY <1>9 DEF GenerateDataTs, Reading
  <2>2. DataTs \in File \ {AuditLog} /\ States(CopyOfPayload, DataTs)
    BY <1>3, <2>1, CompositeType DEF States, FindingsInv
  <2> QED
    BY <1>2, <2>1, <2>2, CompositeType
<1>10. CASE WriteRunLog
  <2>1. Keep /\ pc # "idle" /\ pc \notin Reading /\ Put(RunLog, RunLogData)
    BY <1>10 DEF WriteRunLog, Reading
  <2>2. RunLog \in File \ {AuditLog} /\ States(RunLogData, RunLog)
    BY <1>3, CompositeType DEF States
  <2> QED
    BY <1>2, <2>1, <2>2, CompositeType
<1>11. CASE Crash
  <2>1. SUFFICES ASSUME NEW g \in Target(pc), Put(g, Torn(g))
                 PROVE  /\ pc # "idle" /\ pc \notin Reading /\ UNCHANGED inputs
                        /\ files'[f].gen = run
                        /\ files'[f].whole => States(files'[f], f)
    BY <1>1, <1>11 DEF Crash
  <2>2. g \in File /\ pc \notin Reading
    BY <2>1, TargetType DEF TypeOK, Target, Reading
  <2>3. f = g
    BY <2>1, <2>2 DEF Put, TypeOK
  <2> QED
    BY <1>2, <1>11, <2>1, <2>2, <2>3, ContentType DEF Crash
<1>12. UNCHANGED files \/ WriteReportMd \/ WriteReportJson \/ GeneratePdfReport
       \/ ClearAuditLog \/ LogRuleRun \/ LogReviewComplete \/ WriteEvidencePack
       \/ WriteFundsTrailMd \/ WriteFundsTrailJson \/ AdaptFullReport
       \/ GenerateDataTs \/ WriteRunLog \/ Crash
  BY DEF Next, Step, vars, StartRun, LoadConfig, LoadDatasets, SkipRule, SupplementUnreadable,
         RuleRaises, EvaluateRule, ValidateViolations, PdfReportRaises, WriterRaises, ValidateEvidencePack, Raise
<1> QED
  BY <1>1, <1>4, <1>5, <1>6, <1>7, <1>8, <1>9, <1>10, <1>11, <1>12

\* A step leaves the log alone, unlinks it, tears it or appends the next line.
LEMMA LogStep ==
  ASSUME TypeOK, [Next]_vars, files'[AuditLog] # files[AuditLog]
  PROVE  /\ pc \in {"clear_log", "append_log"} /\ Keep
         /\ \/ files'[AuditLog] = Blank
            \/ pc = "append_log" /\ files'[AuditLog] = Torn(AuditLog)
            \/ /\ pc = "append_log" /\ logged < Len(summary)
               /\ files'[AuditLog] = Longer(RuleLine(run, summary[logged + 1]))
            \/ /\ pc = "append_log" /\ logged = Len(summary)
               /\ files'[AuditLog] = Longer(ReviewLine(run, Cardinality(violations)))
<1> DEFINE Goal == /\ pc \in {"clear_log", "append_log"} /\ Keep
                   /\ \/ files'[AuditLog] = Blank
                      \/ pc = "append_log" /\ files'[AuditLog] = Torn(AuditLog)
                      \/ /\ pc = "append_log" /\ logged < Len(summary)
                         /\ files'[AuditLog] = Longer(RuleLine(run, summary[logged + 1]))
                      \/ /\ pc = "append_log" /\ logged = Len(summary)
                         /\ files'[AuditLog] = Longer(ReviewLine(run, Cardinality(violations)))
<1>1. \A g \in File : \A doc : Put(g, doc) => g = AuditLog
  BY DEF Put, TypeOK
<1>2. AuditLog \in File /\ \A doc : Put(AuditLog, doc) => files'[AuditLog] = doc
  BY DEF Put, TypeOK, AuditLog, File
<1>3. CASE ClearAuditLog \/ LogRuleRun \/ LogReviewComplete
  BY <1>2, <1>3 DEF ClearAuditLog, LogRuleRun, LogReviewComplete, AppendToLog
<1>4. CASE Crash
  <2>1. PICK g \in Target(pc) : Put(g, Torn(g))
    BY <1>4 DEF Crash
  <2>2. g = AuditLog
    BY <1>1, <2>1, TargetType DEF TypeOK
  <2>3. pc = "append_log"
    BY <2>1, <2>2 DEF Target, TypeOK, AuditLog, ReportMd, ReportJson, ReportPdf, EvidencePack,
                      TrailMd, TrailJson, Payload, DataTs, RunLog
  <2> QED
    BY <1>2, <1>4, <2>1, <2>2, <2>3 DEF Crash
<1>5. ClearAuditLog \/ LogRuleRun \/ LogReviewComplete \/ Crash
  <2>1. \A g \in File : g # AuditLog => ~\E doc : Put(g, doc)
    BY <1>1
  <2>2. {ReportMd, ReportJson, ReportPdf, EvidencePack, TrailMd, TrailJson, Payload, DataTs, RunLog}
           \subseteq File \ {AuditLog}
    BY DEF AuditLog, ReportMd, ReportJson, ReportPdf, EvidencePack,
           TrailMd, TrailJson, Payload, DataTs, RunLog, File
  <2> QED
    BY <2>1, <2>2
       DEF Next, Step, vars, StartRun, LoadConfig, LoadDatasets, SkipRule, SupplementUnreadable,
           RuleRaises, EvaluateRule, ValidateViolations, PdfReportRaises, WriterRaises, ValidateEvidencePack,
           Raise, WriteReportMd, WriteReportJson, GeneratePdfReport, WriteEvidencePack,
           WriteFundsTrailMd, WriteFundsTrailJson, AdaptFullReport, GenerateDataTs, WriteRunLog
<1> QED
  BY <1>3, <1>4, <1>5

\* The inputs of earlier runs do not change.
LEMMA InputsKept ==
  ASSUME TypeOK, [Next]_vars, NEW f \in File, Exists(f), files'[f] = files[f]
  PROVE  inputs'[files'[f].gen] = inputs[files[f].gen]
<1>1. files[f].gen \in 1..run
  BY FieldType DEF TypeOK, Exists
<1>2. UNCHANGED inputs \/ \E inp \in Inputs : inputs' = Append(inputs, inp)
  BY DEF Next, Step, vars, StartRun, LoadConfig, LoadDatasets, SkipRule, SupplementUnreadable,
         RuleRaises, EvaluateRule, ValidateViolations, WriteReportMd, WriteReportJson,
         GeneratePdfReport, PdfReportRaises, WriterRaises, Fragile, ClearAuditLog, LogRuleRun, LogReviewComplete,
         WriteEvidencePack, ValidateEvidencePack, WriteFundsTrailMd, WriteFundsTrailJson,
         AdaptFullReport, GenerateDataTs, WriteRunLog, Crash, Raise, Keep
<1> QED
  BY <1>1, <1>2 DEF TypeOK, run

-----------------------------------------------------------------------------
ContentInv == TypeOK /\ SealInv /\ FindingsInv

\* The lists, the seal and the types hold together in every state.
THEOREM ContentInvariant == Spec => []ContentInv
<1>1. Init => SealInv
  BY SealInitially
<1>2. Init => FindingsInv
  BY DEF Init, FindingsInv
<1> QED
  BY <1>1, <1>2, TypeCorrect, SealInductive, FindingsInductive, PTL DEF Spec, ContentInv

\* No failing record of an evaluated rule is lost and nothing else is
\* reported, in any artefact, however the runs that share the directory end.
THEOREM FindingsAreTraceable == Spec => []TraceableFindings
<1>1. Init => TraceableFindings
  BY DEF Init, TraceableFindings, Blank
<1>2. ContentInv /\ TraceableFindings /\ [Next]_vars => TraceableFindings'
  <2> SUFFICES ASSUME ContentInv, TraceableFindings, [Next]_vars,
                      NEW f \in File \ {AuditLog, TrailMd, TrailJson}, files'[f].whole
               PROVE  files'[f].found = Breaches(inputs'[files'[f].gen])
    BY DEF TraceableFindings
  <2>1. CASE files'[f] = files[f]
    BY <2>1, InputsKept DEF ContentInv, TypeOK, TraceableFindings
  <2>2. CASE files'[f] # files[f]
    <3>1. /\ pc # "idle" /\ pc \notin Reading /\ UNCHANGED inputs /\ files'[f].gen = run
          /\ files'[f].found = violations
      BY <2>2, FileStep DEF ContentInv, States
    <3> QED
      BY <3>1, FindingsAreComplete DEF ContentInv, input
  <2> QED
    BY <2>1, <2>2
<1> QED
  BY <1>1, <1>2, ContentInvariant, PTL DEF Spec

\* The supplementary data an artefact shows is what the rules asked for.
THEOREM SourcesAreWanted == Spec => []SourcesAreThoseOfTheRules
<1>1. Init => SourcesAreThoseOfTheRules
  <2>1. {TrailMd, TrailJson, Payload, RunLog} \subseteq File
    BY DEF TrailMd, TrailJson, Payload, RunLog, File
  <2> QED
    BY <2>1 DEF Init, SourcesAreThoseOfTheRules, Blank
<1>2. ContentInv /\ SourcesAreThoseOfTheRules /\ [Next]_vars => SourcesAreThoseOfTheRules'
  <2> SUFFICES ASSUME ContentInv, SourcesAreThoseOfTheRules, [Next]_vars,
                      NEW f \in {TrailMd, TrailJson, Payload, RunLog}, files'[f].whole
               PROVE  files'[f].sources = Wanted(inputs'[files'[f].gen])
    BY DEF SourcesAreThoseOfTheRules
  <2>0. f \in File \ {AuditLog}
    BY DEF TrailMd, TrailJson, Payload, RunLog, AuditLog, File
  <2>1. CASE files'[f] = files[f]
    BY <2>0, <2>1, InputsKept DEF ContentInv, TypeOK, SourcesAreThoseOfTheRules
  <2>2. CASE files'[f] # files[f]
    <3>1. /\ pc # "idle" /\ pc \notin Reading /\ UNCHANGED inputs /\ files'[f].gen = run
          /\ files'[f].sources = loaded
      BY <2>0, <2>2, FileStep DEF ContentInv, States
    <3> QED
      BY <3>1, FindingsAreComplete DEF ContentInv, input
  <2> QED
    BY <2>1, <2>2
<1> QED
  BY <1>1, <1>2, ContentInvariant, PTL DEF Spec

\* A run whose violations cannot be published never touches the disk.
THEOREM UnpublishableIsNeverWritten == Spec => []UnpublishableLeavesNoTrace
<1>1. Init => UnpublishableLeavesNoTrace
  BY DEF Init, UnpublishableLeavesNoTrace, Blank, Exists
<1>2. ContentInv /\ ContentInv' /\ UnpublishableLeavesNoTrace /\ [Next]_vars => UnpublishableLeavesNoTrace'
  <2> SUFFICES ASSUME ContentInv, ContentInv', UnpublishableLeavesNoTrace, [Next]_vars,
                      NEW f \in File, Exists(f)', NEW v \in Breaches(inputs'[files'[f].gen])
               PROVE  v.record \notin BlankId
    BY DEF UnpublishableLeavesNoTrace
  <2>1. CASE files'[f] = files[f]
    BY <2>1, InputsKept DEF ContentInv, Exists, UnpublishableLeavesNoTrace
  <2>2. CASE files'[f] # files[f]
    <3>1. pc # "idle" /\ pc \notin Reading /\ UNCHANGED inputs /\ files'[f].gen = run
      <4>1. CASE f # AuditLog
        BY <2>2, <4>1, FileStep DEF ContentInv
      <4>2. CASE f = AuditLog
        <5>1. files'[AuditLog] # Blank
          BY <4>2 DEF Exists, Blank
        <5>2. AuditLog \in File /\ run \in Nat
          BY DEF AuditLog, File, ContentInv, TypeOK, run
        <5>3. logged < Len(summary) /\ pc # "idle" => RuleLine(run, summary[logged + 1]) \in Line
          BY RuleLineType DEF ContentInv
        <5> QED
          BY <2>2, <4>2, <5>1, <5>2, <5>3, LogStep, LongerType, ReviewLineType, ContentType
             DEF ContentInv, Reading, Keep
      <4> QED
        BY <4>1, <4>2
    <3>2. violations = Breaches(input)
      BY <3>1, FindingsAreComplete DEF ContentInv
    <3> QED
      BY <3>1, <3>2 DEF ContentInv, FindingsInv, Unpublishable, input
  <2> QED
    BY <2>1, <2>2
<1> QED
  BY <1>1, <1>2, ContentInvariant, PTL DEF Spec

EarnedIn(doc, inp) ==
  /\ DOMAIN doc.rules = 1..Len(inp.enabled)
  /\ \A i \in DOMAIN doc.rules :
       /\ (doc.rules[i].result = "not_evaluated") <=> (i \notin Evaluated(inp))
       /\ (doc.rules[i].result = "passed") <=>
            (i \in Evaluated(inp) /\ ~\E v \in doc.found : v.at = i)

\* The badges adapt_compliance_checks computes from rule_summary are earned.
LEMMA BadgesOfSummary ==
  ASSUME ContentInv, pc # "idle", pc \notin Reading, NEW doc,
         doc.found = violations, doc.rules = ComplianceChecks(summary)
  PROVE  EarnedIn(doc, input)
<1>1. /\ violations = Breaches(input) /\ DOMAIN summary = 1..Len(input.enabled)
      /\ \A i \in DOMAIN summary : RowIsRight(i)
      /\ summary \in Seq(Row) /\ \A i \in DOMAIN summary : summary[i].result \in Result
  BY FindingsAreComplete DEF ContentInv, FindingsInv, TypeOK
<1>2. DOMAIN doc.rules = 1..Len(input.enabled)
  BY <1>1, BadgeType
<1>3. ASSUME NEW i \in DOMAIN doc.rules
      PROVE  /\ (doc.rules[i].result = "not_evaluated") <=> (i \notin Evaluated(input))
             /\ (doc.rules[i].result = "passed") <=>
                  (i \in Evaluated(input) /\ ~\E v \in doc.found : v.at = i)
  <2>1. doc.rules[i].result = Badge(summary[i])
    BY <1>1, <1>2, <1>3 DEF ComplianceChecks, Row
  <2>2. i \notin Evaluated(input) <=> Skipped(input, i)
    BY <1>2, <1>3 DEF Evaluated
  <2>3. i \in Evaluated(input) =>
          (FailedResults(input, i) = {} <=> ~\E v \in Breaches(input) : v.at = i)
    <3>1. \A j : \A v \in FailedResults(input, j) : v.at = j
      <4> SUFFICES ASSUME NEW j, NEW v \in FailedResults(input, j) PROVE v.at = j
        OBVIOUS
      <4>1. PICK x : v = [at |-> j, rule |-> input.enabled[j], record |-> x]
        BY DEF FailedResults
      <4> QED
        BY <4>1
    <3>2. \A v : v \in Breaches(input) <=> \E j \in Evaluated(input) : v \in FailedResults(input, j)
      BY DEF Breaches
    <3> QED
      BY <3>1, <3>2
  <2>4. RowIsRight(i) /\ summary[i] \in Row /\ summary[i].result \in Result
    BY <1>1, <1>2, <1>3
  <2> QED
    <3>1. CASE i \notin Evaluated(input)
      BY <2>1, <2>2, <2>4, <3>1 DEF Badge, RowIsRight
    <3>2. CASE i \in Evaluated(input)
      <4>1. Badge(summary[i]) = IF summary[i].result = "PASS" THEN "passed" ELSE "failed"
        BY <2>2, <2>4, <3>2 DEF Badge, RowIsRight
      <4>2. summary[i].result = "PASS" <=> ~\E v \in doc.found : v.at = i
        BY <1>1, <2>3, <2>4, <3>2 DEF RowIsRight, Passes
      <4> QED
        BY <2>1, <3>2, <4>1, <4>2
    <3> QED
      BY <3>1, <3>2
<1> QED
  BY <1>2, <1>3 DEF EarnedIn

\* A green badge is earned.
THEOREM BadgesAreHonest == Spec => []BadgesAreEarned
<1>1. Init => BadgesAreEarned
  <2>1. Payload \in File /\ DataTs \in File
    BY DEF Payload, DataTs, File
  <2> QED
    BY <2>1 DEF Init, BadgesAreEarned, Blank
<1>2. ContentInv /\ BadgesAreEarned /\ [Next]_vars => BadgesAreEarned'
  <2> SUFFICES ASSUME ContentInv, BadgesAreEarned, [Next]_vars,
                      NEW f \in {Payload, DataTs}, files'[f].whole
               PROVE  EarnedIn(files'[f], inputs'[files'[f].gen])
    BY DEF BadgesAreEarned, EarnedIn
  <2>0. f \in File \ {AuditLog} /\ f \notin {TrailMd, TrailJson}
    BY DEF TrailMd, TrailJson, Payload, DataTs, AuditLog, File
  <2>1. CASE files'[f] = files[f]
    BY <2>0, <2>1, InputsKept DEF ContentInv, TypeOK, BadgesAreEarned, EarnedIn
  <2>2. CASE files'[f] # files[f]
    <3>1. /\ pc # "idle" /\ pc \notin Reading /\ UNCHANGED inputs /\ files'[f].gen = run
          /\ files'[f].found = violations /\ files'[f].rules = ComplianceChecks(summary)
      BY <2>0, <2>2, FileStep DEF ContentInv, States
    <3> QED
      BY <3>1, BadgesOfSummary DEF ContentInv, input
  <2> QED
    BY <2>1, <2>2
<1> QED
  BY <1>1, <1>2, ContentInvariant, PTL DEF Spec

-----------------------------------------------------------------------------
(***************************************************************************)
(* The audit log.  While lines are being appended the log holds lines of   *)
(* the current run only (OneRun), which is where the unlinking of the old  *)
(* log matters.                                                            *)
(***************************************************************************)
LogInv ==
  /\ AuditTrailIsOneRun
  /\ pc = "append_log" => IsTrailOf(files[AuditLog].trail, run, input)

\* An audit.log that was just unlinked is a prefix of the run's trail.
LEMMA EmptyTrail ==
  ASSUME TypeOK, pc # "idle"
  PROVE  IsTrailOf(<<>>, run, input)
<1>1. Len(input.enabled) \in Nat
  BY InputType DEF Input
<1> QED
  BY <1>1 DEF IsTrailOf

\* append_to_log for the next rule of rule_summary extends the trail.
LEMMA RuleLineExtends ==
  ASSUME ContentInv, pc = "append_log", IsTrailOf(files[AuditLog].trail, run, input),
         logged < Len(summary)
  PROVE  IsTrailOf(Append(files[AuditLog].trail, RuleLine(run, summary[logged + 1])), run, input)
<1> DEFINE t == files[AuditLog].trail
           line == RuleLine(run, summary[logged + 1])
           n == Len(input.enabled)
<1>1. /\ AuditLog \in File /\ t \in Seq(Line) /\ logged = Len(t) /\ logged \in Nat
      /\ summary \in Seq(Row) /\ Len(summary) = n /\ n \in Nat
  <2>1. AuditLog \in File
    BY DEF AuditLog, File
  <2> QED
    BY <2>1, FieldType, InputType DEF ContentInv, SealInv, Underway, Reading, TypeOK, logged, Input
<1>2. RowIsRight(logged + 1)
  BY <1>1 DEF ContentInv, FindingsInv
<1>3. /\ line.gen = run /\ line.event = "RULE_RUN" /\ line.rule = input.enabled[logged + 1]
      /\ (line.result = "PASS") <=> Passes(input, logged + 1)
  BY <1>2 DEF RuleLine, RowIsRight
<1>4. /\ Len(Append(t, line)) = logged + 1
      /\ \A i \in 1..logged : Append(t, line)[i] = t[i]
      /\ Append(t, line)[logged + 1] = line
  BY <1>1
<1>5. IsTrailOf(t, run, input)
  OBVIOUS
<1> HIDE DEF t, line
<1>6. IsTrailOf(Append(t, line), run, input)
  BY <1>1, <1>3, <1>4, <1>5 DEF IsTrailOf
<1> QED
  BY <1>6 DEF t, line

\* REVIEW_COMPLETE after the last rule ends the trail.
LEMMA ReviewLineExtends ==
  ASSUME ContentInv, pc = "append_log", IsTrailOf(files[AuditLog].trail, run, input),
         logged = Len(summary)
  PROVE  IsTrailOf(Append(files[AuditLog].trail, ReviewLine(run, Cardinality(violations))), run, input)
<1> DEFINE t == files[AuditLog].trail
           line == ReviewLine(run, Cardinality(violations))
           n == Len(input.enabled)
<1>1. /\ t \in Seq(Line) /\ Len(t) = n /\ n \in Nat
  <2>1. AuditLog \in File
    BY DEF AuditLog, File
  <2> QED
    BY <2>1, FieldType, InputType DEF ContentInv, SealInv, Underway, Reading, TypeOK, logged, Input
<1>2. violations = Breaches(input)
  BY FindingsAreComplete DEF ContentInv, Reading
<1>3. line.gen = run /\ line.event = "REVIEW_COMPLETE" /\ line.count = Cardinality(Breaches(input))
  BY <1>2 DEF ReviewLine
<1>4. /\ Len(Append(t, line)) = n + 1
      /\ \A i \in 1..n : Append(t, line)[i] = t[i]
      /\ Append(t, line)[n + 1] = line
  BY <1>1
<1>5. IsTrailOf(t, run, input)
  OBVIOUS
<1> HIDE DEF t, line
<1>6. IsTrailOf(Append(t, line), run, input)
  BY <1>1, <1>3, <1>4, <1>5 DEF IsTrailOf
<1> QED
  BY <1>6 DEF t, line

\* Whatever changes audit.log short of unlinking it leaves a trail of the
\* current run.
LEMMA LongerLog ==
  ASSUME ContentInv, LogInv, [Next]_vars,
         files'[AuditLog] # files[AuditLog], files'[AuditLog] # Blank
  PROVE  /\ files'[AuditLog].gen = run /\ UNCHANGED inputs
         /\ IsTrailOf(files'[AuditLog].trail, run, input)
<1>0. AuditLog \in File
  BY DEF AuditLog, File
<1>1. UNCHANGED inputs /\ pc = "append_log"
  <2>1. /\ pc \in {"clear_log", "append_log"} /\ Keep
        /\ files'[AuditLog] # Blank => pc = "append_log"
    BY LogStep DEF ContentInv
  <2> QED
    BY <2>1 DEF Keep
<1>2. IsTrailOf(files[AuditLog].trail, run, input)
  BY <1>1 DEF LogInv
<1>3. CASE files'[AuditLog] = Torn(AuditLog)
  <2>1. Torn(AuditLog).trail = files[AuditLog].trail /\ Torn(AuditLog).gen = run
    BY <1>0, ContentType DEF Torn, Blank, ContentInv
  <2> QED
    BY <1>1, <1>2, <1>3, <2>1
<1>4. CASE logged < Len(summary) /\ files'[AuditLog] = Longer(RuleLine(run, summary[logged + 1]))
  <2>1. RuleLine(run, summary[logged + 1]) \in Line
    BY <1>1, <1>4, RuleLineType DEF ContentInv
  <2> QED
    BY <1>1, <1>2, <1>4, <2>1, LongerType, RuleLineExtends DEF ContentInv
<1>5. CASE logged = Len(summary) /\ files'[AuditLog] = Longer(ReviewLine(run, Cardinality(violations)))
  <2>1. ReviewLine(run, Cardinality(violations)) \in Line
    BY ReviewLineType DEF ContentInv
  <2> QED
    BY <1>1, <1>2, <1>5, <2>1, LongerType, ReviewLineExtends DEF ContentInv
<1> QED
  BY <1>3, <1>4, <1>5, LogStep DEF ContentInv

\* A run starts to append only when it has just unlinked the log.
LEMMA AppendingStep ==
  ASSUME TypeOK, [Next]_vars, pc' = "append_log"
  PROVE  /\ pc = "append_log" \/ (pc = "clear_log" /\ files'[AuditLog] = Blank)
         /\ UNCHANGED inputs
<1>1. ClearAuditLog => files'[AuditLog] = Blank
  BY DEF ClearAuditLog, Put, TypeOK, AuditLog, File
<1> QED
  BY <1>1 DEF Next, Step, vars, StartRun, LoadConfig, LoadDatasets, SkipRule, SupplementUnreadable,
         RuleRaises, EvaluateRule, AtRule, ValidateViolations, WriteReportMd, WriteReportJson,
         GeneratePdfReport, PdfReportRaises, WriterRaises, Fragile, ClearAuditLog, LogRuleRun, LogReviewComplete,
         WriteEvidencePack, ValidateEvidencePack, WriteFundsTrailMd, WriteFundsTrailJson,
         AdaptFullReport, GenerateDataTs, WriteRunLog, Crash, Raise, Finish, Goto, Keep

\* The evidence pack quotes the whole trail of its own run and audit.log never
\* mixes two runs, although the log is opened to append and survives crashes.
THEOREM AuditTrailIsNeverMixed == Spec => []AuditTrailIsOneRun
<1>1. Init => LogInv
  <2>1. AuditLog \in File /\ EvidencePack \in File
    BY DEF AuditLog, EvidencePack, File
  <2> QED
    BY <2>1 DEF Init, LogInv, AuditTrailIsOneRun, Blank, Exists
<1>2. ContentInv /\ ContentInv' /\ LogInv /\ [Next]_vars => LogInv'
  <2> SUFFICES ASSUME ContentInv, ContentInv', LogInv, [Next]_vars PROVE LogInv'
    OBVIOUS
  <2>0. AuditLog \in File /\ EvidencePack \in File \ {AuditLog}
    BY DEF AuditLog, EvidencePack, File
  <2> DEFINE log == files[AuditLog]
             pack == files[EvidencePack]
  <2>1. pack'.whole => /\ IsTrailOf(pack'.trail, pack'.gen, inputs'[pack'.gen])
                       /\ Len(pack'.trail) = Len(inputs'[pack'.gen].enabled) + 1
    <3>1. CASE pack' = pack
      BY <2>0, <3>1, InputsKept DEF ContentInv, TypeOK, LogInv, AuditTrailIsOneRun
    <3>2. CASE pack' # pack /\ pack'.whole
      <4>1. /\ pc = "pack" /\ UNCHANGED inputs /\ pack'.gen = run
            /\ pack'.trail = log.trail
        BY <2>0, <3>2, FileStep DEF ContentInv, States
      <4>2. log.gen = run /\ Exists(AuditLog) /\ Len(log.trail) = Len(input.enabled) + 1
        BY <2>0, <4>1, InputType
           DEF ContentInv, SealInv, Underway, Progress, Reading, AuditLog, TypeOK, logged
      <4> QED
        BY <4>1, <4>2 DEF LogInv, AuditTrailIsOneRun, input
    <3> QED
      BY <3>1, <3>2
  <2>2. Exists(AuditLog)' => IsTrailOf(log'.trail, log'.gen, inputs'[log'.gen])
    <3>1. CASE log' = log
      BY <2>0, <3>1, InputsKept DEF ContentInv, Exists, LogInv, AuditTrailIsOneRun
    <3>2. CASE log' # log
      <4>1. CASE log' = Blank
        BY <4>1 DEF Exists, Blank
      <4>2. CASE log' # Blank
        <5>1. log'.gen = run /\ inputs' = inputs /\ IsTrailOf(log'.trail, run, input)
          BY <3>2, <4>2, LongerLog
        <5> QED
          BY <5>1 DEF input
      <4> QED
        BY <4>1, <4>2
    <3> QED
      BY <3>1, <3>2
  <2>3. (pc = "append_log")' => IsTrailOf(log'.trail, run', input')
    <3>1. SUFFICES ASSUME pc' = "append_log" PROVE IsTrailOf(log'.trail, run, input)
      BY AppendingStep DEF ContentInv, run, input
    <3>2. pc # "idle" /\ (pc = "append_log" \/ log' = Blank)
      BY <3>1, AppendingStep DEF ContentInv
    <3>3. CASE log' = Blank
      BY <3>2, <3>3, EmptyTrail DEF ContentInv, Blank
    <3>4. CASE log' = log /\ pc = "append_log"
      BY <3>4 DEF LogInv
    <3>5. CASE log' # log /\ log' # Blank
      BY <3>5, LongerLog
    <3> QED
      BY <3>2, <3>3, <3>4, <3>5
  <2> QED
    BY <2>1, <2>2, <2>3 DEF LogInv, AuditTrailIsOneRun
<1>3. LogInv => AuditTrailIsOneRun
  BY DEF LogInv
<1> QED
  BY <1>1, <1>2, <1>3, ContentInvariant, PTL DEF Spec

-----------------------------------------------------------------------------
(***************************************************************************)
(* run_pipeline implements Review: every step of a run is a step of the    *)
(* abstract review or leaves it alone.                                     *)
(***************************************************************************)

\* Only the last write, or a crash during it, changes the certificate.
LEMMA CertificateKept ==
  ASSUME TypeOK, files'[RunLog] = files[RunLog]
  PROVE  certificate' = certificate
  BY DEF certificate

\* Only write_run_log writes run_log.json, and only a kill tears it.
LEMMA RunLogStep ==
  ASSUME TypeOK, FindingsInv, [Next]_vars, files'[RunLog] # files[RunLog]
  PROVE  WriteRunLog \/ (Crash /\ files'[RunLog] = Torn(RunLog))
<1>1. {ReportMd, ReportJson, ReportPdf, AuditLog, EvidencePack, TrailMd, TrailJson, Payload, DataTs}
         \subseteq File \ {RunLog} /\ RunLog \in File
  BY DEF AuditLog, ReportMd, ReportJson, ReportPdf, EvidencePack,
         TrailMd, TrailJson, Payload, DataTs, RunLog, File
<1>2. \A g \in File \ {RunLog} : \A doc : ~Put(g, doc)
  BY <1>1 DEF Put, TypeOK
<1>3. WriteRunLog \/ Crash
  BY <1>1, <1>2
     DEF Next, Step, vars, StartRun, LoadConfig, LoadDatasets, SkipRule, SupplementUnreadable,
         RuleRaises, EvaluateRule, ValidateViolations, PdfReportRaises, WriterRaises, ValidateEvidencePack,
         Raise, WriteReportMd, WriteReportJson, GeneratePdfReport, WriteEvidencePack,
         WriteFundsTrailMd, WriteFundsTrailJson, AdaptFullReport, GenerateDataTs,
         ClearAuditLog, LogRuleRun, LogReviewComplete, AppendToLog
<1>4. CASE Crash
  <2>1. PICK g \in Target(pc) : Put(g, Torn(g))
    BY <1>4 DEF Crash
  <2>2. g = RunLog
    BY <1>2, <2>1, TargetType DEF TypeOK
  <2> QED
    BY <1>1, <1>4, <2>1, <2>2 DEF Put, TypeOK
<1> QED
  BY <1>3, <1>4

\* A step that does not touch the run log.
LEMMA OtherSteps ==
  ASSUME TypeOK, [Next]_vars, files'[RunLog] = files[RunLog]
  PROVE  \/ \E inp \in Inputs : pc = "idle" /\ pc' # "idle" /\ run < MaxRuns /\ inputs' = Append(inputs, inp)
         \/ pc # "idle" /\ pc' = "idle" /\ UNCHANGED inputs
         \/ (pc # "idle" <=> pc' # "idle") /\ UNCHANGED inputs
  BY DEF Next, Step, vars, StartRun, LoadConfig, LoadDatasets, SkipRule, SupplementUnreadable,
         RuleRaises, EvaluateRule, AtRule, ValidateViolations, WriteReportMd, WriteReportJson,
         GeneratePdfReport, PdfReportRaises, WriterRaises, Fragile, ClearAuditLog, LogRuleRun, LogReviewComplete,
         WriteEvidencePack, ValidateEvidencePack, WriteFundsTrailMd, WriteFundsTrailJson,
         AdaptFullReport, GenerateDataTs, WriteRunLog, Crash, Raise, Finish, Goto, Keep

\* The detailed pipeline implements the abstract review.
THEOREM Implementation == Spec => ReviewSpec
<1> USE DEF Certified!Init, Certified!Next, Certified!vars, Certified!Begin, Certified!Certify,
            Certified!Fail, Certified!Void
<1>1. Init => Certified!Init
  <2>1. RunLog \in File
    BY DEF RunLog, File
  <2> QED
    BY <2>1 DEF Init, certificate, Blank
<1>2. ContentInv /\ [Next]_vars => [Certified!Next]_(Certified!vars)
  <2> SUFFICES ASSUME ContentInv, [Next]_vars PROVE [Certified!Next]_(Certified!vars)
    OBVIOUS
  <2>1. CASE files'[RunLog] = files[RunLog]
    <3>1. certificate' = certificate
      BY <2>1, CertificateKept DEF ContentInv
    <3> QED
      BY <2>1, <3>1, OtherSteps DEF ContentInv, run
  <2>2. CASE WriteRunLog
    <3>1. pc # "idle" /\ pc' = "idle" /\ UNCHANGED inputs /\ files'[RunLog] = RunLogData /\ pc \notin Reading
      BY <2>2 DEF WriteRunLog, Finish, Keep, Put, ContentInv, TypeOK, RunLog, File, Reading
    <3>2. certificate' = [run |-> run, found |-> violations]
      BY <3>1, CompositeType DEF certificate, ContentInv
    <3>3. violations = Breaches(input)
      BY <3>1, FindingsAreComplete DEF ContentInv
    <3> QED
      BY <3>1, <3>2, <3>3 DEF run, input
  <2>3. CASE Crash /\ files'[RunLog] = Torn(RunLog)
    <3>1. pc # "idle" /\ pc' = "idle" /\ UNCHANGED inputs
      BY <2>3 DEF Crash, Finish, Keep
    <3>2. ~Torn(RunLog).whole
      BY ContentType DEF ContentInv, RunLog, File
    <3>3. certificate' = [run |-> 0, found |-> {}]
      BY <2>3, <3>2 DEF certificate
    <3> QED
      BY <3>1, <3>3
  <2> QED
    BY <2>1, <2>2, <2>3, RunLogStep DEF ContentInv
<1> QED
  BY <1>1, <1>2, ContentInvariant, PTL DEF Spec, ReviewSpec, Certified!Spec
=============================================================================
