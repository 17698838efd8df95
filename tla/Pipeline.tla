------------------------------ MODULE Pipeline ------------------------------
(***************************************************************************)
(* run_pipeline() of run.py: one review of a trust account, from the       *)
(* configuration file to run_log.json, and the sequence of reviews that    *)
(* share one output directory.  The directory outlives the process: a run  *)
(* that raises or is killed leaves behind what it wrote so far, on top of  *)
(* what earlier runs wrote.                                                *)
(*                                                                         *)
(* Data is abstracted to what the properties tell apart.  A record is an   *)
(* identifier; an input says which records each rule would fail; a file    *)
(* is the generation (the number of the run) that wrote it and the         *)
(* findings, rule results, audit lines and supplementary data it shows.    *)
(***************************************************************************)
EXTENDS Integers, Sequences, FiniteSets

CONSTANTS
  Rule,          \* rule identifiers, the keys of RULE_METADATA
  InvoiceRule,   \* _INVOICE_RULES: R08, R09, R10
  BulkRule,      \* R12, the rule that reads the allocations
  TimingRule,    \* R14, the rule that may be skipped
  Dataset,       \* _DATASET_NAMES, the data every run loads
  DatasetOf,     \* RULE_METADATA[rule]["dataset"]
  Record,        \* record identifiers
  NumericId,     \* records whose identifier is a number (a numeric .xlsx cell)
  BlankId,       \* records whose identifier is falsy: "" or the number 0
  Inputs,        \* the inputs a run may be started on
  MaxRuns        \* bound: number of runs in one output directory

Supplementary == {"invoice_register", "allocations"}

(***************************************************************************)
(* The writers that may raise on a value before they open their file: JSON *)
(* takes no date (a period or version of the configuration, a cell), the   *)
(* PDF no markup that does not parse, the funds trail no number or blank   *)
(* where it wants text, and no matters it cannot sort (FundsTrail).        *)
(***************************************************************************)
Fragile == {"report_json", "pdf", "trail_md", "trail_json", "run_log"}

(***************************************************************************)
(* An input: the configuration file and the input directory.               *)
(***************************************************************************)
Input == [valid    : BOOLEAN,                        \* load_config accepts it
          enabled  : Seq(Rule),                      \* [rules] enabled
          readable : SUBSET (Dataset \cup Supplementary),
          records  : [Dataset -> SUBSET Record],
          dated    : BOOLEAN,                        \* a reconciliation_date column
          breaches : SUBSET (Rule \X Record),        \* the rule fails the record
          raising  : SUBSET (Rule \X Record),        \* the rule raises on it
          unwritable : SUBSET Fragile]               \* the writer raises on some value

ASSUME SubsetAssumption ==
  /\ InvoiceRule \subseteq Rule /\ BulkRule \subseteq Rule /\ TimingRule \subseteq Rule
  /\ NumericId \subseteq Record /\ BlankId \subseteq Record
ASSUME DatasetAssumption ==
  /\ DatasetOf \in [Rule -> Dataset]
  /\ Dataset \cap Supplementary = {}
ASSUME FiniteAssumption == IsFiniteSet(Record)
ASSUME InputAssumption == Inputs \subseteq Input
ASSUME BoundAssumption == MaxRuns \in Nat

(***************************************************************************)
(* _OUTPUT_FILES, numbered in the order in which a run completes them.     *)
(***************************************************************************)
ReportMd     == 1     \* exception_report.md
ReportJson   == 2     \* exception_report.json
ReportPdf    == 3     \* exception_report.pdf
AuditLog     == 4     \* audit.log
EvidencePack == 5     \* evidence_pack.md
TrailMd      == 6     \* funds_trail.md
TrailJson    == 7     \* funds_trail.json
Payload      == 8     \* frontend_payload.json
DataTs       == 9     \* data.ts
RunLog       == 10    \* run_log.json
File         == 1..10

VARIABLES
  inputs,       \* the inputs of the runs so far; the last one is the current run's
  pc,           \* the next step of the current run, "idle" between runs
  outcome,      \* how the last run ended, "none" while it is going on
  loaded,       \* supplementary data loaded by the current run
  violations,   \* the list run_pipeline accumulates, as a set (see Finding)
  summary,      \* rule_summary
  files         \* the output directory

vars == <<inputs, pc, outcome, loaded, violations, summary, files>>

run == Len(inputs)
input == inputs[run]

Needs(r) == IF r \in InvoiceRule THEN {"invoice_register"}
            ELSE IF r \in BulkRule THEN {"allocations"} ELSE {}

\* The records run_pipeline hands to a rule.
RecordsFor(inp, r) == inp.records[DatasetOf[r]]

\* R14 is skipped when no record has the column, so also when there is no record.
DatasetHasColumn(inp, r) == inp.dated /\ RecordsFor(inp, r) # {}
Skipped(inp, i) == /\ inp.enabled[i] \in TimingRule
                   /\ ~DatasetHasColumn(inp, inp.enabled[i])

\* An element of the list of violations: the position of the rule in the
\* enabled list (a rule may be enabled twice), the rule and the record.
Finding == [at : Nat, rule : Rule, record : Record]

FailedResults(inp, i) ==
  {[at |-> i, rule |-> inp.enabled[i], record |-> x] :
     x \in {y \in RecordsFor(inp, inp.enabled[i]) :
              <<inp.enabled[i], y>> \in inp.breaches}}

\* Mutant: a rule that was skipped says so in its result, and not in its status alone.
SkippedEntry(r, checked, found, status) ==
  [rule |-> r, checked |-> checked, found |-> found, status |-> status,
   result |-> IF status = "NOT_EVALUATED" THEN status
              ELSE IF found = 0 THEN "PASS" ELSE "VIOLATIONS FOUND"]
SummaryEntry(r, checked, found, status) ==
  [rule |-> r, checked |-> checked, found |-> found, status |-> status,
   result |-> IF found = 0 THEN "PASS" ELSE "VIOLATIONS FOUND"]

(***************************************************************************)
(* What a file on disk holds.  gen = 0 stands for "no such file"; whole is *)
(* false for a file whose writing was cut short.                           *)
(***************************************************************************)
Blank == [gen |-> 0, whole |-> FALSE, found |-> {}, rules |-> <<>>,
          trail |-> <<>>, sources |-> {}]
Doc == [Blank EXCEPT !.gen = run, !.whole = TRUE]

Exists(f) == files[f].gen # 0
Put(f, doc) == files' = [files EXCEPT ![f] = doc]

-----------------------------------------------------------------------------
Init ==
  /\ inputs = <<>>
  /\ pc = "idle"
  /\ outcome = "none"
  /\ loaded = {}
  /\ violations = {}
  /\ summary = <<>>
  /\ files = [f \in File |-> Blank]

Goto(step) == pc' = step /\ UNCHANGED outcome
Finish(how) == pc' = "idle" /\ outcome' = how

\* main(): the next review, in the same output directory.
StartRun(inp) ==
  /\ pc = "idle"
  /\ run < MaxRuns
  /\ inputs' = Append(inputs, inp)
  /\ pc' = "config"
  /\ outcome' = "none"
  /\ loaded' = {}
  /\ violations' = {}
  /\ summary' = <<>>
  /\ UNCHANGED files

\* Every step of a run leaves the earlier inputs alone; most leave the
\* findings alone, and a step that raises leaves the disk alone as well.
Keep == UNCHANGED <<inputs, loaded, violations, summary>>
\* Mutant: an error handler that writes the run log all the same.
LogAndRaise(how) ==
  Finish(how) /\ Keep /\ Put(RunLog, [Doc EXCEPT !.found = violations])
Raise(how) == Finish(how) /\ Keep /\ UNCHANGED files

LoadConfig ==
  /\ pc = "config"
  /\ IF input.valid THEN Goto("datasets") /\ Keep /\ UNCHANGED files
                    ELSE Raise("config_error")

\* Mutant: waiting for the missing files.
AwaitDatasets ==
  pc = "datasets" /\ Dataset \subseteq input.readable /\ Goto("rules") /\ Keep /\ UNCHANGED files
LoadDatasets ==
  /\ pc = "datasets"
  /\ IF Dataset \subseteq input.readable
       THEN Goto("rules") /\ Keep /\ UNCHANGED files
       ELSE Raise("config_error")

(***************************************************************************)
(* The loop over the enabled rules.                                        *)
(***************************************************************************)
position == Len(summary) + 1
AtRule == pc = "rules" /\ position <= Len(input.enabled)

SkipRule ==
  /\ AtRule
  /\ Skipped(input, position)
  /\ summary' = Append(summary, SummaryEntry(input.enabled[position], 0, 0, "NOT_EVALUATED"))
  /\ UNCHANGED <<inputs, pc, outcome, loaded, violations, files>>

\* The supplementary data a rule needs is loaded on first use; a file that
\* cannot be read ends the run.
SupplementUnreadable ==
  /\ AtRule
  /\ ~Skipped(input, position)
  /\ ~ (Needs(input.enabled[position]) \subseteq (loaded \cup input.readable))
  /\ Raise("config_error")

RuleRaises ==
  /\ AtRule
  /\ ~Skipped(input, position)
  /\ Needs(input.enabled[position]) \subseteq (loaded \cup input.readable)
  /\ \E x \in RecordsFor(input, input.enabled[position]) :
       <<input.enabled[position], x>> \in input.raising
  /\ Raise("raw_error")

\* Mutant: the caches are reset inside the loop.
ForgetfulLoad(r) == loaded' = Needs(r)
LazyLoad(r) == loaded' = loaded \cup Needs(r)

EvaluateRule ==
  LET r == input.enabled[position]
      failed == FailedResults(input, position)
  IN /\ AtRule
     /\ ~Skipped(input, position)
     /\ Needs(r) \subseteq (loaded \cup input.readable)
     /\ \A x \in RecordsFor(input, r) : <<r, x>> \notin input.raising
     /\ LazyLoad(r)
     /\ violations' = violations \cup failed
     /\ summary' = Append(summary, SummaryEntry(r, Cardinality(RecordsFor(input, r)),
                                                Cardinality(failed), "EVALUATED"))
     /\ UNCHANGED <<inputs, pc, outcome, files>>

(***************************************************************************)
(* write_report(): validate_violations, then the two report files.  It is  *)
(* called twice, by run_pipeline and again by generate_evidence_pack; the  *)
(* second time the same violations pass the same checks.                   *)
(***************************************************************************)
\* Mutant: all() for any().
AllUnpublishable == \A v \in violations : v.record \in BlankId
Unpublishable == \E v \in violations : v.record \in BlankId

ValidateViolations ==
  /\ pc = "rules"
  /\ position > Len(input.enabled)
  /\ IF Unpublishable THEN Raise("validation_error")
     ELSE Goto("report_md") /\ Keep /\ UNCHANGED files

\* Mutant: the violations of the last rule for those of all rules.
LastRuleReport == [Doc EXCEPT !.found = {v \in violations : v.at = Len(summary)}]
Report == [Doc EXCEPT !.found = violations]

WriteReportMd ==
  /\ \/ pc = "report_md" /\ Goto("report_json")
     \/ pc = "again_md" /\ Goto("again_json")
  /\ Put(ReportMd, Report)
  /\ Keep

Writable == pc \notin input.unwritable

WriterRaises ==
  /\ pc \in Fragile
  /\ ~Writable
  /\ Raise("raw_error")

WriteReportJson ==
  /\ \/ pc = "report_json" /\ Goto("pdf")
     \/ pc = "again_json" /\ Goto("clear_log")
  /\ Writable
  /\ Put(ReportJson, Report)
  /\ Keep

Numeric == \E v \in violations : v.record \in NumericId

GeneratePdfReport ==
  /\ pc = "pdf"
  /\ Writable
  /\ Put(ReportPdf, Report)
  /\ Goto("again_md")
  /\ Keep

\* The PDF library wants text: it may raise on an identifier that is a number, too.
PdfReportRaises ==
  /\ pc = "pdf"
  /\ Numeric
  /\ Raise("raw_error")

(***************************************************************************)
(* generate_evidence_pack(): a fresh audit.log, one line per rule and one  *)
(* for the review, then evidence_pack.md, which quotes the log from disk.  *)
(***************************************************************************)
\* Mutant: the log of the last run is kept.
KeepAuditLog == pc = "clear_log" /\ Goto("append_log") /\ Keep /\ UNCHANGED files
ClearAuditLog ==
  /\ pc = "clear_log"
  /\ Put(AuditLog, Blank)
  /\ Goto("append_log")
  /\ Keep

logged == Len(files[AuditLog].trail)

\* append_to_log opens the file in append mode: it keeps what is there.
Longer(line) == [files[AuditLog] EXCEPT !.gen = run, !.whole = TRUE,
                                        !.trail = Append(@, line)]
AppendToLog(line) == Put(AuditLog, Longer(line))

RuleLine(g, e) == [gen |-> g, event |-> "RULE_RUN", rule |-> e.rule,
                   count |-> e.checked, result |-> e.result]
ReviewLine(g, n) == [gen |-> g, event |-> "REVIEW_COMPLETE", rule |-> "REVIEW",
                     count |-> n, result |-> "REVIEW"]

\* The loop variable seq of the code is one more than the lines appended so far.
LogRuleRun ==
  /\ pc = "append_log"
  /\ logged < Len(summary)
  /\ AppendToLog(RuleLine(run, summary[logged + 1]))
  /\ UNCHANGED <<pc, outcome>>
  /\ Keep

LogReviewComplete ==
  /\ pc = "append_log"
  /\ logged = Len(summary)
  /\ AppendToLog(ReviewLine(run, Cardinality(violations)))
  /\ Goto("pack")
  /\ Keep

Pack == [Report EXCEPT !.rules = summary, !.trail = files[AuditLog].trail]

WriteEvidencePack ==
  /\ pc = "pack"
  /\ Put(EvidencePack, Pack)
  /\ Goto("validate_pack")
  /\ Keep

\* The figures of the pack are computed from the lists they are checked
\* against; what can differ is the disk.
ValidateEvidencePack ==
  /\ pc = "validate_pack"
  /\ Exists(AuditLog) /\ Exists(ReportMd)
  /\ Goto("trail_md")
  /\ Keep
  /\ UNCHANGED files

(***************************************************************************)
(* write_funds_trail(), adapt_full_report(), generate_data_ts() and        *)
(* write_run_log().                                                        *)
(***************************************************************************)
FundsTrail == [Doc EXCEPT !.sources = loaded]

WriteFundsTrailMd ==
  /\ pc = "trail_md"
  /\ Writable
  /\ Put(TrailMd, FundsTrail)
  /\ Goto("trail_json")
  /\ Keep

\* Mutant: a funds trail that exists is not written again.
WriteFundsTrailJsonOnce ==
  /\ pc = "trail_json"
  /\ Writable
  /\ IF Exists(TrailJson) THEN UNCHANGED files ELSE Put(TrailJson, FundsTrail)
  /\ Goto("payload")
  /\ Keep
WriteFundsTrailJson ==
  /\ pc = "trail_json"
  /\ Writable
  /\ Put(TrailJson, FundsTrail)
  /\ Goto("payload")
  /\ Keep

\* adapt_compliance_checks: "status" overrides "result".
\* Mutant: it does not.
ResultBadge(e) == IF e.result = "PASS" THEN "passed" ELSE "failed"
Badge(e) == IF e.status = "NOT_EVALUATED" THEN "not_evaluated"
            ELSE IF e.result = "PASS" THEN "passed" ELSE "failed"
ComplianceChecks(rules) ==
  [i \in DOMAIN rules |-> [rules[i] EXCEPT !.result = Badge(rules[i])]]

FullReport == [Report EXCEPT !.rules = ComplianceChecks(summary), !.sources = loaded]

\* adapt_violations takes the first character of every record identifier.
AdaptFullReport ==
  /\ pc = "payload"
  /\ IF Numeric
       THEN Raise("raw_error")
       ELSE /\ Put(Payload, FullReport)
            /\ Goto("data_ts")
            /\ Keep

\* generate_data_ts reads the payload back from disk.
CopyOfPayload == [Doc EXCEPT !.found = files[Payload].found, !.rules = files[Payload].rules]

GenerateDataTs ==
  /\ pc = "data_ts"
  /\ Put(DataTs, CopyOfPayload)
  /\ Goto("run_log")
  /\ Keep

RunLogData == [Report EXCEPT !.sources = loaded]

WriteRunLog ==
  /\ pc = "run_log"
  /\ Writable
  /\ Put(RunLog, RunLogData)
  /\ Finish("ok")
  /\ Keep

(***************************************************************************)
(* The process is killed, or a write fails (disk full).  The file being    *)
(* written may be left truncated; audit.log, opened to append, keeps its   *)
(* earlier lines.                                                          *)
(***************************************************************************)
Target(step) ==
  CASE step \in {"report_md", "again_md"}     -> {ReportMd}
    [] step \in {"report_json", "again_json"} -> {ReportJson}
    [] step = "pdf"        -> {ReportPdf}
    [] step = "append_log" -> {AuditLog}
    [] step = "pack"       -> {EvidencePack}
    [] step = "trail_md"   -> {TrailMd}
    [] step = "trail_json" -> {TrailJson}
    [] step = "payload"    -> IF Numeric THEN {} ELSE {Payload}
    [] step = "data_ts"    -> {DataTs}
    [] step = "run_log"    -> {RunLog}
    [] OTHER               -> {}

Torn(f) == [Blank EXCEPT !.gen = run,
                         !.trail = IF f = AuditLog THEN files[f].trail ELSE <<>>]

Crash ==
  /\ pc # "idle"
  /\ \/ UNCHANGED files
     \/ Writable /\ \E f \in Target(pc) : Put(f, Torn(f))
  /\ Finish("killed")
  /\ Keep

Step ==
  \/ LoadConfig \/ LoadDatasets
  \/ SkipRule \/ SupplementUnreadable \/ RuleRaises \/ EvaluateRule
  \/ ValidateViolations \/ WriterRaises \/ WriteReportMd \/ WriteReportJson
  \/ GeneratePdfReport \/ PdfReportRaises
  \/ ClearAuditLog \/ LogRuleRun \/ LogReviewComplete
  \/ WriteEvidencePack \/ ValidateEvidencePack
  \/ WriteFundsTrailMd \/ WriteFundsTrailJson
  \/ AdaptFullReport \/ GenerateDataTs \/ WriteRunLog

Next == Step \/ Crash \/ \E inp \in Inputs : StartRun(inp)

Spec == Init /\ [][Next]_vars

\* A process that is not killed keeps executing its statements.
FairSpec == Spec /\ WF_vars(Step)

-----------------------------------------------------------------------------
(***************************************************************************)
(* What a review of an input should say, whatever steps produce it.        *)
(***************************************************************************)
Evaluated(inp) == {i \in 1..Len(inp.enabled) : ~Skipped(inp, i)}
Breaches(inp) == UNION {FailedResults(inp, i) : i \in Evaluated(inp)}
Wanted(inp) == UNION {Needs(inp.enabled[i]) : i \in Evaluated(inp)}

Steps == {"idle", "config", "datasets", "rules", "report_md", "report_json", "pdf",
          "again_md", "again_json", "clear_log", "append_log", "pack", "validate_pack",
          "trail_md", "trail_json", "payload", "data_ts", "run_log"}
Outcomes == {"none", "ok", "config_error", "validation_error", "raw_error", "killed"}

Result == {"PASS", "VIOLATIONS FOUND"}
Badges == {"passed", "failed", "not_evaluated"}
Status == {"EVALUATED", "NOT_EVALUATED"}
Row == [rule : Rule, checked : Nat, found : Nat, status : Status, result : Result \cup Badges]
Line == [gen : Nat, event : {"RULE_RUN", "REVIEW_COMPLETE"}, rule : Rule \cup {"REVIEW"},
         count : Nat, result : Result \cup {"REVIEW"}]
Content == [gen : Nat, whole : BOOLEAN, found : SUBSET Finding, rules : Seq(Row),
            trail : Seq(Line), sources : SUBSET Supplementary]

\* Types, and: every file on disk is the work of a run that has started, and the
\* summary, like the lines of audit.log, knows two results: a rule that was skipped has
\* one of them (run.py:148, "their output format must not change").
TypeOK ==
  /\ inputs \in Seq(Inputs) /\ run <= MaxRuns
  /\ pc \in Steps /\ (pc # "idle" => run > 0)
  /\ outcome \in Outcomes
  /\ loaded \subseteq Supplementary
  /\ violations \subseteq Finding /\ IsFiniteSet(violations)
  /\ summary \in Seq(Row) /\ \A i \in DOMAIN summary : summary[i].result \in Result
  /\ files \in [File -> Content]
  /\ \A f \in File : files[f].gen <= run /\ (files[f].whole => Exists(f))

(***************************************************************************)
(* run_log.json seals a review: once it is on disk for run g, every other  *)
(* file is of run g, complete, or was overwritten by a later run; the      *)
(* audit log is complete unless a later run has got past its own PDF.      *)
(* What would break it: a run log written before the last artefact, an     *)
(* artefact that is not rewritten by every run.                            *)
(***************************************************************************)
SealedBy(g) ==
  /\ \A f \in File \ {AuditLog} : /\ files[f].gen >= g
                                  /\ files[f].gen = g => files[f].whole
  /\ \/ /\ files[AuditLog].gen = g /\ files[AuditLog].whole
        /\ Len(files[AuditLog].trail) = Len(inputs[g].enabled) + 1
     \/ files[ReportPdf].gen > g
SealedOutput == files[RunLog].whole => SealedBy(files[RunLog].gen)

(***************************************************************************)
(* audit.log never mixes two runs: it is a prefix of one run's lines, one  *)
(* per enabled rule in order and then REVIEW_COMPLETE; a rule reads PASS   *)
(* only if none of its records failed.  evidence_pack.md, which reads the  *)
(* log back from disk, always quotes all of its own run's lines.           *)
(***************************************************************************)
Passes(inp, i) == i \in Evaluated(inp) => FailedResults(inp, i) = {}
IsTrailOf(t, g, inp) ==
  LET n == Len(inp.enabled)
  IN /\ Len(t) <= n + 1
     /\ \A i \in 1..Len(t) : t[i].gen = g
     /\ \A i \in 1..Len(t) : i <= n => /\ t[i].event = "RULE_RUN"
                                       /\ t[i].rule = inp.enabled[i]
                                       /\ (t[i].result = "PASS") <=> Passes(inp, i)
     /\ Len(t) = n + 1 => /\ t[n + 1].event = "REVIEW_COMPLETE"
                          /\ t[n + 1].count = Cardinality(Breaches(inp))
AuditTrailIsOneRun ==
  LET log == files[AuditLog]
      pack == files[EvidencePack]
  IN /\ Exists(AuditLog) => IsTrailOf(log.trail, log.gen, inputs[log.gen])
     /\ pack.whole => /\ IsTrailOf(pack.trail, pack.gen, inputs[pack.gen])
                      /\ Len(pack.trail) = Len(inputs[pack.gen].enabled) + 1

(***************************************************************************)
(* Every artefact that states findings states exactly the breaches of its  *)
(* own run's input: complete (no failing record of an evaluated rule is    *)
(* lost) and traceable (nothing else is reported), in the JSON, Markdown,  *)
(* PDF, pack, web payload, data.ts and run log alike.                      *)
(***************************************************************************)
TraceableFindings ==
  \A f \in File \ {AuditLog, TrailMd, TrailJson} :
    files[f].whole => files[f].found = Breaches(inputs[files[f].gen])

(***************************************************************************)
(* The badges of the web results (and data.ts): green only for a rule that *)
(* was evaluated and that the same file reports no violation of, "not      *)
(* evaluated" exactly for a skipped rule.                                  *)
(***************************************************************************)
BadgesAreEarned ==
  \A f \in {Payload, DataTs} : files[f].whole =>
    LET inp == inputs[files[f].gen]
        rules == files[f].rules
    IN /\ DOMAIN rules = 1..Len(inp.enabled)
       /\ \A i \in DOMAIN rules :
            /\ (rules[i].result = "not_evaluated") <=> (i \notin Evaluated(inp))
            /\ (rules[i].result = "passed") <=>
                 (i \in Evaluated(inp) /\ ~\E v \in files[f].found : v.at = i)

(***************************************************************************)
(* The funds trail, the web payload and the run log show the supplementary *)
(* data the evaluated rules asked for, all of it and nothing else, in      *)
(* whatever order the rules are enabled.                                   *)
(***************************************************************************)
SourcesAreThoseOfTheRules ==
  \A f \in {TrailMd, TrailJson, Payload, RunLog} :
    files[f].whole => files[f].sources = Wanted(inputs[files[f].gen])

(***************************************************************************)
(* A review with a violation that names no record (check 1a of validation) *)
(* leaves nothing on disk, at any later time, not even a torn file.        *)
(***************************************************************************)
UnpublishableLeavesNoTrace ==
  \A f \in File : Exists(f) =>
    \A v \in Breaches(inputs[files[f].gen]) : v.record \notin BlankId

(***************************************************************************)
(* Every run ends, and a run on a sound input that nobody kills ends with  *)
(* its output sealed.                                                      *)
(***************************************************************************)
EveryRunEnds == (pc # "idle") ~> (pc = "idle")

Sound(inp) ==
  /\ inp.valid
  /\ Dataset \cup Wanted(inp) \subseteq inp.readable
  /\ inp.raising = {} /\ inp.unwritable = {}
  /\ \A v \in Breaches(inp) : v.record \notin NumericId \cup BlankId
SoundRunsAreSealed ==
  \A g \in 1..MaxRuns :
    (run = g /\ pc = "config" /\ Sound(input)) ~>
      (outcome = "killed" \/ (files[RunLog].whole /\ files[RunLog].gen = g))

(***************************************************************************)
(* The abstract review (module Review): a certificate, run_log.json, that  *)
(* is void or states exactly the breaches of the input it names.           *)
(***************************************************************************)
certificate == IF files[RunLog].whole
               THEN [run |-> files[RunLog].gen, found |-> files[RunLog].found]
               ELSE [run |-> 0, found |-> {}]
Certified == INSTANCE Review
  WITH Answer <- Breaches, busy <- (pc # "idle")
ReviewSpec == Certified!Spec
=============================================================================
