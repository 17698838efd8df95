# Formal model of the trust-account integrity engine

TLA+ modules, TLC model-checking runs and TLAPS proofs for the Python program
in this repository: a pipeline that reviews the books of a law firm's trust
account against thirteen rules and writes ten artefacts, a web application
around it, and a small generic engine below it. Paths are relative to `src/`.

## 1. Inventory

| Component | State it keeps | Operations | Interacts with | What makes it correct |
|---|---|---|---|---|
| Review pipeline, `run.py` | loaded data sets, lazily loaded registers, list of violations, rule summary; the output directory | `main`, `run_pipeline` | configuration, loader, rules, every writer; runs share one output directory | the run log vouches for everything else on disk; findings are complete and traceable |
| Report writers, `trust_domain/reports/` | none but the files | Markdown, JSON, PDF, audit log, evidence pack, funds trail, payload, `data.ts`, run log | read `audit.log` and the payload back from disk | no artefact mixes two runs; badges are earned |
| Output validation, `output_validator.py` | none | `validate_violations`, `validate_evidence_pack` | called by writers, raises `ValidationError` | an unpublishable review leaves nothing behind |
| Configuration, `trust_domain/config/` | none | `load_config`, `validate_config` | the pipeline, `_build_toml` of the web application | a bad file is refused before anything is written |
| Trust rules, `trust_domain/rules/` | thresholds captured by closures | R01 to R10, R12 to R14, `apply_sensitivity`, `load_trust_rules_from_config` | the loop of the pipeline; `StalenessChecker` | rules divide the cases without gap or overlap; thresholds are monotone; deadlines are right |
| Funds trail, `funds_trail.py` | rows and six counters during one pass | `build_funds_trail`, Markdown rendering | reads the same data as R07 to R12, repeats their logic | agrees with the rules; loses no money; figures can be counted |
| Ingestion, `trust_domain/ingestion/loader.py` | none | `load_file_mapped` | the pipeline, once for every data set | no row is lost or shifted, whatever the columns are called; records are typed as the rules take for granted; a message leads to the faulty cell |
| Audit-trail writer, `audit_trail/writer.py` | notes and an append-only log on disk | `create_note`, `sync_note`, `append_to_log`, `record_state_change` | the pipeline (log only), the domain layer | a call that returned is recorded; log and notes agree |
| Web application, `app.py` | `_RUNS` in memory, work directories on disk | form, run, results, three downloads | runs the pipeline on one of four threads | links work; results are one's own; client data is cleaned up |
| Replay engine, `replay/engine.py` | six totals and four lists during one replay | `ReplayCorpus.load`, `run_replay`, `get_current_rule_set` | runs the rules itself; tests/test_replay_monotonicity.py makes its scores a gate of the build | it measures what clients run; the gate lets nothing slip; totals are those of the lists |
| Generic engine, `integrity_engine/{consistency,rules,stats,core}` | none | consistency of two paths, rule gates, bins | called by its own tests only | not modelled, see section 5 |
| Text sanitising, synthetic data, packaging | none | - | - | not modelled, see section 5 |

The hard behaviours, and where they bite:

- **Crashes and partial failure.** The output directory outlives the process.
  Ten files are written one after another, an exception or a kill may come
  between or within any two, and the files of earlier runs stay.
- **Files read back from disk.** The evidence pack quotes `audit.log`, `data.ts`
  is made from the payload: a stale file would be copied silently. `audit.log`
  is unlinked and then appended to.
- **Lazy, cached supplementary data**, loaded in the middle of the loop over the
  rules, in an order that depends on the configuration.
- **Threads.** Four threads of one worker run reviews at the same time; the
  registry is in memory and the work directories are on disk, so a restart
  loses one and not the other.
- **Logic that exists twice.** R07 to R10 each repeat the others' guards to
  leave them their cases; the funds trail repeats R07 to R12; the replay engine
  repeats thresholds, data sets and the dispatch of rules.
- **Two ways to count.** Lines without a value are dropped before rows are
  numbered, blank rows after; two dicts rename the columns of a row.
- **Cells that are not there, or not text.** A column the loader does not ask for, a
  blank cell of a workbook, a number where text is meant and markup in text each
  have their own outcome in rules, trail, PDF and JSON.
- **Boundaries.** Ages equal to a limit, rounding of scaled thresholds, months
  that start on a weekend, December to January, blank cells, duplicate keys.

`PROJECT.json` lists each hazard at its line with the properties that cover it.

## 2. Modules

| Module | Models | State and actions |
|---|---|---|
| `Pipeline` | `run_pipeline`, `main`, every writer | `inputs`, `pc`, `outcome`, `loaded`, `violations`, `summary`, `files`; one action per writer and per way through the loop over the rules, `StartRun`, `Crash` |
| `Review` | abstract specification of a sequence of reviews | `inputs`, `busy`, `certificate`; `Begin`, `Certify`, `Fail` |
| `TrustRules` | the predicates of the thirteen rules, `check_age` | operators only |
| `RuleSet` | books, sensitivity, the construction of the rules from thresholds | operators only |
| `Reviews` | the loop over the rules, on given books | `books`, `asAt`, `mode`, `outcome`, `findings`; `Review` |
| `FundsTrail` | `build_funds_trail` | position in two loops, rows, counters; one action per way through a loop body |
| `WebApp` | `app.py` on several threads and a restart of the worker | `requests`, `answer`, `page`, `thread`, `made`, `disk`, `runs`; one action per step of a handler, `Restart` |
| `Replay` | `run_replay`, `ReplayCorpus.load`, the shipped rule set | `corpus`, `ruleSet`, `position`, `score`, four lists; `Load`, `ScoreSnapshot`, `SnapshotRaises`, `Return` |
| `Ingestion` | `load_file_mapped` on one data set | `folder`, `columnMap`, `line`, `index`, `records`, `blanks`, `outcome`, `error`; one action per way to fail and per way a line can go |
| `AuditTrail` | `AuditWriter` with several callers | `db`, `note`, `log`, `call`, `told`; one action per file operation, `Raise`, `Kill` |
| `MC*`, `SampleBooks` | instances for TLC | data only |
| `PipelineClaims`, the last part of `MCReviews`, `MCAuditTrail` and `MCIngestion` | sentences of the documentation that do not hold | properties only |
| `*Proofs` | theorems | - |
| `Recursion` | lemmas on induction, recursion and running totals, for the proofs | - |

How they fit: `Reviews` and `FundsTrail` both build on `TrustRules`, so that the
trail is compared with the very predicates the reviews use; `Reviews` and
`Replay` both build on `RuleSet`, so that a replay is compared with the review it
stands for. `Ingestion` starts from a sheet and ends with the records `TrustRules`
starts from: `LoadedRowsAreTyped` is what the fields of `Matter`, `Entry`, `Line`
and the other records there take for granted. `Pipeline` takes
what a rule says of a record as a relation in its input (`breaches`, `raising`)
and models what becomes of it; `Reviews` computes it and takes the rest of a
review as one step. `WebApp` sees a review as: reads its input directory,
writes into its output directory, returns or raises. `Pipeline` implements
`Review` under the refinement mapping at its end (the run log is the
certificate).

### Correspondence and abstractions

`PROJECT.json` "map" gives the lines of every definition. What is abstracted:

- *Pipeline.* A record is its identifier; a file is the number of the run that
  wrote it and the findings, rule rows, audit lines and sources it shows; text
  and layout are left out. A file cut short is `whole = FALSE`. A partial last
  line of `audit.log` counts as no line. The two report files that
  `write_report` produces are written a second time by the PDF step, as in the
  code. `Crash` may happen at every statement, and may tear the file being
  written. A numeric identifier (an `.xlsx` cell) makes the PDF or the web
  adapter raise, as in the code. An empty one, or 0, fails validation. Every other
  value on which a writer raises is `unwritable` in the input, a set of writers:
  markup that does not parse in the PDF (`pdf_report.py:192-197`), a date of the
  TOML or of a cell in the JSON files and the run log, and whatever stops
  `build_funds_trail` (module `FundsTrail` says what). `WriterRaises` ends the run
  before the writer opens its file. An input is `Sound` if no writer raises on it;
  of every other the invariants still hold.
- *TrustRules.* Amounts are cents and dates are days; day 0 is a Monday. A blank
  amount is 0 for every rule but R03 and R04, which tell the two apart. A
  description is whether it names a fee; a reference is `NoId` unless it is
  of the form `INV-NNNNN`; either may be no text (`NoText`: None, a number), on which
  `lower()` and `strip()` raise in R07 to R10. A matter may be blank (`NoId`), None
  (`Null`, a blank cell of a workbook) or not there at all (`NoField`: no such
  column): `MatterGet` is `data.get` with the default of each caller, which is the
  same for entry and invoice in R08 and the trail and not in R09 and R10. R03's cross-check with the bank statement is off in
  `run.py:194` and left out. `bulkMin` is given in `Parts` parts of a cent, any number of
  them, and scaled to the nearest cent; `RoundedUp` says which of the amounts halfway
  between two cents go up, as Python's rounding of a float may do either. TOML's
  `nan` and `inf`, which the loader lets through, are left out. Registers are dicts in the code: `Lookup` takes the last of
  several rows with one identifier. R02 and R04 to R06 share one `CheckAge`,
  which raises on a blank date as `date.fromisoformat("")` does.
- *Reviews.* All thirteen rules are enabled. A rule that raises ends the review.
- *Replay.* A snapshot's entries are rows of all data sets in one list, as in the
  JSON; `readable` is FALSE where parsing or `from_dict` raises. Rows of one data
  set may share an identifier, which collapses them in the set of flagged
  records, as in the code. R14's skip is left out: without any
  reconciliation_date it passes every row. A rule listed with no records can
  never be satisfied, since only rules that flag something enter the result;
  a snapshot that expects nothing has no record-level score. Mismatches, a list
  in order of snapshots and rules, are a set. Ratios are pairs; the gate compares
  them without rounding.
- *Ingestion.* A cell is a kind and a value: a figure is a number in text, an iso
  or dmy text a date; a nodate has the form of a date and is none, such as
  31/02/2026. `float()` also accepts nan and inf, which are numbers here. The
  code reads all lines, renames all rows and then casts one after another; the
  model reads a line when it is cast, which no one can tell. `readable` is FALSE
  where the file is not UTF-8 or the workbook does not open: neither is caught,
  so a raw exception escapes, as it does if the message about a missing column
  sorts headings that are numbers and text mixed. Of two columns renamed to one
  field the later place wins without a message; `OneToOne` leaves such files out
  of the properties about cells, `LoadedRowsAreTyped` includes them. The row
  in a message does not count lines without any value above it, although the code
  says that it is the spreadsheet's: run `sheet_rows`. `MessagesNameTheFault` says
  what is true of a message: its column is that of the first fault, and its row is
  too low by exactly the lines dropped above.
- *FundsTrail.* Rows carry the position of their line or entry, which the code
  does not keep, so that properties can relate them. The rows of all matters are
  in one list with the matter as a field; the code keeps a list per matter, and
  sorts them by matter in the end: `NumberId` are the identifiers that are numbers,
  which Python does not order with text or None. A matter numbered 0 is left out.
  Where the code raises, on a description or reference that is no text or in
  `sorted`, the pass ends in `leg = "raised"`.
- *WebApp.* A run id stands for the output directory it was drawn for, a random UUID
  being taken as unique. What `run_pipeline` does wrong inside is
  `sound = FALSE` in the form. `rmtree(ignore_errors=True)` is assumed to
  remove the directory.
- *AuditTrail.* The state of a record is a number its one owner increments
  before it calls the writer. A write of a note may be torn by an exception or
  a kill; appending one line is atomic.

## 3. Runs

| Run | Distinct states | Shows |
|---|---|---|
| `pipeline` | 44,696 | two reviews in one directory, each on one of fourteen inputs and possibly killed anywhere: `SealedOutput`, `AuditTrailIsOneRun`, `TraceableFindings`, `BadgesAreEarned`, `SourcesAreThoseOfTheRules`, `UnpublishableLeavesNoTrace`, `EveryRunEnds`, `SoundRunsAreSealed`, and that it implements `Review` |
| `web_app` | 15,263 | two forms of six kinds on two threads of one worker that restarts at any time: `LinksWork`, `ResultsAreOnesOwn`, `WorkDirsAreAccountedFor`, `RegisteredRunsAreImmutable`, `EveryFormIsAnswered` |
| `audit_trail` | 38,960 | two owners and a dry-run caller, exceptions and kills: `ReturnedMeansRecorded`, `LogFollowsNotes` |
| `reviews` | 2,907 | successive reviews of 153 sets of books at six dates and three sensitivities: `WiderFindsMore`, `FeesAreBacked`, `DeadlineIsStatutory` |
| `replay` | 4,760 | the shipped rule set at three sensitivities, and four other rule sets, on corpora of up to two snapshots: `ReplayMeasuresReviews`, `GateIsExact`, `ScoresMatchTheLists` |
| `ingestion` | 201,686 | every sheet of up to three lines, from eight lines of text or five of a workbook, under thirteen rows of headings and six column maps: `LoadedRowsAreTyped`, `RowsBecomeRecords`, `MessagesNameTheFault` |
| `funds_trail` | 102,151 | the trail of some fourteen thousand statements, allocations, ledgers and registers: `ReceiptsAgreeWithR12`, `PaymentsAgreeWithRules`, `MoneyIsConserved`, `SummariesCountRows` |

Five runs show where the program does not do what its own text says:

| Run | Text | What happens |
|---|---|---|
| `mixed_directory` | docs/DATA_HANDLING_BOUNDARY.md:40, output "generated afresh on each run" | a run that fails midway leaves its exception report next to the evidence pack and run log of the run before |
| `state_change` | writer.py:144, "atomically" | an exception or kill between note and log leaves the note ahead |
| `rule_blows_up` | loader.py:11-14, no raw exception for bad data | a blank amount in an old unmatched bank line, or a blank date in an unmatched line or unreconciled entry, makes R04 or R05 raise `TypeError` or `ValueError`, a description or reference that is no text makes R07 to R10 raise `AttributeError`, and no finding of any rule is reported |
| `fee_rules` | r09:12 (and r10), a fee without a same-matter invoice is "R08's domain"; r08:7 (and r09, r10), `payment_nzd > 0` | in books without a `matter_ref` column R08 passes such a fee and R09 and R10 leave it to R08: a fee above or before its invoice is reported by nobody; negative payments are reported |
| `sheet_rows` | loader.py:122 and :355, "matching Excel" | lines without any value are not counted, so a message names a row above the faulty one |

Two more need no model checker, as one path through the code shows them:
docs/ONBOARDING.md:146 speaks of a run log with `validation_passed: false`, but a
`ValidationError` leaves `run_pipeline` before the log is written and `run.py:296`
knows only `True`; and app.py:9 calls two uploads optional, but `_build_toml` enables
the rules that read them, so a form without them ends in a pipeline error. Both are
in the models (`ValidateViolations`, `Succeeds`).

### Bounds, and why they are enough

- `pipeline`: `MaxRuns = 2`. What a directory shows is a relation between a run
  and the newest earlier one that wrote each file, and the theorems hold for any
  number of runs. One rule of each kind that `run_pipeline` tells apart (plain,
  invoice, bulk, timing), one of them enabled twice in one input; a record that
  several rules fail, a numeric and a blank identifier; for each of the five writers
  that may raise on a value an input with such a value.
- `web_app`: two threads and two forms suffice for a thread to work while
  another publishes, fails or cleans up; one worker, as `render.yaml` sets.
  With two workers `LinksWork` fails, as docs/LESSONS.md:11 says it did; with one it
  is proved for any number of threads and forms.
- `audit_trail`: three states let two changes of one record follow its creation,
  three log lines let the lines of two records interleave. `MaxState` and
  `MaxLines` are guards on the callers, not on the writer.
- `reviews`: the books contain records on both sides of every threshold, at
  odd and even settings (the rounding cases), and a bulk minimum of which two
  sensitivities are rounded, one of them from halfway; every combination of payment
  (negative, zero, covered, too high), reference and date against registers
  with no, one and duplicate invoices, and entries and invoices with and without
  matters against each other; cells that are no text; a reconciliation on every day around five
  deadlines, of months that start on different days, one a January.
- `funds_trail`: credits below, at and above what two allocations can reach,
  negative ones, allocations to known and unknown entries, of the line, of the
  other line and of both; two lines and two entries that may share an identifier;
  matters that are texts, numbers, blank or not there; cells on which the pass raises.
  The legs share no state but the ledger and are varied separately.

- `replay`: snapshots with each rule right, missed, fired without being expected,
  and right on the wrong records; unreadable and inconsistent ones, an unknown
  data set, a row on which a rule raises; two specs of one rule. Two snapshots let
  totals add up and the gate be passed (checked by asking TLC for a corpus that
  passes it).
- `ingestion`: one field of each kind (identifier, amount, date), a text and an
  unknown column; lines that are empty, blank, short, long, good, without
  identifier and with each kind of bad cell; headings in several orders, alike, missing
  or blank; column maps that rename, swap, turn three names round, give one column to
  two fields or name a column that is not there; three lines let a dropped
  and a blank one precede a faulty one.

### Fairness

`Pipeline` assumes `WF_vars(Step)`: a process that nobody kills executes its next
statement (no step waits for anything). `Crash` and `StartRun` are not fair.
`WebApp` assumes `WF_vars(Handle(t))` for every thread, since the operating
system runs every thread of a live worker and no handler takes a lock; a
request, a visit, a failed write and a restart are not fair. The other
modules have no liveness properties.

`CHECK_DEADLOCK FALSE` appears where the system may stop: between reviews once
`MaxRuns` is reached, and after `build_funds_trail` has returned.

## 4. Proofs

All theorems are about every value of the constants, under the named assumptions
in the modules, which say that the constants have the types the code gives them
and that what the code enumerates is finite:

| Module | Assumptions |
|---|---|
| `Pipeline` | `SubsetAssumption`, `DatasetAssumption`, `FiniteAssumption`, `InputAssumption`, `BoundAssumption` |
| `RuleSet`, which `Reviews` and `Replay` extend | `ThresholdAssumption`: limits in days are positive and the bulk minimum is not negative, as `config/loader.py:83-108` checks |
| `Reviews` | `BooksAssumption`, `DateAssumption` |
| `TrustRules`, which `RuleSet` and `FundsTrail` extend | `CalendarAssumption`: a month has a number and its first day is a day; `IdAssumption`: the values for cells that are blank or not there are no identifiers |
| `Replay` | `CorporaAssumption`, which includes that a snapshot lists finitely many records, `RuleSetsAssumption`, `DefaultsAssumption` |
| `Ingestion` | `FieldsAssumption`, `FoldersAssumption`, `MapsAssumption` |
| `FundsTrail` | `TrailsAssumption`, `NumbersAssumption` |
| `WebApp` | `ThreadAssumption`, `SaveAssumption`, `UploadAssumption`, `PostAssumption` |
| `AuditTrail` | `OwnerAssumption`, `BoundAssumption` |

- **`PipelineProofs`**, in two parts. `TypeCorrect` and `OutputIsSealed`:
  `SealedOutput` is not inductive, since nothing in it says how far the current run
  has got. `SealInv` adds that (`Underway`), that files are nested by generation in
  the order a run completes them (`Nested`), that a torn file is of the newest run
  (`TornIsNew`), and what the seal says of the log (`LogIsSealed`).
  `FindingsAreTraceable`, `SourcesAreWanted`, `UnpublishableIsNeverWritten`,
  `BadgesAreHonest`, `AuditTrailIsNeverMixed`: `FindingsInv` relates the accumulated
  lists to the rules considered so far; `FileStep` says that a step leaves a file
  alone, tears it, or makes it state those lists; `LogInv` does the same for the
  lines of `audit.log`. The last theorem, `Implementation`, is the refinement,
  `Spec => ReviewSpec`: only `WriteRunLog`, or a crash in it, changes the certificate.
- **`WebAppProofs`**: `TypesHold`, `NobodySeesAnothersBooks`, `NothingIsLeftBehind`,
  `RunsStayAsTheyAre` and, with one worker, `LinksLeadToResults`, for any number of
  threads, forms and data sets. What a browser is told says nothing of a request
  that is going on, so the invariant follows one from the form to the redirect:
  what its thread has put in its directory at each step (`InHand`), that no two
  share a directory or a form (`DirsApart`, `RequestsApart`), that a registered
  directory belongs to an answered form or to one about to be (`Registered`), and
  that a link leads to some worker that has the run (`Linked`). That a directory is
  left for every form (`DirsFit`) counts the forms that wait for one. One worker is
  the hypothesis of `LinksLeadToResults` only; the other four need none.
- **`AuditTrailProofs`**: `TypesHold`, `ReturnsAreKept`, `LogIsBehind`.
  `InCall` adds that the record of a call that is going on is its caller's own, so
  that nobody else writes its note or its lines, and how far the note has followed
  the data base. The single owner of a record is `OwnerAssumption`; without it two
  calls for one record could cross.
- **`ReviewsProofs`**: `WiderReviewsFindMore`, `FeesDivide`, `TypesHold`,
  `DeadlineHolds`. `FeesDivide` states the division of the fees with the exception the
  code has, an invoice without a matter. The invariant says that findings are a function of books, date and
  sensitivity; the rest is that scaling is monotone whatever part of a cent is rounded
  and whichever way ties go (`RoundingGrows`), that each rule is monotone in date and limit, and that R04 cannot raise on a line it once
  failed. For the deadline, the walk of R14 over the days of a month is a running
  count (`DaysAreCounted`) of which every seven days in a row contribute five
  (`FiveInSeven`): the tenth working day is found within a fortnight whatever day the
  month starts with, and the day the code returns is that one (`LastIsNth`).
- **`ReplayProofs`**: `MeasuresReviews`, `GateLetsNothingSlip`, `ReplayIsTyped`,
  `TotalsAreThoseOfTheLists`. Rule by rule, the spec that `get_current_rule_set` writes
  and the data sets that `_fired_records` hands out give the verdicts of a review
  (`SameVerdicts`); the invariant carries this over the loop, since what has been
  entered for a snapshot is never changed. The scores need a second invariant, `SInv`:
  that true positives and false negatives together are the expected pairs is not
  inductive without what has fired, so it counts expected and fired rules of the
  snapshots entered next to the lists (`RuleScores`), and the records missed or
  unexpected in the mismatches (`RecordScores`). That the rows of a rule can be
  listed without repetition (`RowsAreListed`) makes them finite, and adding what one
  snapshot enters to what is there (`JoinAdds`) adds the cardinalities.
- **`IngestionProofs`**: `EveryLineIsCounted`, `RulesGetTypedRecords`, `NoRowIsLost`,
  `FaultsAreNamed`. If columns and fields are one to one, the two dicts a
  row goes through lose nothing (`OneColumn`), so what the code asks of a row is
  what a reader asks of the line; the invariant then counts along the sheet.
- **`FundsTrailProofs`**: `TrailAgreesOnPayments`, `TrailAgreesOnReceipts`,
  `TrailConservesMoney`, `TrailCountsItsRows`, `TrailIsTyped`. The first invariant says
  that the payment rows are those of the fees seen so far, one each; the cascade of
  `_payment_fields` and the predicates of R07 to R10 then agree entry by entry,
  because a register has at most one invoice for an identifier, except for an invoice
  without a matter, of which the trail compares amount and date and the rules do not.
  The second, `RInv`,
  says that every receipt row has the status of its line, that the rows of a
  line add up to its proceeds (`ReceiptRows`), and that each counter is the number of
  rows or lines it stands for. An untraced line adds up by itself; an allocated one
  because its allocations are gathered in order (`PortionsAreGathered`) and their
  amounts, which R12 sums, are those of the rows (`PortionsAddUp`).
- **`Recursion`**: what the last proofs share. The library states induction and
  recursion over operators, which no installed prover can instantiate; here they are
  stated over sets and functions: a set that holds 0 and passes from each number to the
  next holds all up to n (`UpTo`), and a step function has a sequence of iterates
  (`ByRecursion`). From these, facts about running totals: that they exist, agree where
  the summands agree, and stay where the summands are zero. Loops of the code that
  proofs speak of are recursive functions in the modules: `PortionsUpTo` and the
  totals in `FundsTrail`, `RowsUpTo` in `Replay`, `WorkingDaysFrom` in `TrustRules`.

Every invariant and every action property of the passing runs, and the refinement,
is thus a theorem. Only model-checked are the three liveness properties
(`EveryRunEnds` and `SoundRunsAreSealed` of `Pipeline`, `EveryFormIsAnswered` of
`WebApp`): they rest on fairness, hence on `ENABLED`, which this prover cannot treat.

The inductive invariants (`SealInv`, `FindingsInv`, `LogInv`, `RInv`, `SInv` and each
`IInv`) were checked by TLC on the instances of the runs as well;
for `IngestionProofs` with sheets of up to two lines, as `IInv` is slow to
evaluate. The configurations list only the properties themselves.

## 5. What is not modelled, and why

- `integrity_engine/{consistency,rules,stats,core}` beyond `StalenessChecker`: pure
  functions without state that only their own tests call; a model of them would
  say again what they compute.
- Writing a snapshot (`LedgerSnapshot.to_json`): a snapshot is what
  `ReplayCorpus.load` reads.
- `trust_domain/reports/sanitize.py`, PDF layout, Markdown wording, HTML
  templates: conversions on characters, about which no property is stated.
- `trust_domain/synthetic/`, `data/*.py`, `setup.py`, docs and tests: no part of
  a review. The generators draw at random and are run by hand.
- The checks of `output_validator.py` that compare counts with the lists they
  were computed from: they hold by construction of `run_pipeline`.
- TOML parsing and the messages of `load_config`: accepted or rejected.
- R11, which the code does not have, and R03's cross-check with the bank
  statement, which `run.py:194` turns off.

## 6. Plan

Done, in this order: `Pipeline` with `Review` (the core), its proofs, `WebApp`,
`AuditTrail`, `TrustRules` with `Reviews`, `FundsTrail`, the proofs of the last
two, `Replay` and `Ingestion` with theirs, the proofs of `AuditTrail` and
`WebApp`, then `Recursion` and what it made provable: the deadline of R14, the receipts,
money and counters of the funds trail, the totals of the replay.

Left:

1. The composition of `Ingestion` and `Reviews`, so that `rule_blows_up` starts from
   blank cells of a sheet and not from the records they become.
2. Two columns renamed to one field, as a theorem of its own next to the properties
   that leave it out.
3. The composition of `FundsTrail` and `Pipeline`, so that `unwritable` follows from
   the rows of a trail and is not part of the input.

## 7. Running it

    tlc -config MCPipeline.cfg MCPipeline.tla
    tlapm PipelineProofs.tla

and likewise for the other runs, whose module and configuration are in
`PROJECT.json`. Every property of a passing run has a mutant there: a plausible
bug of the code under which TLC finds that property violated.
