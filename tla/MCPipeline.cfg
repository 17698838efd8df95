SPECIFICATION FairSpec
CONSTANTS
  Rule <- MCRule
  InvoiceRule = {"R08"}
  BulkRule = {"R12"}
  TimingRule = {"R14"}
  Dataset <- MCDataset
  DatasetOf <- MCDatasetOf
  Record <- MCRecord
  NumericId = {"N7"}
  BlankId = {"E0"}
  Inputs <- MCInputs
  MaxRuns = 2
INVARIANTS
  TypeOK
  SealedOutput
  AuditTrailIsOneRun
  TraceableFindings
  BadgesAreEarned
  SourcesAreThoseOfTheRules
  UnpublishableLeavesNoTrace
PROPERTIES
  EveryRunEnds
  SoundRunsAreSealed
  ReviewSpec
\* Between reviews nothing has to happen.
CHECK_DEADLOCK FALSE
