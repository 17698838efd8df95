SPECIFICATION Spec
CONSTANTS
  Rule <- MCRule
  InvoiceRule = {"R08"}
  BulkRule = {"R12"}
  TimingRule = {"R14"}
  Dataset <- MCDataset
  DatasetOf <- MCDatasetOf
  Record <- MCRecord
  NumericId = {"N7"}
  BlankId = {"E0"}
  Inputs <- MCInputs
  MaxRuns = 2
INVARIANT
  OutputIsAfresh
CHECK_DEADLOCK FALSE
