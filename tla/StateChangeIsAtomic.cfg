SPECIFICATION Spec
CONSTANTS
  Record <- MCRecord
  Caller = {"c1", "c2", "c3"}
  OwnerOf <- MCOwnerOf
  DryRun = {"c3"}
  MaxState = 3
  MaxLines = 3
INVARIANT
  StateChangeIsAtomic
