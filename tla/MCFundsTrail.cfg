SPECIFICATION Spec
CONSTANTS
  Id <- MCId
  FirstDay <- MCFirstDay
  Trails <- MCTrails
  NumberId <- MCNumberId
INVARIANTS
  TypeOK
  ReceiptsAgreeWithR12
  PaymentsAgreeWithRules
  MoneyIsConserved
  SummariesCountRows
\* The pass ends.
CHECK_DEADLOCK FALSE
