SPECIFICATION Spec
CONSTANTS
  Heading <- MCHeading
  IdField = "id"
  FloatFields <- MCFloatFields
  DateFields <- MCDateFields
  ComputedDateFields <- MCComputed
  Folders <- MCFolders
  ColumnMaps <- MCColumnMaps
INVARIANTS
  TypeOK
  LoadedRowsAreTyped
  RowsBecomeRecords
  MessagesNameTheFault
CHECK_DEADLOCK FALSE
