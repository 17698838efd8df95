SPECIFICATION Spec
CONSTANTS
  Heading <- MCHeading
  IdField = "id"
  FloatFields <- MCFloatFields
  DateFields <- MCDateFields
  ComputedDateFields <- MCComputed
  Folders <- MCFolders
  ColumnMaps <- MCColumnMaps
INVARIANT
  SheetRowsAreNamed
CHECK_DEADLOCK FALSE
