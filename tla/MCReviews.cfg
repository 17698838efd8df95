SPECIFICATION Spec
CONSTANTS
  Id <- MCId
  FirstDay <- MCFirstDay
  Thresholds <- MCThresholds
  Parts = 2
  RoundedUp <- MCRoundedUp
  AllBooks <- MCAllBooks
  ReportDates <- MCReportDates
INVARIANTS
  TypeOK
  FeesAreBacked
  DeadlineIsStatutory
PROPERTIES
  WiderFindsMore
