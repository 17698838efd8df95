SPECIFICATION Spec
CONSTANTS
  Id <- MCId
  FirstDay <- MCFirstDay
  Thresholds <- MCThresholds
  Parts = 2
  RoundedUp <- MCRoundedUp
  AllBooks <- MCFeeBooks
  ReportDates <- MCReportDates
INVARIANT
  FeeRulesAsDocumented
