SPECIFICATION Spec
CONSTANTS
  Id <- MCId
  FirstDay <- MCFirstDay
  Thresholds <- MCThresholds
  Parts = 2
  RoundedUp <- MCRoundedUp
  AllBooks <- MCAllBooks
  ReportDates <- MCReportDates
INVARIANT
  NoRuleBlowsUp
