SPECIFICATION Spec
CONSTANTS
  Id <- MCReplayId
  FirstDay <- MCFirstDay
  Thresholds <- MCThresholds
  Parts = 1
  RoundedUp = {}
  Corpora <- MCCorpora
  OtherRuleSets <- MCOtherRuleSets
INVARIANTS
  TypeOK
  ReplayMeasuresReviews
  GateIsExact
  ScoresMatchTheLists
CHECK_DEADLOCK FALSE
