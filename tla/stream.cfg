SPECIFICATION FairSpec
CONSTANTS
  p1 = p1
  Pages <- OnePage
  QueueSize = 1
  HistorySize = 2
  ReadLimit = 1
  ConnectionLimit = 1
  Topics <- Mixed
  MaxEvents = 2
  MaxBreaks = 2
  MaxRollBacks = 1
PROPERTIES SentInOrder GapsHaveCauses OverviewCatchesUp ListsCatchUp
CHECK_DEADLOCK FALSE
