SPECIFICATION FairSpec
CONSTANTS
  MaxAttempts = 2
  QuietCap = 4
  ParentLogs = 2
  LogCache = 2
  Interval = 1
  MaxBackoff = 1
  JitterPercent = 0
  MaxRequests = 2
  MaxTroubles = 1
  LongOutages = FALSE
INVARIANTS FailureNotHidden SuccessNotHidden
PROPERTIES RightAgain
