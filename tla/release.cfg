SPECIFICATION FairSpec
CONSTANTS
  PreviousSchema = 1
  NewSchema = 3
  Writes = {w1, w2}
  MaxTroubles = 4
  MaxInstalls = 3
INVARIANTS CoreFitsDatabase CoreHasItsData NothingIsGone UndoneIsUndone
PROPERTIES ServiceReturns
CHECK_DEADLOCK FALSE
