SPECIFICATION FairSpec
CONSTANTS
  MaxAttempts = 2
  Limit = 2
  Configurations <- OnOrOff
  MaxAlerts = 3
  MaxTimeouts = 1
  MaxLosses = 2
INVARIANTS MutedHoldsNothing DuplicatesNeedLoss
PROPERTIES ImplementsDelivery EveryAlertSettles
