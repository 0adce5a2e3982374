SPECIFICATION Spec
CONSTANTS
  c1 = c1
  c2 = c2
  Engine = engine
  Consoles <- OneConsole
  Used <- Operations
  MaxNotes = 2
  MaxMoves = 1
  MaxTimeouts = 1
  MaxLosses = 1
INVARIANTS AppliedOnce SuccessIsDurable ConflictIsReal KeysFitRequests
