SPECIFICATION FairSpec
CONSTANTS
  c1 = c1
  Consoles <- OneConsole
  MaxForms = 1
  MaxTimeouts = 1
  MaxFailures = 1
  MaxRetirals = 1
INVARIANTS OneWindowPerForm CancelledStaysQuiet
PROPERTIES NotRefusedOnceCreated CancelLands
