SPECIFICATION FairSpec
CONSTANTS
  c1 = c1
  c2 = c2
  Engine = engine
  Consoles <- TwoConsoles
  Used <- NotesAndClose
  MaxNotes = 1
  MaxMoves = 1
  MaxTimeouts = 1
  MaxLosses = 0
INVARIANTS ActsOnWhatWasSeen
PROPERTIES NotesLand
