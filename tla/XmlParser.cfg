SPECIFICATION FairSpec
CONSTANTS
  Shapes = {"plain", "closed"}
  MaxRecords = 3
  MaxErrors = 3
  Tolerated = 1
CHECK_DEADLOCK FALSE
INVARIANTS
  OnlyMalformedDropped
PROPERTY Terminates
