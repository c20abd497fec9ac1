SPECIFICATION Spec
CONSTANTS
  Shapes = {"plain", "nested"}
  MaxRecords = 3
  MaxErrors = 1
  Tolerated = 1
CHECK_DEADLOCK FALSE
INVARIANT OnlyMalformedDropped
