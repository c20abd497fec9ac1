SPECIFICATION FairService
CONSTANT Untriggered = Untriggered
CHECK_DEADLOCK FALSE
INVARIANTS
  ParkedStatusIsTruthful
PROPERTIES
  TriggerServed
  HeardShutdownExits
