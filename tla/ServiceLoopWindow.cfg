SPECIFICATION ServiceSpec
CONSTANT Untriggered = Untriggered
CHECK_DEADLOCK FALSE
INVARIANT StopsBeforeSleeping
