CONSTANTS
  Procs = {p1, p2}
  MaxCalls = 2
  MaxTroubles = 2
SPECIFICATION Spec
INVARIANTS RestoredIsMeasured PassLeavesNothing
CHECK_DEADLOCK FALSE
