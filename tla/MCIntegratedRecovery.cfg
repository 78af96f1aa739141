CONSTANTS
  Procs = {child, other}
  Child = child
  Jobs <- MCJobs
  Repetitions = 2
  MaxCalls = 2
  MaxTroubles = 1
SPECIFICATION CompositeSpec
INVARIANTS VerdictMeansClean PassIsStored
PROPERTIES AllSettle FoundIsKept CompositePassIsEarned
CHECK_DEADLOCK FALSE
