SPECIFICATION CommandSpec
CONSTANTS
  Operators = {o1, o2}
  Manifests = {m1, m2}
  MayFail = TRUE
  MaxRecords = 3
  MaxTime = 1
  None = None
  a = a
  b = b
  c = c
  StepIds = {a, b, c}
  StepLists <- Lists
  MaxSwitches = 1
INVARIANTS ActiveWasConfirmed ZeroIsEarned MixNeverBinds
PROPERTIES ReplacedIsRetained
SYMMETRY Symmetry
CHECK_DEADLOCK FALSE
