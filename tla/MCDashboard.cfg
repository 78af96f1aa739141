CONSTANTS
  Clients = {me, other}
  Evaluator = me
  Limits = {0, 2}
  MaxAsks = 2
  MaxChanges = 2
  SCENARIOS = 2
  REPETITIONS = 2
  ROUTES = 2
SPECIFICATION EvaluationSpec
INVARIANTS NothingCutOff EvaluationIsEarned
PROPERTIES EverythingEnds
CHECK_DEADLOCK FALSE
