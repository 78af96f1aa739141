SPECIFICATION Spec
CONSTANTS
  Recoverers = {h1, h2}
  Plans <- ReplayOrCancel
  Containers <- AnyContainer
  MayExit = TRUE
  CrashPoints <- Anywhere
  MaxCrashes = 1
  MaxDecisions = 2
  MaxToken = 2
  None = None
INVARIANTS
  TerminalFollowsItsEvidence
  ClosedMeansStopped
  HistoryIsTrue
PROPERTIES
  StopIsRecorded
  ArchivedActsNoMore
SYMMETRY Symmetry
CHECK_DEADLOCK FALSE
