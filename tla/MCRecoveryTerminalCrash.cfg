SPECIFICATION FairSpec
CONSTANTS
  Recoverers = {h1}
  Plans <- CancelOnly
  Containers <- AbsentContainer
  MayExit = TRUE
  CrashPoints <- AfterTerminal
  MaxCrashes = 1
  MaxDecisions = 1
  MaxToken = 3
  None = None
PROPERTY PendingResolved
CHECK_DEADLOCK FALSE
