SPECIFICATION FairSpec
CONSTANTS
  Recoverers = {h1}
  Plans <- AllPlans
  Containers <- AnyContainer
  MayExit = FALSE
  CrashPoints <- Recoverable
  MaxCrashes = 2
  MaxDecisions = 2
  MaxToken = 3
  None = None
PROPERTIES
  PendingResolved
  PendingNotReplaced
CHECK_DEADLOCK FALSE
