SPECIFICATION FairSpec
CONSTANTS
  build = build
  check = check
  Hosts = {h1}
  Steps = {build, check}
  DependsOn <- BuildThenCheck
  Required = {build, check}
  Approvals = {"match", "lost"}
  StepEnds = {"good", "bad", "flood"}
  CrashPoints <- Anywhere
  Tears = TRUE
  InterruptPoints <- InMain
  MaxMishaps = 3
  MaxRuns = 1
  None = None
INVARIANTS
  PassIsEarned
  StepsInOrder
  CheckedBeforeStep
  NothingLeftBehind
  EventsInPlace
PROPERTIES
  AttemptSettles
