SPECIFICATION ClassifierSpec
INVARIANTS
  FollowsContract
PROPERTIES
  OneStopSettles
CHECK_DEADLOCK FALSE
