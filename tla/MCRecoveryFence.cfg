SPECIFICATION Spec
CONSTANTS
  Holders = {h1, h2}
  WorkflowTokens = {1, 2}
  MaxLease = 2
  MaxTime = 3
  MaxToken = 3
  NoHolder = NoHolder
INVARIANTS
  AtMostOneLive
  WorkflowOwnerUndisturbed
SYMMETRY Symmetry
