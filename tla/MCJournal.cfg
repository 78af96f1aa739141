SPECIFICATION Spec
CONSTANTS
  Runs = {r1, r2}
  Writers = {w1, w2}
  EventIds = {e1, e2, e3}
  Authorities = {a1}
  Offered = {"queued", "running", "failed"}
  MaxSequence = 2
  NoWriter = NoWriter
INVARIANTS
  ChainIntact
  TerminalIsLast
PROPERTIES
  RetryNeverMisjudged
  ImplementsRunLog
SYMMETRY Symmetry
