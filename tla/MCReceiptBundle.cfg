SPECIFICATION Spec
CONSTANTS
  Callers = {c1, c2}
  ArtifactCount = 2
  Required = {1}
  MayFail = TRUE
  None = None
INVARIANTS
  SuccessIsExact
PROPERTIES
  BundleImmutable
SYMMETRY Symmetry
