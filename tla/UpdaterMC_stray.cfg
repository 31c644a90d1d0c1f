SPECIFICATION Spec
CHECK_DEADLOCK FALSE
CONSTANTS
  None = None
  Versions = {1, 2}
  Broken = {}
  Sources <- Straying
  UpdateKey = "vendor"
  SchemaVersion = 1
  Cohort = "stable"
  MaxArtifactBytes = 100
  MaxFaults = 0
PROPERTY
  NeverMutatedInPlace
