SPECIFICATION MCSpec
CHECK_DEADLOCK FALSE
CONSTANTS
  None = None
  Versions = {1, 2, 3}
  Broken = {3}
  Sources <- AllSources
  UpdateKey = "vendor"
  SchemaVersion = 1
  Cohort = "stable"
  MaxArtifactBytes = 100
  MaxFaults = 3
  Nothing = Nothing
  Records = {a, b, c}
  Wide = {c}
  Writers = {agent, cli}
  MaxCuts = 2
INVARIANTS
  TypeOK
  RollbackIsReady
  SpoolTypeOK
  LoadsInOrder
PROPERTIES
  ImplementsSwitch
  NoUnforcedDowngrade
  BrokenIsReplaced
  ImplementsQueue
