SPECIFICATION FairSpec
CHECK_DEADLOCK FALSE
CONSTANTS
  None = None
  Routes <- AllRoutes
  Stations <- AllStations
  Evidence <- SomeEvidence
  MovesToInProcess = TRUE
INVARIANTS
  TypeOK
  CompletedIsDone
  RetriesAreBounded
  NeverStuck
PROPERTIES
  StepsAreInOrder
  WorkEnds
