SPECIFICATION MCSpec
CHECK_DEADLOCK FALSE
CONSTANTS
  Nothing = Nothing
  Room = 2
  MaxReads = 4
  MaxUnasked = 2
  MaxEntries = 2
  None = None
  Units = {"plain", "control", "blank", "laser", "other"}
  Template <- Sticker
  ContextOf <- Bindings
  MethodOf <- Methods
  MinGrade = 2
  Grades = {1, 3}
  CorruptAs <- Wrong
  Cuts = {0, 1, 3, 12}
  Shifts <- Together
  MaxAttempts = 3
INVARIANTS
  TypeOK
  ReadingsAnswerTheirPoll
  CompletedCarriesItsIdentity
  LabelSaysWhatIsBound
PROPERTIES
  ReadsLastEntry
  ReadsEnd
