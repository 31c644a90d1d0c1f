SPECIFICATION MCSpec
CHECK_DEADLOCK FALSE
CONSTANTS
  None = None
  Scenarios <- AllScenarios
  Contexts <- AllContexts
INVARIANTS
  ValidateIsExact
  CompletionIsEarned
  GoodScenarioCompletes
  DueReadingsPass
  WrongNeverAdvances
