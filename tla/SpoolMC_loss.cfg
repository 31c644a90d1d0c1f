SPECIFICATION SpoolSpec
CHECK_DEADLOCK FALSE
CONSTANTS
  Nothing = Nothing
  Records = {a, b, c}
  Wide = {}
  Writers = {agent}
  MaxCuts = 1
INVARIANT
  CapturedIsKept
