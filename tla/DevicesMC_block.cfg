SPECIFICATION FairSpec
CHECK_DEADLOCK FALSE
CONSTANTS
  Nothing = Nothing
  Room = 2
  MaxReads = 3
  MaxUnasked = 2
  MaxEntries = 0
PROPERTY
  NeverBlocksForever
