SPECIFICATION FairSpec
CONSTANTS
  i1 = i1
  Issues = {i1}
  Candidates = 2
  MaxMoves = 1
  MaxFaults = 1
  MaxInterruptions = 0
  Interruptions = {}
  MaxConcurrency = 1
PROPERTY InProgressIsReal
