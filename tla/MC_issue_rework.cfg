SPECIFICATION FairSpec
CONSTANTS
  i1 = i1
  Issues = {i1}
  Candidates = 1
  MaxMoves = 0
  MaxFaults = 1
  MaxInterruptions = 0
  Interruptions = {}
  MaxConcurrency = 1
PROPERTIES ReworkIsRetried
