SPECIFICATION FairSpec
CONSTANTS
  i1 = i1
  Issues = {i1}
  Candidates = 1
  MaxMoves = 1
  MaxFaults = 1
  MaxInterruptions = 1
  Interruptions = {"abort", "crash"}
  MaxConcurrency = 1
INVARIANTS TypeOK OneAgent
PROPERTIES DoneIsFinal InProgressIsReal RequestServed
