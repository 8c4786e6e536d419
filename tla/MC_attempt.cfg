SPECIFICATION FairSpec
CONSTANTS
  Lanes <- Both
  Workflows <- AnyWorkflow
  Parallel = {1, 2}
  Populated = {TRUE, FALSE}
  MaxReplans = 0
  MaxAttempts = 2
  Reverting = {"agent"}
  MaxChanges = 2
  MaxFaults = 1
INVARIANTS TypeOK ShippedWasListed CompletedIsDelivered ViewsFollowWinner SettledAgrees
PROPERTIES SecondCandidateEnds EveryAttemptEnds
CHECK_DEADLOCK FALSE
