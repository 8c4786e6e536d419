SPECIFICATION Spec
CONSTANTS
  Lanes <- Alone
  Workflows <- PlainOnly
  Parallel = {1}
  Populated = {TRUE}
  MaxReplans = 1
  MaxAttempts = 2
  Reverting = {"agent"}
  MaxChanges = 2
  MaxFaults = 0
PROPERTY WorktreesAreSeparate
CHECK_DEADLOCK FALSE
