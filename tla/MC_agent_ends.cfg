SPECIFICATION FairSpec
CONSTANTS
  primary = primary
  alt1 = alt1
  Candidates = {primary}
  AppServers <- BothWays
  Rollovers <- BothWays
  MaxFaults = 2
  MaxDeaths = 1
PROPERTIES RunReturns RecordsGo AbandonedIsFreed
CHECK_DEADLOCK FALSE
