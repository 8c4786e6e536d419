SPECIFICATION Spec
CONSTANTS
  primary = primary
  alt1 = alt1
  Candidates = {primary, alt1}
  AppServers <- BothWays
  Rollovers <- FirstOnly
  MaxFaults = 1
  MaxDeaths = 1
SYMMETRY Interchangeable
INVARIANTS TypeOK OnFileWhileDriven QuietAfterRun CompletionCounts FreedIsQuiet
CHECK_DEADLOCK FALSE
