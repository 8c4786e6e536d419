SPECIFICATION Spec
CONSTANTS
  source = source
  extra = extra
  config = config
  Files <- ThreeFiles
  Plans <- TwoPlans
  Grants <- ThreeGrants
  Policies <- OnePolicy
  Reports <- EightReports
  Durations <- TwoDurations
INVARIANTS NoBetterLoser
CHECK_DEADLOCK FALSE
