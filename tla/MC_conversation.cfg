SPECIFICATION FairSpec
CONSTANTS
  Projects = {TRUE, FALSE}
  Exclusive <- ApprovalAlone
  MaxHandlers = 2
  MaxMessages = 2
  MaxCommands = 4
  MaxFaults = 1
  MaxCrashes = 1
INVARIANTS TypeOK BoundHasIssue OneIssuePerThread GateSawApproved PlanningIsReal
PROPERTIES BindingIsForGood ApprovedIsRun
CHECK_DEADLOCK FALSE
