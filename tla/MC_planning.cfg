SPECIFICATION FairSpec
CONSTANTS
  Counts <- OneOrFour
  MaxParallel = 2
INVARIANTS TypeOK NobodyLeft EveryCriterionHasItsChunk CallsAreBounded
PROPERTY PlanningEnds
CHECK_DEADLOCK FALSE
