SPECIFICATION FairSpec
CONSTANTS
  a = a  b = b  c = c
  p1 = p1  p2 = p2  p3 = p3
  Setups <- AllSetups
  Modes = {"Incremental", "AllAtOnce"}
  MaxCapacity = 2
CHECK_DEADLOCK FALSE
INVARIANTS NoIdleNode PlanCoversPods NoFeasiblePodLeft PriorityRespected
PROPERTY Terminates
