SPECIFICATION Spec
CONSTANTS
  t1 = t1  t2 = t2
  n1 = n1  n2 = n2
  Keys <- ClusterKey
  InitKeys <- ClusterKey
  Depth = 2
  Threads = {t1, t2}
  Scenarios <- MCScenarios
  Nodes = {n1, n2}
  Vals = {"x", "y"}
INVARIANTS ListAgreesWithGet ChangesAreCounted
PROPERTIES Independence OnlyCreateResurrects BoundOnce
