SPECIFICATION Spec
CONSTANTS
  p1 = p1  p2 = p2  p3 = p3
  Pods = {p1, p2, p3}
  Requests <- SmallRequests
  Templates <- SmallTemplates
  Strategies = {"", "LeastCost", "LeastWaste", "other"}
  MaxSims = 2
  Missing = Missing
CHECK_DEADLOCK FALSE
INVARIANTS WinnerFound CheapestWins LeastWasteWins
