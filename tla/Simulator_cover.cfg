SPECIFICATION Spec
CONSTANTS
  a = a  b = b  c = c
  p1 = p1  p2 = p2  p3 = p3
  Setups <- OneGroup
  Modes = {"Incremental", "AllAtOnce"}
  MaxCapacity = 2
CHECK_DEADLOCK FALSE
INVARIANT WinnerViewCarriesOver
