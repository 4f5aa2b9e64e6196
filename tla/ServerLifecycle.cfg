SPECIFICATION FairSpec
CONSTANTS
  Callers = {c1, c2}
  Names = {"sandbox"}
  Base = "base"
CHECK_DEADLOCK FALSE
INVARIANTS OneViewPerName DrainedBeforeClose
PROPERTIES SignalEndsProcess WaiterReleased
