SPECIFICATION FairSpec
CONSTANTS
  Pods = {p1, p2}
  MaxUnchanged = 1
  Preemption = TRUE
  Outcomes = {"won", "lost", "nowinner"}
  MaxRuns = 2
CHECK_DEADLOCK FALSE
INVARIANTS PlacementsAreReal GivesUpLate SchedulerClosed
PROPERTIES RunEnds ImplementsContract
