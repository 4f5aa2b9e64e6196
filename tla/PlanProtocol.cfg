SPECIFICATION FairSpec
CONSTANTS
  Callers = {"drains", "breaks on error"}
  Cancellable = TRUE
  MaxCycles = 3
CHECK_DEADLOCK FALSE
PROPERTIES ImplementsContract ResponsesClosed NoGoroutineLeak
