SPECIFICATION Spec
CONSTANTS
  Keys = {k1, k2}
  Watchers = {w1}
  Selected <- SelectAll
  NoBroadcastOpts = {TRUE, FALSE}
  MaxVersion = 2
  QueueSize = 1
  IncomingSize = 1
INVARIANTS VersionsUnique NoEventLost AtMostOnce
CHECK_DEADLOCK FALSE
SYMMETRY KeySymmetry
