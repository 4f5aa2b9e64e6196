SPECIFICATION FairSpec
CONSTANTS
  Keys = {k1}
  Watchers = {w1}
  Selected <- SelectAll
  NoBroadcastOpts = {FALSE}
  MaxVersion = 2
  QueueSize = 1
  IncomingSize = 1
CHECK_DEADLOCK FALSE
PROPERTIES CloseReturns EventuallyDelivered
