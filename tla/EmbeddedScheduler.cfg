SPECIFICATION FairSpec
CONSTANTS
  Calls = {c1, c2}
  Watching = {c1}
  MaxParallel = 1
  MaxWatches = 1
  MaxEvents <- TwoAndOne
CHECK_DEADLOCK FALSE
INVARIANTS SlotsAccountedFor MergeLosesNothing
PROPERTIES LaunchReturns WatchesEnd
