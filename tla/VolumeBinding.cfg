SPECIFICATION FairSpec
CONSTANTS
  c1 = c1  c2 = c2  v1 = v1  s1 = s1  s2 = s2  n1 = n1  n2 = n2  n3 = n3
  None = None  Gone = Gone
  Claims = {c1, c2}
  Volumes = {v1}
  SimVolume <- SimVolumes
  Nodes = {n1, n2, n3}
  ZoneOf <- Zones
  Snapshots <- SmallSnapshots
  MaxDecisions <- TwoAndOne
CHECK_DEADLOCK FALSE
INVARIANTS BindingsMutual VolumeFitsClaim
PROPERTIES KeepsVolume DecisionCarriedOut
