\* Two copies, lost tracking writes and upgrades: once that stops, the cluster follows the load.
SPECIFICATION MCSpec
CONSTANTS
  Scalers = {s1, s2}
  Cfg <- TwoProfiles
  Samples <- AllSamples
  Unreliable = {"patchConfigMap"}
  Events = {"upgrade"}
  ClusterEdits = {}
  MaxLatency = 0
  MaxTime = 7
SYMMETRY Copies
INVARIANT ConvergesInTime
