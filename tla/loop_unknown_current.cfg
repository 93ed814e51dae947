\* A failed read of the RabbitmqCluster shortens the window of a scale-down.
SPECIFICATION MCSpec
CONSTANTS
  Scalers = {s1}
  Cfg <- ThreeProfiles
  Samples <- AllSamples
  Unreliable = {"getCluster"}
  Events = {}
  ClusterEdits = {}
  MaxLatency = 0
  MaxTime = 7
PROPERTY HeldBeforePatch
