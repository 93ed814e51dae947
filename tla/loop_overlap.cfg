\* Two copies of the scaler, as during a rollout of its Deployment.
SPECIFICATION MCSpec
CONSTANTS
  Scalers = {s1, s2}
  Cfg <- LongWindows
  Samples <- AllSamples
  Unreliable = {}
  Events = {"crash"}
  ClusterEdits = {}
  MaxLatency = 1
  MaxTime = 6
SYMMETRY Copies
PROPERTY SpacedPatches
