\* One scaler whose cluster reads and tracking writes succeed: the debounce holds.
SPECIFICATION MCSpec
CONSTANTS
  Scalers = {s1}
  Cfg <- ThreeProfiles
  Samples <- AllSamples
  Unreliable = {"getConfigMap", "applyResources"}
  Events = {"stop", "reapply"}
  ClusterEdits = {}
  MaxLatency = 1
  MaxTime = 7
PROPERTY HeldBeforePatch
