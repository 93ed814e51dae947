\* One scaler, any call failing, crashes and outside edits: patches stay apart,
\* and once the disturbances stop the cluster follows the load.
SPECIFICATION MCSpec
CONSTANTS
  Scalers = {s1}
  Cfg <- TwoProfiles
  Samples <- AllSamples
  Unreliable = {"getCluster", "getConfigMap", "patchConfigMap", "applyResources"}
  Events = {"stop", "crash", "reapply"}
  ClusterEdits <- ForeignResources
  MaxLatency = 1
  MaxTime = 9
INVARIANT TypeOK ConvergesInTime
PROPERTY SpacedPatches ActsThroughOutages
