SPECIFICATION Spec
CONSTANTS
  Documents <- AllDocuments
  FlagSets <- AllFlagSets
INVARIANTS
  TypeOK
  WrittenArrives
  InRange
  MetricsOfTheScaledCluster
  ChartAgrees
\* The pipeline ends with a running process or a refused document.
CHECK_DEADLOCK FALSE
