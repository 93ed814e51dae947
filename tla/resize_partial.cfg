\* A partly failed resize is forgotten when the recommendation returns.
SPECIFICATION SafetySpec
CONSTANTS
  Sizes = {"P1", "P2"}
  PodCount = 2
  Settings = {"auto"}
  Supports = {TRUE}
  Verdicts = {}
  Events = {}
  MaxFaults = 1
  MaxChanges = 2
INVARIANT SourceOfTruth
CHECK_DEADLOCK FALSE
