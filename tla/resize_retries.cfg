\* An in-place scale is retried to the end across failures and crashes.
SPECIFICATION Spec
CONSTANTS
  Sizes = {"P1", "P2"}
  PodCount = 2
  Settings = {"inplace"}
  Supports = {TRUE}
  Verdicts = {}
  Events = {"crash"}
  MaxFaults = 3
  MaxChanges = 2
PROPERTY RetryReachesEveryPod
CHECK_DEADLOCK FALSE
