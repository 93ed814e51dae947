\* A verdict on an earlier request is taken for one on the request just made.
SPECIFICATION SafetySpec
CONSTANTS
  Sizes = {"P1", "P2"}
  PodCount = 2
  Settings = {"auto"}
  Supports = {TRUE}
  Verdicts = {"Infeasible"}
  Events = {}
  MaxFaults = 0
  MaxChanges = 2
PROPERTY FallbackIsDue
CHECK_DEADLOCK FALSE
