\* A process in rolling mode inherits the OnDelete override of the one before.
SPECIFICATION SafetySpec
CONSTANTS
  Sizes = {"P1", "P2"}
  PodCount = 2
  Settings = {"auto", "rolling"}
  Supports = {TRUE}
  Verdicts = {}
  Events = {"crash"}
  MaxFaults = 1
  MaxChanges = 2
PROPERTY RollingModeRolls
CHECK_DEADLOCK FALSE
