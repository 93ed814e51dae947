\* One process after the other: signals, kills, outages and a moving load.
SPECIFICATION Spec
CONSTANTS
  Cfg <- ThreeProfiles
  Settings = {"auto", "inplace", "rolling"}
  Loads <- AllLoads
  PodCount = 2
  Events = {"signal", "kill"}
INVARIANTS
  TypeOK
  NeverAboveTheLoads
  OneLateWrite
  EndsAsPromised
PROPERTIES
  SignalEndsRun
  ServesWhileUp
