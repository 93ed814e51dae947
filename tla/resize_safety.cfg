\* Any SCALE_MODE, failing calls, crashes, edits of RBAC, quotas, deleted pods and full nodes.
SPECIFICATION SafetySpec
CONSTANTS
  Sizes = {P1, P2}
  PodCount = 2
  Settings = {"auto", "inplace", "rolling"}
  Supports = {TRUE, FALSE}
  Verdicts = {"Infeasible"}
  Events = {"crash", "delete", "rbac", "quota"}
  MaxFaults = 1
  MaxChanges = 3
INVARIANT TypeOK
INVARIANT RollsOnlyAfterFallback
INVARIANT OverrideNeedsPermission
PROPERTY RecordedAfterEveryPod
PROPERTY FallbackIsEarned
PROPERTY ScalesAtomically
SYMMETRY AnyProfiles
CHECK_DEADLOCK FALSE
