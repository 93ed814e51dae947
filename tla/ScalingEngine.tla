---------------------------- MODULE ScalingEngine ----------------------------
(***************************************************************************)
(* The pure decision engine of the scaler: internal/scaling/scaling.go and *)
(* the CPU reverse map that internal/config/config.go builds.  Every       *)
(* operator takes the configuration as its last argument, as the Go        *)
(* functions take *config.Config.                                          *)
(*                                                                         *)
(* A configuration is a record                                             *)
(*   names             the profile names, floor first                      *)
(*   cpu, memory       what each profile requests                          *)
(*   queueThresholds, rateThresholds     per profile, 0 = no threshold     *)
(*   scaleUpDebounce, scaleDownDebounce, checkInterval       in seconds    *)
(* and a sample is what one evaluation hears from the management API:      *)
(*   overviewOK        whether GET /api/overview answered                  *)
(*   depths            the messages of each queue listed (empty on error)  *)
(*   rate              the overall publish rate                            *)
(*                                                                         *)
(* Operators whose comment begins with "Faulty:" are deliberate bugs that  *)
(* the properties are tried against; nothing uses them.                    *)
(***************************************************************************)
EXTENDS Integers, Sequences, FiniteSetsExt

UNKNOWN == "UNKNOWN"          \* GetCurrentProfile's answer for "cannot tell"
ErrNoMetrics == "ErrNoMetrics"
NotTracked == ""              \* stable_profile of a fresh or unreadable ConfigMap

ProfilesOf(cfg) == {cfg.names[i] : i \in DOMAIN cfg.names}
Floor(cfg) == cfg.names[1]

Resources(profile, cfg) == [cpu |-> cfg.cpu[profile], memory |-> cfg.memory[profile]]

Interval(cfg) == IF cfg.checkInterval > 0 THEN cfg.checkInterval ELSE 5

IsConfig(cfg) ==
  /\ cfg.names \in Seq(STRING) /\ cfg.names # <<>>
  /\ cfg.cpu \in [ProfilesOf(cfg) -> STRING]
  /\ cfg.memory \in [ProfilesOf(cfg) -> STRING]
  /\ cfg.queueThresholds \in [ProfilesOf(cfg) -> Int]
  /\ cfg.rateThresholds \in [ProfilesOf(cfg) -> Int]
  /\ {cfg.scaleUpDebounce, cfg.scaleDownDebounce, cfg.checkInterval} \subseteq Int

(***************************************************************************)
(* Choosing a profile.                                                     *)
(***************************************************************************)
MaxQueueDepth(depths) == Max(depths \cup {0})

Exceeds(value, threshold) == threshold # 0 /\ value > threshold

Selected(name, sample, cfg) ==
  \/ Exceeds(MaxQueueDepth(sample.depths), cfg.queueThresholds[name])
  \/ Exceeds(sample.rate, cfg.rateThresholds[name])

(* The scan runs from the highest profile down to the one above the floor
   and stops at the first selected profile, the highest one. *)
CalculateScaleProfile(sample, cfg) ==
  IF ~sample.overviewOK \/ sample.depths = {}
  THEN ErrNoMetrics
  ELSE LET selected == {i \in DOMAIN cfg.names \ {1} : Selected(cfg.names[i], sample, cfg)}
       IN  cfg.names[Max(selected \cup {1})]

(***************************************************************************)
(* The order of profiles, and the profile a CPU request stands for.        *)
(***************************************************************************)
GetProfilePriority(profile, cfg) ==
  IF profile \in ProfilesOf(cfg)
  THEN CHOOSE i \in DOMAIN cfg.names :
         /\ cfg.names[i] = profile
         /\ \A j \in DOMAIN cfg.names : cfg.names[j] = profile => i <= j
  ELSE 0

(* Faulty: an unknown CPU is taken for a profile's name. *)
CPUOrItself(cpu, cfg) ==
  LET owners == {i \in DOMAIN cfg.names : cfg.cpu[cfg.names[i]] = cpu}
  IN  IF owners = {} THEN cpu ELSE cfg.names[Max(owners)]

(* Load fills the map in profile order, so of two profiles that request the
   same CPU the later one owns the entry. *)
CPUToProfile(cpu, cfg) ==
  LET owners == {i \in DOMAIN cfg.names : cfg.cpu[cfg.names[i]] = cpu}
  IN  IF owners = {} THEN UNKNOWN ELSE cfg.names[Max(owners)]

(***************************************************************************)
(* The debounce decision.                                                  *)
(***************************************************************************)
IsScaleUp(current, recommended, cfg) ==
  GetProfilePriority(recommended, cfg) > GetProfilePriority(current, cfg)

(* Faulty: the two debounce windows are swapped. *)
NeedSecondsSwapped(current, recommended, cfg) ==
  IF IsScaleUp(current, recommended, cfg) THEN cfg.scaleDownDebounce ELSE cfg.scaleUpDebounce

NeedSeconds(current, recommended, cfg) ==
  IF IsScaleUp(current, recommended, cfg) THEN cfg.scaleUpDebounce ELSE cfg.scaleDownDebounce

(* Faulty: a changed recommendation restarts the timer but may pass as stable. *)
StabilityOfOldTimer(current, recommended, state, cfg, now) ==
  LET heldLong == now - state.since >= NeedSeconds(current, recommended, cfg)
  IN  [stable        |-> current = recommended \/ heldLong,
       resetTracking |-> state.profile # recommended \/ current = recommended]

(* Faulty: the timer restarts on every evaluation that is not stable yet. *)
StabilityRestarting(current, recommended, state, cfg, now) ==
  LET stable == /\ state.profile = recommended
                /\ \/ current = recommended
                   \/ now - state.since >= NeedSeconds(current, recommended, cfg)
  IN  [stable |-> stable, resetTracking |-> ~stable]

(* A decision says whether the recommendation counts as stable and whether
   the tracking record is rewritten with the recommendation and `now'. *)
CheckProfileStability(current, recommended, state, cfg, now) ==
  LET tracked  == state.profile = recommended
      atTarget == current = recommended
      heldLong == now - state.since >= NeedSeconds(current, recommended, cfg)
  IN  [stable        |-> tracked /\ (atTarget \/ heldLong),
       resetTracking |-> ~tracked \/ atTarget]
==============================================================================
