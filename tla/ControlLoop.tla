----------------------------- MODULE ControlLoop -----------------------------
(***************************************************************************)
(* The control loop of the scaler (internal/controller/controller.go) with *)
(* the two objects it shares with the rest of the cluster: the             *)
(* RabbitmqCluster resource and the ConfigMap that persists the debounce   *)
(* tracking.  One evaluation (ApplyScale) is a sequence of API calls, and  *)
(* each call is a step of its own: other scalers, operators of the cluster *)
(* and the clock move between any two of them, any call may fail, and the  *)
(* process may die after any of them.                                      *)
(*                                                                         *)
(* applyResources is one step here.  In both scale modes the patch of the  *)
(* RabbitmqCluster is its last call, so for this module it either patches  *)
(* the resource or returns an error; InPlaceResize models its inside.      *)
(***************************************************************************)
EXTENDS ScalingEngine

CONSTANTS
  Scalers,        \* the running copies of the program: one, or two while a rollout overlaps
  Cfg,            \* the configuration they share
  Samples,        \* what the management API may answer to an evaluation
  Unreliable,     \* the calls that may fail: a subset of Calls
  Events,         \* what may happen around the loop: a subset of AllEvents
  ClusterEdits,   \* resources somebody else may write into the RabbitmqCluster
  MaxLatency,     \* how many seconds an evaluation may take
  MaxTime         \* bound on the clock

Calls == {"getCluster", "getConfigMap", "patchConfigMap", "applyResources"}
AllEvents == {"stop", "crash", "reapply", "upgrade"}

ASSUME CfgAssumption ==
  /\ IsConfig(Cfg)
  /\ {NotTracked, UNKNOWN, ErrNoMetrics} \cap ProfilesOf(Cfg) = {}

ASSUME BoundsAssumption == MaxTime \in Nat /\ MaxLatency \in Nat

ASSUME FaultAssumption == Unreliable \subseteq Calls /\ Events \subseteq AllEvents

VARIABLES
  pc,         \* per scaler: where its evaluation stands
  eval,       \* per scaler: the local variables of the evaluation
  due,        \* per scaler: when its ticker fires next
  cluster,    \* spec.resources.requests of the RabbitmqCluster
  configMap,  \* stable_profile and stable_since
  rendered,   \* the ConfigMap a running `helm upgrade' has rendered: no record or one
  clock,      \* unix seconds
  \* History, read by the properties only:
  held,       \* the last recommendation, and since when every evaluation has agreed on it
  lastPatch,  \* the last profile a scaler wrote into the RabbitmqCluster, and when
  disturbed,  \* when a call last failed, an evaluation had no metrics, or something around
              \* the loop happened
  troubled    \* whether one of these but a want of metrics has been since held.since

scalerVars == <<pc, eval, due>>
historyVars == <<held, lastPatch, disturbed, troubled>>
vars == <<pc, eval, due, cluster, configMap, rendered, clock, held, lastPatch, disturbed,
          troubled>>

Profiles == ProfilesOf(Cfg)

Stages == {"down", "idle", "current", "state", "reset", "apply", "final"}

NoEval == [begun |-> 0, recommended |-> NotTracked, current |-> UNKNOWN,
           now |-> 0, stable |-> FALSE]

NoTracking == [profile |-> NotTracked, since |-> 0]

TypeOK ==
  /\ pc \in [Scalers -> Stages]
  /\ eval \in [Scalers -> [begun: Nat, recommended: Profiles \cup {NotTracked},
                           current: Profiles \cup {UNKNOWN}, now: Nat, stable: BOOLEAN]]
  /\ \A s \in Scalers : pc[s] \notin {"down", "idle"} => eval[s].recommended \in Profiles
  /\ due \in [Scalers -> Nat]
  /\ cluster \in {Resources(p, Cfg) : p \in Profiles} \cup ClusterEdits
  /\ configMap \in [profile: Profiles \cup {NotTracked}, since: Nat]
  /\ rendered \subseteq [profile: Profiles \cup {NotTracked}, since: Nat]
  /\ clock \in Nat
  /\ held \in [profile: Profiles \cup {NotTracked}, since: Nat]
  /\ lastPatch \in [profile: Profiles \cup {NotTracked}, at: Nat]
  /\ disturbed \in Nat /\ troubled \in BOOLEAN

Init ==
  /\ pc = [s \in Scalers |-> "down"]
  /\ eval = [s \in Scalers |-> NoEval]
  /\ due = [s \in Scalers |-> 0]
  /\ cluster \in {Resources(p, Cfg) : p \in Profiles} \cup ClusterEdits
  /\ configMap = NoTracking
  /\ rendered = {}
  /\ clock = 0
  /\ held = NoTracking
  /\ lastPatch = [profile |-> NotTracked, at |-> 0]
  /\ disturbed = 0 /\ troubled = FALSE

-----------------------------------------------------------------------------
(* A failed read returns an error.  A failed write may still have reached the
   API server: the client sees the same error when only the reply is lost. *)
ReadOutcomes(call) == {"ok"} \cup (IF call \in Unreliable THEN {"failed"} ELSE {})
WriteOutcomes(call) ==
  {"ok"} \cup (IF call \in Unreliable THEN {"failed", "replyLost"} ELSE {})

Disturbance == disturbed' = clock /\ troubled' = TRUE

Disturb(outcome) ==
  IF outcome = "ok" THEN UNCHANGED <<disturbed, troubled>> ELSE Disturbance

EndEvaluation(s) ==
  /\ pc' = [pc EXCEPT ![s] = "idle"]
  /\ eval' = [eval EXCEPT ![s] = NoEval]

Advance(s, stage, local) ==
  /\ pc' = [pc EXCEPT ![s] = stage]
  /\ eval' = [eval EXCEPT ![s] = local]

(* The ticker keeps the grid it started on and buffers one tick: a tick that
   passes during an evaluation is delivered right after it, further ones are
   dropped. *)
NextTick(s) == due[s] + Interval(Cfg) * (1 + ((clock - due[s]) \div Interval(Cfg)))

(* The process starts: RabbitMQ has answered, the ticker is created and the
   first evaluation is due at once. *)
Start(s) ==
  /\ pc[s] = "down"
  /\ pc' = [pc EXCEPT ![s] = "idle"]
  /\ due' = [due EXCEPT ![s] = clock]
  /\ Disturbance
  /\ UNCHANGED <<eval, cluster, configMap, rendered, clock, held, lastPatch>>

(* Faulty: an evaluation without metrics forgets what was tracked. *)
SkipForgetting ==
  disturbed' = clock /\ configMap' = NoTracking /\ UNCHANGED <<pc, eval, held, troubled>>

(* Without metrics the evaluation ends and the tracking stays as it is. *)
Skip == disturbed' = clock /\ UNCHANGED <<pc, eval, configMap, held, troubled>>

(* The tick: GetQueueMetrics, GetDetailedQueues and the choice of a profile. *)
Evaluate(s) ==
  /\ pc[s] = "idle"
  /\ due[s] <= clock
  /\ due' = [due EXCEPT ![s] = NextTick(s)]
  /\ \E sample \in Samples :
       LET profile == CalculateScaleProfile(sample, Cfg) IN
       \/ profile = ErrNoMetrics /\ Skip
       \/ /\ profile # ErrNoMetrics
          /\ Advance(s, "current", [NoEval EXCEPT !.begun = clock, !.recommended = profile])
          /\ held' = IF held.profile = profile THEN held
                     ELSE [profile |-> profile, since |-> clock]
          /\ troubled' = (troubled /\ held' = held)
          /\ UNCHANGED <<configMap, disturbed>>
  /\ UNCHANGED <<cluster, rendered, clock, lastPatch>>

(* GetCurrentProfile, then c.now(). *)
ReadCurrent(s) ==
  /\ pc[s] = "current"
  /\ \E outcome \in ReadOutcomes("getCluster") :
       LET profile == IF outcome = "ok" THEN CPUToProfile(cluster.cpu, Cfg) ELSE UNKNOWN
       IN  /\ Advance(s, "state", [eval[s] EXCEPT !.current = profile, !.now = clock])
           /\ Disturb(outcome)
  /\ UNCHANGED <<due, cluster, configMap, rendered, clock, held, lastPatch>>

(* Where an evaluation goes once the tracking record is as the decision wants
   it: it applies the profile if that is stable and not yet there. *)
AfterDecision(s, local) ==
  IF local.stable /\ local.current # local.recommended
  THEN Advance(s, "apply", local)
  ELSE EndEvaluation(s)

(* GetStabilityState and the debounce decision. *)
ReadState(s) ==
  /\ pc[s] = "state"
  /\ \E outcome \in ReadOutcomes("getConfigMap") :
       LET state == IF outcome = "ok" THEN configMap ELSE NoTracking
           decision == CheckProfileStability(eval[s].current, eval[s].recommended,
                                             state, Cfg, eval[s].now)
           local == [eval[s] EXCEPT !.stable = decision.stable]
       IN  /\ IF decision.resetTracking THEN Advance(s, "reset", local)
                                        ELSE AfterDecision(s, local)
           /\ Disturb(outcome)
  /\ UNCHANGED <<due, cluster, configMap, rendered, clock, held, lastPatch>>

(* Faulty: the profile is written without its timestamp. *)
UpdateProfileOnly(s) ==
  \E outcome \in WriteOutcomes("patchConfigMap") :
    /\ configMap' = IF outcome = "failed" THEN configMap
                    ELSE [configMap EXCEPT !.profile = eval[s].recommended]
    /\ Disturb(outcome)

(* UpdateStabilityTracking: an error is logged and the caller goes on. *)
UpdateStabilityTracking(s) ==
  \E outcome \in WriteOutcomes("patchConfigMap") :
    /\ configMap' = IF outcome = "failed" THEN configMap
                    ELSE [profile |-> eval[s].recommended, since |-> eval[s].now]
    /\ Disturb(outcome)

ResetTracking(s) ==
  /\ pc[s] = "reset"
  /\ UpdateStabilityTracking(s)
  /\ AfterDecision(s, eval[s])
  /\ UNCHANGED <<due, cluster, rendered, clock, held, lastPatch>>

(* What ApplyPatch leaves in the RabbitmqCluster. *)
Patched(s) == Resources(eval[s].recommended, Cfg)

(* applyResources: on an error the loop carries on without touching the
   tracking; on success the final reset takes a fresh timestamp. *)
Apply(s) ==
  /\ pc[s] = "apply"
  /\ \E outcome \in WriteOutcomes("applyResources") :
       /\ \/ /\ outcome = "failed"
             /\ UNCHANGED <<cluster, lastPatch>>
          \/ /\ outcome # "failed"
             /\ cluster' = Patched(s)
             /\ lastPatch' = [profile |-> eval[s].recommended, at |-> clock]
       /\ IF outcome = "ok" THEN Advance(s, "final", [eval[s] EXCEPT !.now = clock])
                            ELSE EndEvaluation(s)
       /\ Disturb(outcome)
  /\ UNCHANGED <<due, configMap, rendered, clock, held>>

FinalReset(s) ==
  /\ pc[s] = "final"
  /\ UpdateStabilityTracking(s)
  /\ EndEvaluation(s)
  /\ UNCHANGED <<due, cluster, rendered, clock, held, lastPatch>>

-----------------------------------------------------------------------------
(* SIGTERM between two evaluations: Run returns.  (In the middle of one it
   makes the calls that are left fail.) *)
Stop(s) ==
  /\ "stop" \in Events
  /\ pc[s] = "idle"
  /\ pc' = [pc EXCEPT ![s] = "down"]
  /\ Disturbance
  /\ UNCHANGED <<eval, due, cluster, configMap, rendered, clock, held, lastPatch>>

(* The process dies in an evaluation; only the two Kubernetes objects survive. *)
Crash(s) ==
  /\ "crash" \in Events
  /\ pc[s] \notin {"idle", "down"}
  /\ pc' = [pc EXCEPT ![s] = "down"]
  /\ eval' = [eval EXCEPT ![s] = NoEval]
  /\ Disturbance
  /\ UNCHANGED <<due, cluster, configMap, rendered, clock, held, lastPatch>>

(* Somebody else edits the RabbitmqCluster. *)
EditCluster ==
  /\ \E resources \in ClusterEdits \ {cluster} : cluster' = resources
  /\ Disturbance
  /\ UNCHANGED <<scalerVars, configMap, rendered, clock, held, lastPatch>>

(* The generated manifest is applied again: its ConfigMap has empty data. *)
ReapplyManifest ==
  /\ "reapply" \in Events
  /\ configMap # NoTracking
  /\ configMap' = NoTracking
  /\ Disturbance
  /\ UNCHANGED <<scalerVars, cluster, rendered, clock, held, lastPatch>>

(* `helm upgrade' renders the ConfigMap from a lookup of the live one and
   applies what it rendered, some time later. *)
RenderUpgrade ==
  /\ "upgrade" \in Events
  /\ rendered = {}
  /\ rendered' = {configMap}
  /\ UNCHANGED <<scalerVars, cluster, configMap, clock, historyVars>>

ApplyUpgrade ==
  /\ \E record \in rendered : configMap' = record
  /\ rendered' = {}
  /\ Disturbance
  /\ UNCHANGED <<scalerVars, cluster, clock, held, lastPatch>>

(* A second passes.  A tick is served in the second it fires and an
   evaluation takes MaxLatency seconds at most. *)
Tick ==
  /\ clock < MaxTime
  /\ \A s \in Scalers :
       /\ pc[s] = "idle" => clock < due[s]
       /\ pc[s] \notin {"idle", "down"} => clock < eval[s].begun + MaxLatency
  /\ clock' = clock + 1
  /\ UNCHANGED <<scalerVars, cluster, configMap, rendered, historyVars>>

Step(s) ==
  \/ Start(s) \/ Evaluate(s) \/ ReadCurrent(s) \/ ReadState(s)
  \/ ResetTracking(s) \/ Apply(s) \/ FinalReset(s)
  \/ Stop(s) \/ Crash(s)

Next ==
  \/ \E s \in Scalers : Step(s)
  \/ EditCluster \/ ReapplyManifest \/ RenderUpgrade \/ ApplyUpgrade \/ Tick

Spec == Init /\ [][Next]_vars

-----------------------------------------------------------------------------
(***************************************************************************)
(* Properties.                                                             *)
(***************************************************************************)

(* The RabbitmqCluster changes only to the profile every evaluation has been
   recommending for the whole debounce window of that change: the scale-up
   window if the profile is higher than the one the cluster is at, else the
   scale-down window.  This is what the tracking record is for (ApplyScale,
   CheckProfileStability), across evaluations, restarts and failed calls. *)
Window(from, to) ==
  IF GetProfilePriority(to, Cfg) > GetProfilePriority(from, Cfg)
  THEN Cfg.scaleUpDebounce ELSE Cfg.scaleDownDebounce

HeldBeforePatch ==
  [][cluster' # cluster =>
       LET from == CPUToProfile(cluster.cpu, Cfg)
           to   == CPUToProfile(cluster'.cpu, Cfg)
       IN  held.profile = to /\ clock - held.since >= Window(from, to)]_vars

(* Two patches to different profiles are a debounce window apart, whatever
   calls fail and whenever the process restarts: the second needs a tracking
   record written after the first.  Copies of the scaler that overlap may act
   on what they read up to MaxLatency seconds ago, each on its own. *)
Slack == IF \E s, t \in Scalers : s # t THEN 2 * MaxLatency ELSE 0

SpacedPatches ==
  [][lastPatch.profile \notin {NotTracked, lastPatch'.profile} =>
       lastPatch'.at - lastPatch.at
         >= Min({Cfg.scaleUpDebounce, Cfg.scaleDownDebounce}) - Slack]_vars

(* The cluster follows a steady load: some scaler is up, every evaluation has
   agreed on one profile, and no call has failed, no evaluation has been without
   metrics and nothing has happened around the loop for long enough; then the
   cluster has that profile's resources.  Long enough is: a latency until every
   evaluation under way began in the quiet, a tick and a latency until one has
   left a tracking record, the longest debounce window, and a tick and a latency
   until one acts.  A tick that passes during an evaluation is served after it. *)
QuietSince == Max({held.since, disturbed})

LongestDebounce == Max({Cfg.scaleUpDebounce, Cfg.scaleDownDebounce, 1})

TickWithin == Max({Interval(Cfg), MaxLatency})

ConvergenceBound == LongestDebounce + Interval(Cfg) + TickWithin + 3 * MaxLatency

ConvergesInTime ==
  /\ held.profile # NotTracked
  /\ \E s \in Scalers : pc[s] # "down"
  /\ clock - QuietSince >= ConvergenceBound
  => cluster = Resources(held.profile, Cfg)

(* And no later than need be: the timer of a recommendation runs on through
   outages of the metrics, which end evaluations early and leave the tracking
   record alone (ApplyScale's first return).  Once the window of a change has
   passed, the next evaluation that has metrics leaves the cluster changed, if
   nothing has failed or happened around the loop since the recommendation was
   first made. *)
Overdue(s) ==
  /\ ~troubled /\ held.since < eval[s].begun
  /\ eval[s].begun - held.since
       >= Window(CPUToProfile(cluster.cpu, Cfg), held.profile) + MaxLatency

ActsThroughOutages ==
  [][\A s \in Scalers :
       /\ pc[s] \notin {"down", "idle"} /\ pc'[s] = "idle"
       /\ Overdue(s) /\ ~troubled'
     => cluster' = Resources(held.profile, Cfg)]_vars
==============================================================================
