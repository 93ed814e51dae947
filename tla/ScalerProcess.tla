--------------------------- MODULE ScalerProcess ---------------------------
(***************************************************************************)
(* The life of one scaler process: `run' (cmd/rmq-vertical-scaler), Run    *)
(* (internal/controller) and the metrics collector (internal/metrics),     *)
(* from its start through the preflight of the scale mode and the wait for *)
(* RabbitMQ to the loop of evaluations, until SIGTERM cancels the context  *)
(* every call is made with.  A call is sent and answered in two steps, so  *)
(* the signal, the broker's load, an outage and the kubelet come between.  *)
(*                                                                         *)
(* The decisions of an evaluation are ControlLoop's, those of the          *)
(* preflight and of applyResources InPlaceResize's: here they are choices  *)
(* between the calls that may follow.  Every call of applyResources is     *)
(* here; of the preflight the two access reviews are one.  "Faulty:" marks *)
(* bugs that the properties are tried against; nothing uses them.          *)
(***************************************************************************)
EXTENDS ScalingEngine

CONSTANTS
  Cfg,        \* the configuration
  Settings,   \* the SCALE_MODE values
  Loads,      \* what may be in the broker: [depths, rate]
  PodCount,   \* the replicas of the RabbitmqCluster
  Events      \* what may happen to the process: a subset of {"signal", "kill"}

ASSUME CfgAssumption ==
  /\ IsConfig(Cfg)
  /\ {ErrNoMetrics, NotTracked} \cap ProfilesOf(Cfg) = {}
  /\ \A i, j \in DOMAIN Cfg.names : Cfg.names[i] = Cfg.names[j] => i = j

ASSUME ProcessAssumption ==
  /\ Settings \subseteq {"auto", "inplace", "rolling"}
  /\ Loads \subseteq [depths: SUBSET Nat, rate: Nat]
  /\ \A load \in Loads : IsFiniteSet(load.depths)
  /\ PodCount \in Nat
  /\ Events \subseteq {"signal", "kill"}

Preflight == {"discover", "review"}
BrokerCalls == {"probe", "overview", "queues"}
Writes == {"reset", "override", "resize", "revert", "apply", "final"}
Decided == {"getCluster", "getConfigMap", "list", "verify"} \cup Writes
Calls == Preflight \cup BrokerCalls \cup Decided

VARIABLES
  pc,          \* the call Run is making, or where it waits
  sent,        \* the request of that call has left
  setting,     \* c.cfg.ScaleMode
  mode,        \* c.mode, the effective mode, once it is resolved
  cancelled,   \* the context: SIGTERM or SIGINT has arrived
  tick,        \* the ticker's channel holds a tick
  sample,      \* what this evaluation has heard
  recommended, \* and the profile it calls for
  left,        \* how many of the listed pods ResizePods has still to resize
  clean,       \* and whether it has met no error so far
  exitCode,    \* of the last run, -1 before the first has ended
  broker,      \* the broker: whether its API answers, and its load
  \* History, read by the properties only:
  seen,        \* the loads that answered in this evaluation
  contacted,   \* this process has sent a call to the broker, or a write
  lateWrites   \* the writes carried out since the signal

run == <<pc, sent, setting, mode, cancelled, tick, exitCode>>
heard == <<sample, recommended, seen>>
resizing == <<left, clean>>
history == <<contacted, lateWrites>>
vars == <<run, heard, resizing, history, broker>>

NoSample == [overviewOK |-> FALSE, depths |-> {}, rate |-> 0]

TypeOK ==
  /\ pc \in Calls \cup {"down", "wait", "select", "exited"}
  /\ {sent, cancelled, tick, clean, contacted} \subseteq BOOLEAN
  /\ setting \in Settings /\ mode \in {"unresolved", "inplace", "rolling"}
  /\ sample \in [overviewOK: BOOLEAN, depths: SUBSET Nat, rate: Nat]
  /\ recommended \in ProfilesOf(Cfg) \cup {NotTracked, ErrNoMetrics}
  /\ pc \in Decided => recommended \in ProfilesOf(Cfg)
  /\ left \in 0..PodCount
  /\ pc \in {"resize", "verify"} => left > 0
  /\ exitCode \in {-1, 0, 1}
  /\ broker \in [up: BOOLEAN, load: Loads]
  /\ seen \subseteq Loads
  /\ lateWrites \in Nat

Init ==
  /\ pc = "down" /\ exitCode = -1
  /\ setting \in Settings /\ mode = "unresolved"
  /\ sent = FALSE /\ cancelled = FALSE /\ tick = FALSE
  /\ sample = NoSample /\ recommended = NotTracked /\ seen = {}
  /\ left = 0 /\ clean = TRUE
  /\ broker \in [up: BOOLEAN, load: Loads]
  /\ contacted = FALSE /\ lateWrites = 0

-----------------------------------------------------------------------------
(* Calls. *)

(* Faulty: a resize is followed by the cluster's patch whatever the context says. *)
ReachesDetached(call) == ~cancelled \/ call \in {"discover", "apply"}

(* With a cancelled context a call fails before anything is sent; discovery
   takes no context. *)
Reaches(call) == ~cancelled \/ call = "discover"

Send ==
  /\ pc \in Calls /\ ~sent /\ Reaches(pc)
  /\ sent' = TRUE
  /\ contacted' = (contacted \/ pc \in BrokerCalls \cup Writes)
  /\ UNCHANGED <<pc, setting, mode, cancelled, tick, exitCode, heard, resizing, lateWrites,
                 broker>>

(* How the call may end.  The broker is asked with a timeout of its own, and
   "not up" stands for too slow as well; a cancelled call may still be
   answered if the answer is under way. *)
Outcomes ==
  IF ~sent THEN {o \in {"failed"} : ~Reaches(pc)}
  ELSE IF pc \in BrokerCalls
       THEN {o \in {"ok"} : broker.up} \cup {o \in {"failed"} : cancelled \/ ~broker.up}
       ELSE {"ok", "failed"} \cup {o \in {"no"} : pc \in Preflight}

(* Faulty: the queues of an earlier evaluation stand in for those not heard. *)
DetailedQueuesCached(outcome) == IF outcome = "ok" THEN broker.load.depths ELSE sample.depths

GetDetailedQueues(outcome) == IF outcome = "ok" THEN broker.load.depths ELSE {}

(* GetQueueMetrics and GetDetailedQueues, then the choice of a profile. *)
Hear(outcome) ==
  LET answered == {load \in {broker.load} : outcome = "ok"}
  IN  \/ /\ pc = "overview"
         /\ sample' = [sample EXCEPT !.overviewOK = outcome = "ok",
                                     !.rate = IF outcome = "ok" THEN broker.load.rate ELSE 0]
         /\ seen' = answered
         /\ recommended' = NotTracked
      \/ /\ pc = "queues"
         /\ sample' = [sample EXCEPT !.depths = GetDetailedQueues(outcome)]
         /\ seen' = seen \cup answered
         /\ recommended' = CalculateScaleProfile(sample', Cfg)
      \/ pc \notin {"overview", "queues"} /\ UNCHANGED heard

(* Faulty: an explicit inplace degrades to rolling as auto does. *)
AfterReviewDegrading(outcome) == {"probe"}

(* EffectiveScaleMode: auto degrades to rolling, an explicit inplace fails. *)
AfterReview(outcome) ==
  IF setting = "inplace" /\ outcome # "ok" THEN {"exited"} ELSE {"probe"}

(* scaleMode caches what EffectiveScaleMode has found when it is done. *)
Resolve(outcome) ==
  mode' = IF pc \notin Preflight \/ pc' # "probe" THEN mode
          ELSE IF pc = "review" /\ outcome = "ok" THEN "inplace" ELSE "rolling"

(* Faulty: ErrNoMetrics is logged and the evaluation goes on. *)
AfterQueuesAnyway(profile) == {"getCluster"}

AfterQueues(profile) == IF profile = ErrNoMetrics THEN {"select"} ELSE {"getCluster"}

(* ResizePods lists the pods, and not to find one is an error; then it patches
   and verifies each.  A failed patch is remembered, a failed read of the
   verification is not; one that is answered may find the resize infeasible. *)
ResizePods(outcome) ==
  \/ /\ pc = "list"
     /\ left' \in IF outcome = "ok" THEN 0..PodCount ELSE {0}
     /\ clean' = (left' > 0)
  \/ pc = "resize" /\ outcome = "ok" /\ UNCHANGED resizing
  \/ pc = "resize" /\ outcome # "ok" /\ left' = left - 1 /\ clean' = FALSE
  \/ /\ pc = "verify"
     /\ left' = left - 1
     /\ clean' \in IF outcome = "ok" THEN {clean, FALSE} ELSE {clean}
  \/ pc \notin {"list", "resize", "verify"} /\ left' = 0 /\ clean' = TRUE

(* Without an error the cluster is patched; some errors let auto mode fall back. *)
AfterPods ==
  IF left' > 0 THEN {"resize"}
  ELSE IF clean' THEN {"apply"}
  ELSE {"select"} \cup {stage \in {"revert"} : setting = "auto"}

(* applyResources begins with the path its mode selects. *)
FirstWrite == IF mode = "inplace" THEN "override" ELSE "apply"

(* Where the code goes when the call has ended; a choice stands for one of
   ControlLoop's decisions. *)
Following(outcome) ==
  CASE pc = "discover" -> IF setting = "auto" /\ outcome # "ok" THEN {"probe"} ELSE {"review"}
    [] pc = "review"   -> AfterReview(outcome)
    [] pc = "probe"    -> IF outcome = "ok" THEN {"overview"} ELSE {"wait"}
    [] pc = "overview" -> {"queues"}
    [] pc = "queues"   -> AfterQueues(recommended')
    [] pc = "getCluster"   -> {"getConfigMap"}
    [] pc = "getConfigMap" -> {"reset", FirstWrite, "select"}
    [] pc = "reset"    -> {FirstWrite, "select"}
    [] pc = "override" -> IF outcome = "ok" THEN {"list"} ELSE {"select"}
    [] pc = "resize"   -> IF outcome = "ok" THEN {"verify"} ELSE AfterPods
    [] pc \in {"list", "verify"} -> AfterPods
    [] pc = "revert"   -> IF outcome = "ok" THEN {"apply"} ELSE {"select"}
    [] pc = "apply"    -> IF outcome = "ok" THEN {"final"} ELSE {"select"}
    [] pc = "final"    -> {"select"}

(* The call ends.  A write that was sent may be carried out although it fails. *)
Return ==
  /\ pc \in Calls
  /\ \E outcome \in Outcomes :
       /\ Hear(outcome)
       /\ ResizePods(outcome)
       /\ pc' \in Following(outcome)
       /\ Resolve(outcome)
       /\ lateWrites' \in
            IF pc \in Writes /\ sent /\ cancelled
            THEN {lateWrites + 1} \cup {n \in {lateWrites} : outcome = "failed"}
            ELSE {lateWrites}
  /\ sent' = FALSE
  /\ exitCode' = IF pc' = "exited" THEN 1 ELSE exitCode
  /\ UNCHANGED <<setting, cancelled, tick, contacted, broker>>

-----------------------------------------------------------------------------
(* Waiting. *)

Quit ==
  /\ cancelled
  /\ pc' = "exited" /\ exitCode' = 0
  /\ UNCHANGED <<sent, setting, mode, cancelled, tick, heard, resizing, history, broker>>

Go(stage) ==
  /\ pc' = stage
  /\ UNCHANGED <<sent, setting, mode, cancelled, exitCode, heard, resizing, history, broker>>

(* Faulty: the wait between two probes does not look at the context. *)
WaitTimerOnly == {"timer"}

(* Faulty: the wait between two probes has no timer. *)
WaitDoneOnly == {"done"}

(* The cases of the select between two probes. *)
WaitCases == {"done", "timer"}

(* WaitForRabbitMQ's select, after a probe that failed: it never gives up. *)
StopWaiting == pc = "wait" /\ "done" \in WaitCases /\ Quit
ProbeAgain == pc = "wait" /\ "timer" \in WaitCases /\ Go("probe") /\ UNCHANGED tick

(* Run's select.  Of two cases that are ready Go picks one at random. *)
StopLoop == pc = "select" /\ Quit
NextEvaluation == pc = "select" /\ tick /\ Go("overview") /\ tick' = FALSE

(* The ticker runs from the first evaluation on; its channel holds one tick. *)
TickerFires ==
  /\ pc \in Calls \cup {"select"} /\ pc \notin Preflight \cup {"probe"}
  /\ ~tick /\ tick' = TRUE
  /\ UNCHANGED <<pc, sent, setting, mode, cancelled, exitCode, heard, resizing, history, broker>>

-----------------------------------------------------------------------------
(* What happens to the process and the broker. *)

(* The kubelet starts the container, again whenever it has ended. *)
Start ==
  /\ pc \in {"down", "exited"}
  /\ pc' = IF setting = "rolling" THEN "probe" ELSE "discover"
  /\ mode' = IF setting = "rolling" THEN "rolling" ELSE "unresolved"
  /\ cancelled' = FALSE /\ sent' = FALSE /\ tick' = FALSE
  /\ sample' = NoSample /\ recommended' = NotTracked /\ seen' = {}
  /\ left' = 0 /\ clean' = TRUE
  /\ contacted' = FALSE /\ lateWrites' = 0
  /\ UNCHANGED <<setting, exitCode, broker>>

Signal ==
  /\ "signal" \in Events
  /\ pc \notin {"down", "exited"} /\ ~cancelled
  /\ cancelled' = TRUE
  /\ UNCHANGED <<pc, sent, setting, mode, tick, exitCode, heard, resizing, history, broker>>

Kill ==
  /\ "kill" \in Events
  /\ pc \notin {"down", "exited"}
  /\ pc' = "down"
  /\ UNCHANGED <<sent, setting, mode, cancelled, tick, exitCode, heard, resizing, history, broker>>

BrokerChanges ==
  /\ broker' \in [up: BOOLEAN, load: Loads] \ {broker}
  /\ UNCHANGED <<run, heard, resizing, history>>

Next ==
  \/ Start \/ Send \/ Return
  \/ StopWaiting \/ ProbeAgain \/ StopLoop \/ NextEvaluation \/ TickerFires
  \/ Signal \/ Kill \/ BrokerChanges

(* Calls end: the broker's by their timeout, the others because the API server
   answers.  Timers fire, and a random choice between two ready cases does not
   go the same way for ever. *)
Fairness ==
  /\ WF_vars(Start) /\ WF_vars(Send) /\ WF_vars(Return)
  /\ WF_vars(ProbeAgain) /\ WF_vars(TickerFires) /\ WF_vars(NextEvaluation)
  /\ SF_vars(StopWaiting) /\ SF_vars(StopLoop)

SafetySpec == Init /\ [][Next]_vars
Spec == SafetySpec /\ Fairness

-----------------------------------------------------------------------------
(***************************************************************************)
(* Properties.                                                             *)
(***************************************************************************)

(* The overview and the queues of one evaluation come from two requests, and
   the load moves between them (ApplyScale).  The profile they call for is at
   most the highest that one of the two loads calls for, whatever fails. *)
CallsFor(load) ==
  CalculateScaleProfile([overviewOK |-> TRUE, depths |-> load.depths \cup {0},
                         rate |-> load.rate], Cfg)

NeverAboveTheLoads ==
  recommended \in ProfilesOf(Cfg) =>
    \E load \in seen :
      GetProfilePriority(recommended, Cfg) <= GetProfilePriority(CallsFor(load), Cfg)

(* A signal lets at most the write that is under way happen, also between two
   calls of applyResources: Run's context is the one of every call, so a
   process that is told to stop stops scaling. *)
OneLateWrite == lateWrites <= 1

(* Only the preflight of an explicit in-place mode ends the process with code
   1, "before we wait for RabbitMQ or touch the cluster" (Run), and one that
   does not pass always does: nothing is contacted in another mode than the one
   that is asked for.  Later a process ends only when told to, with code 0. *)
AsAsked == mode # "unresolved" /\ (setting # "auto" => mode = setting)

EndsAsPromised ==
  /\ contacted => AsAsked
  /\ pc = "exited" => \/ exitCode = 1 /\ setting = "inplace" /\ ~contacted
                      \/ exitCode = 0 /\ cancelled

(* A process that is told to stop does, wherever it is (runCmd, Run,
   WaitForRabbitMQ). *)
SignalEndsRun == cancelled ~> pc \in {"exited", "down"}

(* However often the broker has been away, at startup or later, once it stays
   the process evaluates its load again and again. *)
Undisturbed == broker.up /\ broker.load.depths # {} /\ ~cancelled /\ pc \notin {"down", "exited"}

ServesWhileUp == <>[]Undisturbed => []<>(pc = "getCluster")
=============================================================================
