---------------------------- MODULE InPlaceResize ----------------------------
(***************************************************************************)
(* The inside of applyResources (internal/controller/controller.go): how   *)
(* the scaler moves a RabbitMQ cluster to another profile, in place or by  *)
(* letting the operator roll the pods, and how it chooses between the two  *)
(* when it starts.  Each call to the API server is a step, so the kubelet, *)
(* the operator with the StatefulSet controller, whoever deletes pods or   *)
(* edits RBAC, and a crash of the scaler come between any two of them.     *)
(*                                                                         *)
(* A profile is only a value here (a "size"); what it requests and when    *)
(* the loop asks for it is ControlLoop's business.  "Faulty:" marks bugs   *)
(* that the properties are tried against; nothing uses them.               *)
(***************************************************************************)
EXTENDS Naturals

CONSTANTS
  Sizes,       \* the profiles
  PodCount,    \* the replicas of the RabbitmqCluster
  Settings,    \* the SCALE_MODE values the Deployment is given over time
  Supports,    \* whether the API server may have, or lack, pods/resize
  Verdicts,    \* {} or {"Infeasible"}: whether nodes may be too small for a resize
  Events,      \* what may happen around the scaler: a subset of AllEvents
  MaxFaults,   \* bound on the API calls that fail and on the crashes
  MaxChanges   \* bound on the changes of recommendation, deletions and edits of RBAC

AllSettings == {"auto", "inplace", "rolling"}
AllEvents == {"crash", "delete", "rbac", "quota"}

ASSUME ConstantsAssumption ==
  /\ PodCount \in Nat \ {0}
  /\ Settings \subseteq AllSettings
  /\ Supports \subseteq BOOLEAN
  /\ Verdicts \subseteq {"Infeasible"}
  /\ Events \subseteq AllEvents
  /\ MaxFaults \in Nat /\ MaxChanges \in Nat

(* The pods by their ordinals, which is also the order of a pod list. *)
Pods == 0..(PodCount - 1)

(* What CheckResizePermissions asks for. *)
AllRights == {"patch pods/resize", "list pods"}

VARIABLES
  \* The scaler:
  pc,          \* where Run and applyResources stand
  setting,     \* c.cfg.ScaleMode
  mode,        \* c.mode, the effective mode cached at startup
  want,        \* the profile the loop asks for
  target,      \* the profile being applied
  todo,        \* the listed pods that are still to be resized
  failures,    \* the kinds of error ResizePods has collected
  \* The cluster:
  cr,          \* the RabbitmqCluster: requested size and strategy override
  sts,         \* the StatefulSet the operator has last derived from it
  pods,        \* the pods
  supported,   \* whether the API server has pods/resize
  rights,      \* what RBAC grants the scaler, of AllRights
  \* Budgets:
  faults, changes,
  \* History, read by the properties only:
  granted,     \* the rights the scaler has ever had
  rolling,     \* whether the rolling mode or a fallback has ever been entered
  rolled,      \* the pods the StatefulSet controller has replaced
  listed,      \* the pods listed by the current attempt and not replaced since
  grounds      \* what has stood in the way of the resize under way, of AllGrounds

local == <<setting, mode, target, todo, failures>>
cluster == <<cr, sts, pods>>
access == <<supported, rights, granted>>
vars == <<pc, want, local, cluster, access, faults, changes, rolling, rolled, listed, grounds>>

Stages == {"down", "reviewResize", "reviewList", "idle", "ensure", "list", "resize",
           "verify", "revert", "patch"}
Resizing == {"ensure", "list", "resize", "verify", "revert"}
Applying == Resizing \cup {"patch"}
Failures == {"infeasible", "permission", "other"}
Strategies == {"unset", "OnDelete", "RollingUpdate"}

(* A right is missing, a quota forbids the size, or a node has no room for it;
   or there was none for an earlier size, and the pod's condition still says so. *)
AllGrounds == {"right", "quota", "room", "earlier"}

Spec0 == [size: Sizes, strategy: Strategies]

(* from: the template the pod was created from, which is its StatefulSet
   revision.  judged: the kubelet has looked at the request.  infeasible: the
   PodResizePending condition with that reason is on the pod. *)
Pod == [present: BOOLEAN, from: Sizes, requested: Sizes, judged: BOOLEAN, infeasible: BOOLEAN]

NewPod(size) ==
  [present |-> TRUE, from |-> size, requested |-> size, judged |-> TRUE, infeasible |-> FALSE]

(* Every variable keeps its type, and a resize in progress has a pod at hand. *)
TypeOK ==
  /\ pc \in Stages
  /\ setting \in AllSettings
  /\ mode \in {"", "inplace", "rolling"}
  /\ want \in Sizes /\ target \in Sizes
  /\ todo \subseteq Pods /\ listed \subseteq Pods /\ rolled \subseteq Pods
  /\ failures \subseteq Failures
  /\ pc = "verify" => todo # {}
  /\ cr \in Spec0 /\ sts \in Spec0
  /\ pods \in [Pods -> Pod]
  /\ supported \in BOOLEAN /\ rolling \in BOOLEAN
  /\ rights \subseteq AllRights /\ granted \subseteq AllRights
  /\ faults \in 0..MaxFaults /\ changes \in 0..MaxChanges
  /\ grounds \subseteq AllGrounds

Init ==
  /\ pc = "down" /\ mode = ""
  /\ setting \in Settings
  /\ want \in Sizes /\ target = want
  /\ todo = {} /\ failures = {} /\ listed = {}
  /\ cr = [size |-> want, strategy |-> "unset"] /\ sts = cr
  /\ pods = [p \in Pods |-> NewPod(want)]
  /\ supported \in Supports
  /\ rights \in (IF "rbac" \in Events THEN SUBSET AllRights ELSE {AllRights})
  /\ granted = rights
  /\ faults = 0 /\ changes = 0
  /\ rolling = FALSE /\ rolled = {} /\ grounds = {}

-----------------------------------------------------------------------------
(* Calls may fail, and a write that fails for the client may have landed. *)
Spend(outcome) ==
  IF outcome = "ok" THEN UNCHANGED faults
  ELSE faults < MaxFaults /\ faults' = faults + 1

ReadOutcomes == {"ok", "failed"}
WriteOutcomes == {"ok", "failed", "replyLost"}

-----------------------------------------------------------------------------
(* Startup: Run resolves the mode before anything else. *)

(* Faulty: the configured mode is cached, not the effective one. *)
ResolveAsConfigured(m) ==
  /\ mode' = setting
  /\ pc' = "idle"
  /\ rolling' = (rolling \/ m = "rolling")

Resolve(m) ==
  /\ mode' = m
  /\ pc' = "idle"
  /\ rolling' = (rolling \/ m = "rolling")

(* auto degrades to rolling; an explicit inplace exits and is started again. *)
Refuse ==
  \/ setting = "auto" /\ Resolve("rolling")
  \/ setting = "inplace" /\ pc' = "down" /\ UNCHANGED <<mode, rolling>>

(* EffectiveScaleMode up to the permission check.  A discovery error counts
   as unsupported; an explicit inplace only warns. *)
Discover ==
  /\ pc = "down"
  /\ \/ setting = "rolling" /\ Resolve("rolling") /\ UNCHANGED faults
     \/ /\ setting # "rolling"
        /\ \E outcome \in ReadOutcomes :
             /\ IF setting = "auto" /\ ~(outcome = "ok" /\ supported)
                THEN Resolve("rolling")
                ELSE pc' = "reviewResize" /\ UNCHANGED <<mode, rolling>>
             /\ Spend(outcome)
  /\ UNCHANGED <<setting, want, target, todo, failures, cluster, access, changes, rolled,
                 listed, grounds>>

(* Faulty: a review that could not be made counts as granted. *)
GrantedOrUnknown(right, outcome) == outcome = "failed" \/ right \in rights

Granted(right, outcome) == outcome = "ok" /\ right \in rights

(* One SelfSubjectAccessReview.  An error and a denial end in the same mode. *)
Review(right, accept) ==
  /\ \E outcome \in ReadOutcomes :
       /\ IF Granted(right, outcome) THEN accept ELSE Refuse
       /\ Spend(outcome)
  /\ UNCHANGED <<setting, want, target, todo, failures, cluster, access, changes, rolled,
                 listed, grounds>>

ReviewResize ==
  pc = "reviewResize"
  /\ Review("patch pods/resize", pc' = "reviewList" /\ UNCHANGED <<mode, rolling>>)

ReviewList == pc = "reviewList" /\ Review("list pods", Resolve("inplace"))

-----------------------------------------------------------------------------
(* One scale action. *)

(* The grounds for a restart that there are as things stand. *)
Grounds(size) ==
  LET unfit == {p \in Pods : pods[p].present /\ pods[p].infeasible}
      found == {p \in unfit : pods[p].judged /\ pods[p].requested = size}
  IN  {ground \in AllGrounds : \/ ground = "right" /\ rights # AllRights
                               \/ ground = "room" /\ found # {}
                               \/ ground = "earlier" /\ unfit # found}

Keep(reasons) == grounds' = IF pc' \in Resizing THEN reasons ELSE {}

(* ApplyScale reaches applyResources: the recommendation is stable and is not
   what the RabbitmqCluster requests, or what it requests could not be read. *)
Begin ==
  /\ pc = "idle"
  /\ \E outcome \in ReadOutcomes :
       /\ outcome = "failed" \/ want # cr.size
       /\ Spend(outcome)
  /\ target' = want
  /\ pc' = IF mode = "inplace" THEN "ensure" ELSE "patch"
  /\ todo' = {} /\ failures' = {} /\ listed' = {}
  /\ Keep(Grounds(want))
  /\ UNCHANGED <<setting, mode, want, cluster, access, changes, rolling, rolled>>

(* Faulty: the override is best effort. *)
NextAnyway(outcome, next) == next

NextUnlessFailed(outcome, next) == IF outcome = "ok" THEN next ELSE "idle"

(* Faulty: one patch writes the override and the new size. *)
SetStrategyAndSize(value, next) ==
  /\ \E outcome \in WriteOutcomes :
       /\ cr' = IF outcome = "failed" THEN cr ELSE [size |-> target, strategy |-> value]
       /\ pc' = NextUnlessFailed(outcome, next)
       /\ Spend(outcome)
  /\ UNCHANGED <<want, local, sts, pods, access, changes, rolling, rolled, listed>>
  /\ Keep(grounds)

(* setUpdateStrategy: an error ends the action. *)
SetUpdateStrategy(value, next) ==
  /\ \E outcome \in WriteOutcomes :
       /\ cr' = IF outcome = "failed" THEN cr ELSE [cr EXCEPT !.strategy = value]
       /\ pc' = NextUnlessFailed(outcome, next)
       /\ Spend(outcome)
  /\ UNCHANGED <<want, local, sts, pods, access, changes, rolling, rolled, listed>>
  /\ Keep(grounds)

EnsureOnDeleteStrategy == pc = "ensure" /\ SetUpdateStrategy("OnDelete", "list")

SetRollingUpdateStrategy == pc = "revert" /\ SetUpdateStrategy("RollingUpdate", "patch")

(* ResizePods lists the pods; finding none is an error. *)
ListPods ==
  /\ pc = "list"
  /\ pc' = "resize"
  /\ \E outcome \in ReadOutcomes :
       LET found == {p \in Pods : pods[p].present}
           allowed == "list pods" \in rights IN
       /\ todo' = IF allowed /\ outcome = "ok" THEN found ELSE {}
       /\ failures' = CASE outcome = "failed" -> {"other"}
                        [] ~allowed -> {"permission"}
                        [] OTHER -> IF found = {} THEN {"other"} ELSE {}
       /\ Spend(outcome)
  /\ listed' = todo'
  /\ UNCHANGED <<setting, mode, want, target, cluster, access, changes, rolling, rolled,
                 grounds>>

Current == CHOOSE p \in todo : \A q \in todo : p <= q

(* A patch that changes nothing gives the kubelet nothing to look at. *)
Resized(pod) ==
  IF pod.requested = target THEN pod ELSE [pod EXCEPT !.requested = target, !.judged = FALSE]

Accepted == supported /\ "patch pods/resize" \in rights /\ pods[Current].present

(* Why the API server may turn a pods/resize patch down: beside a missing right
   and a missing pod or subresource, a newer one refuses at once what does not
   fit on the node, and a quota what is too much for the namespace. *)
Refusals ==
  IF "patch pods/resize" \notin rights THEN {"right"}
  ELSE IF ~Accepted THEN {"notFound"}
  ELSE {reason \in {"room", "quota"} :
          /\ pods[Current].requested # target
          /\ IF reason = "room" THEN Verdicts # {} ELSE "quota" \in Events}

(* Faulty: whatever is not about the node counts as a missing permission. *)
RejectionUnlessRoom(reason) == IF reason = "room" THEN "infeasible" ELSE "permission"

(* How ResizePods takes it: any 403 that is not about the node is a missing
   permission. *)
Rejection(reason) ==
  CASE reason = "room" -> "infeasible"
    [] reason \in {"right", "quota"} -> "permission"
    [] OTHER -> "other"

(* Faulty: only the last pod's error is returned. *)
LastError(errors) == errors

Joined(errors) == failures \cup errors

(* The loop goes on to the next pod, whatever became of this one. *)
NextPod(errors) ==
  /\ pc' = "resize"
  /\ todo' = todo \ {Current}
  /\ failures' = Joined(errors)

PatchPod == pods' = [pods EXCEPT ![Current] = Resized(@)]

(* One pods/resize patch: accepted, refused, or lost on the way. *)
ResizePod ==
  /\ pc = "resize" /\ todo # {}
  /\ \/ Accepted /\ PatchPod /\ pc' = "verify" /\ UNCHANGED <<todo, failures, faults, grounds>>
     \/ \E reason \in Refusals :
          /\ NextPod({Rejection(reason)})
          /\ grounds' = grounds \cup ({reason} \cap AllGrounds)
          /\ UNCHANGED <<pods, faults>>
     \/ Accepted /\ PatchPod /\ NextPod({"other"}) /\ Spend("replyLost") /\ UNCHANGED grounds
     \/ NextPod({"other"}) /\ Spend("failed") /\ UNCHANGED <<pods, grounds>>
  /\ UNCHANGED <<setting, mode, want, target, cr, sts, access, changes, rolling, rolled, listed>>

(* checkResizeFeasible: reads whatever condition is there now, stale or not;
   a failed read and a vanished pod pass. *)
CheckResizeFeasible ==
  /\ pc = "verify"
  /\ \E outcome \in ReadOutcomes :
       /\ NextPod(IF outcome = "ok" /\ pods[Current].present /\ pods[Current].infeasible
                  THEN {"infeasible"} ELSE {})
       /\ Spend(outcome)
  /\ UNCHANGED <<setting, mode, want, target, cluster, access, changes, rolling, rolled,
                 listed, grounds>>

(* Faulty: any failed resize is a reason to roll. *)
FallsBackOnAnyError == setting = "auto" /\ failures # {}

FallsBack == setting = "auto" /\ failures \cap {"infeasible", "permission"} # {}

(* ResizePods has returned: sync the RabbitmqCluster, fall back, or give up. *)
AfterResize ==
  /\ pc = "resize" /\ todo = {}
  /\ pc' = IF failures = {} THEN "patch" ELSE IF FallsBack THEN "revert" ELSE "idle"
  /\ rolling' = (rolling \/ FallsBack)
  /\ UNCHANGED <<want, local, cluster, access, faults, changes, rolled, listed>>
  /\ Keep(grounds)

(* ApplyPatch; afterwards, or on an error, the action is over. *)
ApplyPatch ==
  /\ pc = "patch"
  /\ pc' = "idle"
  /\ \E outcome \in WriteOutcomes :
       /\ cr' = IF outcome = "failed" THEN cr ELSE [cr EXCEPT !.size = target]
       /\ Spend(outcome)
  /\ UNCHANGED <<want, local, sts, pods, access, changes, rolling, rolled, listed, grounds>>

(* The process dies, or the Deployment is updated to another SCALE_MODE. *)
Crash ==
  /\ "crash" \in Events
  /\ pc # "down" /\ pc' = "down"
  /\ Spend("failed")
  /\ mode' = "" /\ setting' \in Settings
  /\ todo' = {} /\ failures' = {} /\ listed' = {} /\ grounds' = {}
  /\ UNCHANGED <<want, target, cluster, access, changes, rolling, rolled>>

-----------------------------------------------------------------------------
(* What happens around the scaler; only the first is code of this repository. *)

Disturb == changes < MaxChanges /\ changes' = changes + 1

(* CalculateScaleProfile and CheckProfileStability settle on another profile,
   seen by the next evaluation. *)
ChangeWant ==
  /\ Disturb
  /\ want' \in Sizes \ {want}
  /\ UNCHANGED <<pc, local, cluster, access, faults, rolling, rolled, listed, grounds>>

(* The cluster operator brings the StatefulSet up to date with the resource. *)
Reconcile ==
  /\ sts # cr /\ sts' = cr
  /\ UNCHANGED <<pc, want, local, cr, pods, access, faults, changes, rolling, rolled,
                 listed, grounds>>

(* The kubelet looks at a new request and carries it out, or finds that the
   node can never fit it. *)
Kubelet(p) ==
  /\ pods[p].present /\ ~pods[p].judged
  /\ \E stuck \in {v = "Infeasible" : v \in Verdicts \cup {""}} :
       pods' = [pods EXCEPT ![p] = [@ EXCEPT !.judged = TRUE, !.infeasible = stuck]]
  /\ UNCHANGED <<pc, want, local, cr, sts, access, faults, changes, rolling, rolled, listed>>
  /\ Keep(grounds \cup Grounds(target)')

Remove(p) ==
  /\ pods' = [pods EXCEPT ![p].present = FALSE]
  /\ listed' = listed \ {p}
  /\ UNCHANGED <<pc, want, local, cr, sts, access, faults, rolling, grounds>>

(* The StatefulSet controller rolls pods of another revision one at a time,
   unless the strategy is OnDelete.  It compares revisions, not live requests. *)
RollPod(p) ==
  /\ sts.strategy # "OnDelete"
  /\ \A q \in Pods : pods[q].present
  /\ pods[p].from # sts.size
  /\ Remove(p)
  /\ rolled' = rolled \cup {p}
  /\ UNCHANGED changes

(* A node drain, an eviction, a hand. *)
DeletePod(p) ==
  /\ "delete" \in Events /\ Disturb
  /\ \A q \in Pods : pods[q].present
  /\ Remove(p)
  /\ UNCHANGED rolled

CreatePod(p) ==
  /\ ~pods[p].present
  /\ pods' = [pods EXCEPT ![p] = NewPod(sts.size)]
  /\ UNCHANGED <<pc, want, local, cr, sts, access, faults, changes, rolling, rolled,
                 listed, grounds>>

(* An administrator edits the scaler's Role. *)
EditRBAC ==
  /\ "rbac" \in Events /\ Disturb
  /\ rights' \in SUBSET AllRights \ {rights}
  /\ granted' = granted \cup rights'
  /\ UNCHANGED <<pc, want, local, cluster, supported, faults, rolling, rolled, listed>>
  /\ Keep(grounds \cup Grounds(target)')

-----------------------------------------------------------------------------
ScalerStep ==
  \/ Discover \/ ReviewResize \/ ReviewList
  \/ Begin \/ EnsureOnDeleteStrategy \/ ListPods \/ ResizePod \/ CheckResizeFeasible
  \/ AfterResize \/ SetRollingUpdateStrategy \/ ApplyPatch

Next ==
  \/ ScalerStep
  \/ Crash
  \/ ChangeWant
  \/ Reconcile
  \/ EditRBAC
  \/ \E p \in Pods : Kubelet(p) \/ RollPod(p) \/ DeletePod(p) \/ CreatePod(p)

(* Between two calls the scaler only waits for answers and for its ticker, so
   it keeps going; so do the controllers of the cluster. *)
Fairness ==
  /\ WF_vars(ScalerStep)
  /\ WF_vars(Reconcile)
  /\ \A p \in Pods : WF_vars(Kubelet(p)) /\ WF_vars(RollPod(p)) /\ WF_vars(CreatePod(p))

SafetySpec == Init /\ [][Next]_vars
Spec == SafetySpec /\ Fairness
-----------------------------------------------------------------------------
(* Properties *)

(* No pod is ever rolled by the StatefulSet controller unless the scaler has
   entered the rolling mode or a fallback: the override is in place before
   the RabbitmqCluster's size is, whatever calls fail, wherever the scaler
   dies and however late the operator catches up (README.md:36). *)
RollsOnlyAfterFallback == rolled # {} => rolling

(* The cluster carries the OnDelete override only if the scaler has been seen
   to hold every right a resize needs (applyResources' comment: OnDelete is
   never set without permission). *)
OverrideNeedsPermission == cr.strategy = "OnDelete" => granted = AllRights

(* Under the override the RabbitmqCluster records a new size only after every
   pod that was listed, and not replaced since, requests that size: a scale
   that reached some of the pods is not recorded as done. *)
RecordedAfterEveryPod ==
  [][ cr'.size # cr.size /\ mode = "inplace" /\ cr.strategy = "OnDelete"
        => \A p \in listed : pods[p].requested = target ]_vars

(* The override is given up for a rolling restart only in auto mode, and only
   with a reason in the world: since the attempt began a right was missing, a
   quota was in the way, or a node had no room for what a pod was to get or (a
   condition that is still there) for what it was to get before.  A call that
   merely failed, a lost reply, a pod that vanished between the list and its
   patch and a right that was back before the attempt never add up to one. *)
FallbackIsEarned ==
  [][ cr.strategy = "OnDelete" /\ cr'.strategy = "RollingUpdate"
        => setting = "auto" /\ grounds # {} ]_vars

(* The error that lets auto mode roll means that this resize was rejected (the
   node can never fit the requested resources, scaling.go:27-28), or that it
   was not permitted.  The code does not keep it. *)
FallbackIsDue ==
  [][ cr.strategy = "OnDelete" /\ cr'.strategy = "RollingUpdate"
        => grounds \cap {"right", "room"} # {} ]_vars

(* An in-place scale to a size the RabbitmqCluster does not record yet is
   finished by the retries, whatever fails and wherever the scaler dies, unless
   the recommendation moves on. *)
RetryReachesEveryPod ==
  \A size \in Sizes :
    pc = "ensure" /\ target = size /\ cr.size # size
      ~> want # size \/ (cr.size = size /\ \A p \in Pods : pods[p].requested = size)

(* Nothing is under way any more: the operator and the kubelet have caught up,
   no pod is missing or waits to be rolled, and the loop is where it wants to be. *)
Settled ==
  /\ pc = "idle" /\ want = cr.size /\ sts = cr
  /\ \A p \in Pods : /\ pods[p].present /\ pods[p].judged
                     /\ sts.strategy = "OnDelete" \/ pods[p].from = sts.size

(* The RabbitmqCluster is the source of truth: once all is settled, every pod
   requests what it says (applyResources' comment).  The code does not keep it. *)
SourceOfTruth == Settled => \A p \in Pods : pods[p].requested = cr.size

(* applyResources keeps what the loop relies on (ScaleAction): between its
   dozen calls, failures and crashes the RabbitmqCluster's size changes once
   and last, to the size of the attempt, or not at all. *)
Action == INSTANCE ScaleAction WITH
  Sizes <- Sizes, recorded <- cr.size,
  attempt <- IF pc \in Applying THEN {target} ELSE {}

ScalesAtomically == Action!Spec

(* In the rolling mode a change of the RabbitmqCluster is rolled out by the
   operator (README.md:153).  The code does not keep it. *)
RollingModeRolls ==
  [][ cr'.size # cr.size /\ mode = "rolling" => cr.strategy # "OnDelete" ]_vars
==============================================================================
