------------------------ MODULE InPlaceResize_proofs ------------------------
(***************************************************************************)
(* Proofs about InPlaceResize, for any number of pods, profiles, failed    *)
(* calls and outside events.                                               *)
(***************************************************************************)
EXTENDS InPlaceResize, WellFoundedInduction, TLAPS

(* The fields of the cluster's objects. *)
LEMMA Fields ==
  ASSUME TypeOK, NEW size \in Sizes, NEW strategy \in Strategies
  PROVE  /\ [cr EXCEPT !.size = size] \in Spec0
         /\ [cr EXCEPT !.strategy = strategy] \in Spec0
         /\ NewPod(size) \in Pod
BY DEF TypeOK, Spec0, Pod, NewPod

LEMMA ResizedType ==
  ASSUME TypeOK, NEW p \in Pods
  PROVE  Resized(pods[p]) \in Pod
BY DEF TypeOK, Pod, Resized

(* The variables of a step, grouped as the actions leave them alone. *)
LEMMA Unchanged ==
  /\ UNCHANGED local => UNCHANGED <<setting, mode, target, todo, failures>>
  /\ UNCHANGED cluster => UNCHANGED <<cr, sts, pods>>
  /\ UNCHANGED access => UNCHANGED <<supported, rights, granted>>
BY DEF local, cluster, access

LEMMA SpendType ==
  ASSUME TypeOK, NEW outcome, Spend(outcome)
  PROVE  faults' \in 0..MaxFaults
<1>1. faults \in 0..MaxFaults
  BY DEF TypeOK
<1> QED BY <1>1, ConstantsAssumption DEF Spend

LEMMA DisturbType ==
  ASSUME TypeOK, Disturb
  PROVE  changes' \in 0..MaxChanges
<1>1. changes \in 0..MaxChanges
  BY DEF TypeOK
<1> QED BY <1>1, ConstantsAssumption DEF Disturb

LEMMA GroundsType ==
  /\ \A size : Grounds(size) \subseteq AllGrounds
  /\ \A reasons \in SUBSET AllGrounds : Keep(reasons) => grounds' \subseteq AllGrounds
BY DEF Grounds, Keep

-----------------------------------------------------------------------------
(* Type correctness, action by action. *)
LEMMA TypeInit == Init => TypeOK
<1> SUFFICES ASSUME Init PROVE TypeOK
  OBVIOUS
<1>1. cr \in Spec0 /\ sts \in Spec0 /\ pods \in [Pods -> Pod]
  BY DEF Init, Spec0, Strategies, NewPod, Pod
<1>2. rights \subseteq AllRights /\ granted \subseteq AllRights
  BY DEF Init
<1>3. supported \in BOOLEAN /\ setting \in AllSettings
  BY ConstantsAssumption DEF Init
<1>4. faults \in 0..MaxFaults /\ changes \in 0..MaxChanges
  <2>1. faults = 0 /\ changes = 0
    BY DEF Init
  <2> QED BY <2>1, ConstantsAssumption
<1> QED BY <1>1, <1>2, <1>3, <1>4 DEF Init, TypeOK, Stages

USE DEF ReadOutcomes, WriteOutcomes, Stages

LEMMA TypeStartup ==
  ASSUME TypeOK, Discover \/ ReviewResize \/ ReviewList
  PROVE  TypeOK'
<1>1. CASE Discover
  <2>1. pc' \in {"idle", "reviewResize"} /\ rolling' \in BOOLEAN
        /\ mode' \in {"", "inplace", "rolling"}
    BY <1>1 DEF Discover, Resolve, TypeOK
  <2>2. faults' \in 0..MaxFaults
    BY <1>1, SpendType DEF Discover, TypeOK
  <2> QED BY <1>1, <2>1, <2>2, Unchanged DEF Discover, TypeOK
<1>2. CASE ReviewResize
  <2>1. pc' \in {"idle", "down", "reviewList"} /\ rolling' \in BOOLEAN
        /\ mode' \in {"", "inplace", "rolling"}
    BY <1>2 DEF ReviewResize, Review, Refuse, Resolve, TypeOK
  <2>2. faults' \in 0..MaxFaults
    BY <1>2, SpendType DEF ReviewResize, Review
  <2> QED BY <1>2, <2>1, <2>2, Unchanged DEF ReviewResize, Review, TypeOK
<1>3. CASE ReviewList
  <2>1. pc' \in {"idle", "down"} /\ rolling' \in BOOLEAN
        /\ mode' \in {"", "inplace", "rolling"}
    BY <1>3 DEF ReviewList, Review, Refuse, Resolve, TypeOK
  <2>2. faults' \in 0..MaxFaults
    BY <1>3, SpendType DEF ReviewList, Review
  <2> QED BY <1>3, <2>1, <2>2, Unchanged DEF ReviewList, Review, TypeOK
<1> QED BY <1>1, <1>2, <1>3

LEMMA TypeBegin == ASSUME TypeOK, Begin PROVE TypeOK'
<1>1. faults' \in 0..MaxFaults
  BY SpendType DEF Begin
<1>2. grounds' \subseteq AllGrounds
  BY GroundsType DEF Begin
<1> QED BY <1>1, <1>2, Unchanged DEF Begin, TypeOK

LEMMA TypeStrategy ==
  ASSUME TypeOK, EnsureOnDeleteStrategy \/ SetRollingUpdateStrategy
  PROVE  TypeOK'
<1>1. PICK value \in {"OnDelete", "RollingUpdate"}, next \in {"list", "patch"} :
        SetUpdateStrategy(value, next)
  BY DEF EnsureOnDeleteStrategy, SetRollingUpdateStrategy
<1>2. faults' \in 0..MaxFaults
  BY <1>1, SpendType DEF SetUpdateStrategy
<1>3. value \in Strategies
  BY DEF Strategies
<1>4. cr' \in Spec0
  BY <1>1, <1>3, Fields DEF SetUpdateStrategy, TypeOK
<1>5. pc' \in {"list", "patch", "idle"}
  BY <1>1 DEF SetUpdateStrategy, NextUnlessFailed
<1>6. grounds' \subseteq AllGrounds
  BY <1>1, GroundsType DEF SetUpdateStrategy, TypeOK
<1> QED BY <1>1, <1>2, <1>4, <1>5, <1>6, Unchanged DEF SetUpdateStrategy, TypeOK

LEMMA TypeList == ASSUME TypeOK, ListPods PROVE TypeOK'
<1>1. faults' \in 0..MaxFaults
  BY SpendType DEF ListPods
<1>2. todo' \subseteq Pods /\ failures' \subseteq Failures /\ listed' \subseteq Pods
  BY DEF ListPods, Failures
<1> QED BY <1>1, <1>2, Unchanged DEF ListPods, TypeOK

LEMMA TypeResize ==
  ASSUME TypeOK, ResizePod \/ CheckResizeFeasible \/ AfterResize
  PROVE  TypeOK'
<1>1. CASE ResizePod
  <2>1. pods' \in [Pods -> Pod]
    <3>1. CASE UNCHANGED pods
      BY <3>1 DEF TypeOK
    <3>2. CASE PatchPod
      <4>1. Current \in Pods => Resized(pods[Current]) \in Pod
        BY ResizedType
      <4>2. pods' = [pods EXCEPT ![Current] = Resized(pods[Current])]
        BY <3>2 DEF PatchPod
      <4> QED BY <4>1, <4>2 DEF TypeOK
    <3> QED BY <1>1, <3>1, <3>2 DEF ResizePod
  <2>2. faults' \in 0..MaxFaults
    BY <1>1, SpendType DEF ResizePod, TypeOK
  <2>3. /\ todo' \subseteq Pods /\ failures' \subseteq Failures
        /\ pc' \in Stages /\ (pc' = "verify" => todo' # {})
    <3>1. "other" \in Failures /\ \A reason : Rejection(reason) \in Failures
      BY DEF Rejection, Failures
    <3> QED BY <1>1, <3>1 DEF ResizePod, NextPod, Joined, TypeOK
  <2>4. grounds' \subseteq AllGrounds
    BY <1>1 DEF ResizePod, TypeOK
  <2> QED BY <1>1, <2>1, <2>2, <2>3, <2>4, Unchanged DEF ResizePod, TypeOK
<1>2. CASE CheckResizeFeasible
  <2>1. faults' \in 0..MaxFaults
    BY <1>2, SpendType DEF CheckResizeFeasible
  <2>2. todo' \subseteq Pods /\ failures' \subseteq Failures /\ pc' = "resize"
    BY <1>2 DEF CheckResizeFeasible, NextPod, Joined, Failures, TypeOK
  <2> QED BY <1>2, <2>1, <2>2, Unchanged DEF CheckResizeFeasible, TypeOK
<1>3. CASE AfterResize
  <2>1. grounds' \subseteq AllGrounds
    BY <1>3, GroundsType DEF AfterResize, TypeOK
  <2> QED BY <1>3, <2>1, Unchanged DEF AfterResize, TypeOK
<1> QED BY <1>1, <1>2, <1>3

LEMMA TypePatch == ASSUME TypeOK, ApplyPatch \/ Crash PROVE TypeOK'
<1>1. CASE ApplyPatch
  <2>1. faults' \in 0..MaxFaults
    BY <1>1, SpendType DEF ApplyPatch
  <2>2. cr' \in Spec0
    BY <1>1, Fields DEF ApplyPatch, TypeOK, Strategies
  <2> QED BY <1>1, <2>1, <2>2, Unchanged DEF ApplyPatch, TypeOK
<1>2. CASE Crash
  <2>1. faults' \in 0..MaxFaults
    BY <1>2, SpendType DEF Crash
  <2> QED BY <1>2, <2>1, Unchanged, ConstantsAssumption DEF Crash, TypeOK
<1> QED BY <1>1, <1>2

LEMMA TypeOutside ==
  ASSUME TypeOK,
         \/ ChangeWant \/ Reconcile \/ EditRBAC
         \/ \E p \in Pods : Kubelet(p) \/ RollPod(p) \/ DeletePod(p) \/ CreatePod(p)
  PROVE  TypeOK'
<1>g. Keep(grounds \cup Grounds(target)') => grounds' \subseteq AllGrounds
  BY DEF Keep, Grounds, TypeOK
<1>1. CASE ChangeWant
  BY <1>1, DisturbType, Unchanged DEF ChangeWant, TypeOK
<1>2. CASE Reconcile
  BY <1>2, Unchanged DEF Reconcile, TypeOK
<1>3. CASE EditRBAC
  <2>1. rights' \subseteq AllRights /\ granted' \subseteq AllRights
    BY <1>3 DEF EditRBAC, TypeOK
  <2>2. grounds' \subseteq AllGrounds
    BY <1>3, <1>g DEF EditRBAC
  <2> QED BY <1>3, <2>1, <2>2, DisturbType, Unchanged DEF EditRBAC, TypeOK
<1>4. ASSUME NEW p \in Pods, Kubelet(p) PROVE TypeOK'
  <2>1. pods' \in [Pods -> Pod]
    <3>1. PICK stuck \in BOOLEAN :
            pods' = [pods EXCEPT ![p] = [@ EXCEPT !.judged = TRUE, !.infeasible = stuck]]
      BY <1>4 DEF Kubelet
    <3>2. [pods[p] EXCEPT !.judged = TRUE, !.infeasible = stuck] \in Pod
      BY DEF TypeOK, Pod
    <3> QED BY <3>1, <3>2 DEF TypeOK
  <2>2. grounds' \subseteq AllGrounds
    BY <1>4, <1>g DEF Kubelet
  <2> QED BY <1>4, <2>1, <2>2, Unchanged DEF Kubelet, TypeOK
<1>5. ASSUME NEW p \in Pods, Remove(p), rolled' \subseteq Pods, changes' \in 0..MaxChanges
      PROVE  TypeOK'
  <2>1. pods' \in [Pods -> Pod]
    BY <1>5 DEF Remove, TypeOK, Pod
  <2> QED BY <1>5, <2>1, Unchanged DEF Remove, TypeOK
<1>6. ASSUME NEW p \in Pods, RollPod(p) PROVE TypeOK'
  BY <1>5, <1>6 DEF RollPod, TypeOK
<1>7. ASSUME NEW p \in Pods, DeletePod(p) PROVE TypeOK'
  BY <1>5, <1>7, DisturbType DEF DeletePod, TypeOK
<1>8. ASSUME NEW p \in Pods, CreatePod(p) PROVE TypeOK'
  <2>1. pods' \in [Pods -> Pod]
    BY <1>8, Fields DEF CreatePod, TypeOK, Spec0, Strategies
  <2> QED BY <1>8, <2>1, Unchanged DEF CreatePod, TypeOK
<1> QED BY <1>1, <1>2, <1>3, <1>4, <1>6, <1>7, <1>8

LEMMA TypeStep == TypeOK /\ [Next]_vars => TypeOK'
<1> SUFFICES ASSUME TypeOK, [Next]_vars PROVE TypeOK'
  OBVIOUS
<1>1. CASE UNCHANGED vars
  BY <1>1, Unchanged DEF vars, TypeOK
<1> QED BY <1>1, TypeStartup, TypeBegin, TypeStrategy, TypeList, TypeResize, TypePatch,
           TypeOutside DEF Next, ScalerStep

(* Every reachable state has the types the code and the API give its parts. *)
THEOREM TypeCorrect == SafetySpec => []TypeOK
BY TypeInit, TypeStep, PTL DEF SafetySpec

-----------------------------------------------------------------------------
(* Why nothing is rolled: until a rolling mode or a fallback is entered, the
   RabbitmqCluster is as the scaler found it or carries the override, so a
   StatefulSet without the override is still the one the pods were made from. *)
Untouched ==
  /\ rolled = {}
  /\ mode # "rolling" /\ pc # "revert"
  /\ pc \notin {"down", "reviewResize", "reviewList"} => mode = "inplace"
  /\ pc \in {"list", "resize", "verify", "patch"} => cr.strategy = "OnDelete"
  /\ cr.strategy # "OnDelete" => sts = cr
  /\ sts.strategy # "OnDelete" => \A p \in Pods : pods[p].from = sts.size

RestartInv == rolling \/ Untouched

LEMMA RestartInit == Init => RestartInv
<1> SUFFICES ASSUME Init PROVE Untouched
  BY DEF RestartInv
<1>1. \A p \in Pods : pods[p].from = sts.size
  BY DEF Init, NewPod
<1> QED BY <1>1 DEF Init, Untouched

LEMMA RestartStep == TypeOK /\ RestartInv /\ [Next]_vars => RestartInv'
<1> SUFFICES ASSUME TypeOK, Untouched, ~rolling, [Next]_vars, ~rolling' PROVE Untouched'
  <2>1. rolling /\ [Next]_vars => rolling'
    BY DEF Next, ScalerStep, Discover, ReviewResize, ReviewList, Review, Refuse, Resolve, Begin,
           EnsureOnDeleteStrategy, SetRollingUpdateStrategy, SetUpdateStrategy, ListPods,
           ResizePod, CheckResizeFeasible, AfterResize, ApplyPatch, Crash, ChangeWant, Reconcile,
           EditRBAC, Kubelet, RollPod, DeletePod, Remove, CreatePod, vars
  <2> QED BY <2>1 DEF RestartInv
<1>1. CASE Discover
  BY <1>1, Unchanged DEF Discover, Resolve, Untouched
<1>2. CASE ReviewResize
  BY <1>2, Unchanged DEF ReviewResize, Review, Refuse, Resolve, Untouched
<1>3. CASE ReviewList
  BY <1>3, Unchanged DEF ReviewList, Review, Refuse, Resolve, Untouched
<1>4. CASE Begin
  BY <1>4, Unchanged DEF Begin, Untouched
<1>5. CASE EnsureOnDeleteStrategy
  <2>1. PICK outcome \in WriteOutcomes :
          /\ cr' = IF outcome = "failed" THEN cr ELSE [cr EXCEPT !.strategy = "OnDelete"]
          /\ pc' = IF outcome = "ok" THEN "list" ELSE "idle"
    BY <1>5 DEF EnsureOnDeleteStrategy, SetUpdateStrategy, NextUnlessFailed
  <2>2. outcome = "failed" \/ cr'.strategy = "OnDelete"
    BY <2>1 DEF TypeOK, Spec0
  <2>3. pc = "ensure" /\ UNCHANGED <<local, sts, pods, rolled>>
    BY <1>5 DEF EnsureOnDeleteStrategy, SetUpdateStrategy
  <2> QED BY <2>1, <2>2, <2>3, Unchanged DEF Untouched
<1>6. CASE SetRollingUpdateStrategy
  BY <1>6 DEF SetRollingUpdateStrategy, Untouched
<1>7. CASE ListPods
  BY <1>7, Unchanged DEF ListPods, Untouched
<1>8. CASE ResizePod
  <2>1. \A p \in Pods : pods'[p].from = pods[p].from
    <3>1. CASE UNCHANGED pods
      BY <3>1
    <3>2. CASE PatchPod
      <4>1. pods' = [pods EXCEPT ![Current] = Resized(pods[Current])]
        BY <3>2 DEF PatchPod
      <4>2. \A p \in Pods : Resized(pods[p]).from = pods[p].from
        BY DEF Resized, TypeOK, Pod
      <4> QED BY <4>1, <4>2 DEF TypeOK
    <3> QED BY <1>8, <3>1, <3>2 DEF ResizePod
  <2>2. pc' \in {"resize", "verify"} /\ UNCHANGED <<mode, cr, sts, rolled>> /\ pc = "resize"
    BY <1>8 DEF ResizePod, NextPod
  <2> QED BY <2>1, <2>2 DEF Untouched
<1>9. CASE CheckResizeFeasible
  BY <1>9, Unchanged DEF CheckResizeFeasible, NextPod, Untouched
<1>10. CASE AfterResize
  BY <1>10, Unchanged DEF AfterResize, Untouched
<1>11. CASE ApplyPatch
  <2>1. cr'.strategy = "OnDelete"
    BY <1>11 DEF ApplyPatch, Untouched, TypeOK, Spec0
  <2> QED BY <1>11, <2>1, Unchanged DEF ApplyPatch, Untouched
<1>12. CASE Crash
  BY <1>12, Unchanged DEF Crash, Untouched
<1>13. CASE ChangeWant \/ EditRBAC
  BY <1>13, Unchanged DEF ChangeWant, EditRBAC, Untouched
<1>14. CASE Reconcile
  BY <1>14, Unchanged DEF Reconcile, Untouched
<1>15. ASSUME NEW p \in Pods, Kubelet(p) PROVE Untouched'
  <2>1. PICK stuck \in BOOLEAN :
          pods' = [pods EXCEPT ![p] = [@ EXCEPT !.judged = TRUE, !.infeasible = stuck]]
    BY <1>15 DEF Kubelet
  <2>2. \A q \in Pods : pods'[q].from = pods[q].from
    BY <2>1 DEF TypeOK, Pod
  <2> QED BY <1>15, <2>2, Unchanged DEF Kubelet, Untouched
<1>16. ASSUME NEW p \in Pods, RollPod(p) PROVE FALSE
  BY <1>16 DEF RollPod, Untouched
<1>17. ASSUME NEW p \in Pods, DeletePod(p) PROVE Untouched'
  <2>1. \A q \in Pods : pods'[q].from = pods[q].from
    BY <1>17 DEF DeletePod, Remove, TypeOK, Pod
  <2> QED BY <1>17, <2>1, Unchanged DEF DeletePod, Remove, Untouched
<1>18. ASSUME NEW p \in Pods, CreatePod(p) PROVE Untouched'
  <2>1. pods' = [pods EXCEPT ![p] = NewPod(sts.size)] /\ NewPod(sts.size).from = sts.size
    BY <1>18 DEF CreatePod, NewPod
  <2>2. sts.strategy # "OnDelete" => \A q \in Pods : pods'[q].from = sts.size
    BY <2>1 DEF Untouched, TypeOK
  <2> QED BY <1>18, <2>2, Unchanged DEF CreatePod, Untouched
<1>19. CASE UNCHANGED vars
  BY <1>19, Unchanged DEF vars, Untouched
<1> QED BY <1>1, <1>2, <1>3, <1>4, <1>5, <1>6, <1>7, <1>8, <1>9, <1>10, <1>11, <1>12, <1>13,
           <1>14, <1>15, <1>16, <1>17, <1>18, <1>19 DEF Next, ScalerStep

(* The zero-restart promise: whatever calls fail, wherever the scaler dies,
   however late the operator acts and whatever happens to pods and RBAC, no
   pod is rolled unless the rolling mode or a fallback has been entered. *)
THEOREM NoRestartInPlace == SafetySpec => []RollsOnlyAfterFallback
<1>1. RestartInv => RollsOnlyAfterFallback
  BY DEF RestartInv, Untouched, RollsOnlyAfterFallback
<1> QED BY <1>1, RestartInit, RestartStep, TypeCorrect, PTL DEF SafetySpec

-----------------------------------------------------------------------------
(* Why the override needs permission: each access review that passed is still
   in the record of rights when the next one is made, and only an effective
   in-place mode ever reaches EnsureOnDeleteStrategy. *)
PermissionInv ==
  /\ rights \subseteq granted
  /\ pc = "reviewList" => "patch pods/resize" \in granted
  /\ mode = "inplace" => granted = AllRights
  /\ pc = "ensure" => mode = "inplace"
  /\ OverrideNeedsPermission

LEMMA PermissionInit == Init => PermissionInv
<1> SUFFICES ASSUME Init PROVE PermissionInv
  OBVIOUS
<1>1. cr.strategy = "unset" /\ pc = "down" /\ mode = "" /\ granted = rights
  BY DEF Init
<1> QED BY <1>1 DEF PermissionInv, OverrideNeedsPermission

LEMMA PermissionStep == TypeOK /\ PermissionInv /\ [Next]_vars => PermissionInv'
<1> SUFFICES ASSUME TypeOK, PermissionInv, [Next]_vars PROVE PermissionInv'
  OBVIOUS
<1> USE DEF PermissionInv, OverrideNeedsPermission
<1>a. granted \subseteq AllRights
  BY DEF TypeOK
<1>1. CASE Discover
  BY <1>1, Unchanged DEF Discover, Resolve
<1>2. CASE ReviewResize
  <2>1. pc' = "reviewList" => "patch pods/resize" \in granted
    BY <1>2 DEF ReviewResize, Review, Granted, Refuse, Resolve
  <2>2. mode' = mode \/ mode' = "rolling"
    BY <1>2 DEF ReviewResize, Review, Refuse, Resolve
  <2>3. pc' # "ensure"
    BY <1>2 DEF ReviewResize, Review, Refuse, Resolve
  <2> QED BY <1>2, <2>1, <2>2, <2>3, Unchanged DEF ReviewResize, Review
<1>3. CASE ReviewList
  <2>1. mode' = "inplace" => mode = "inplace" \/ "list pods" \in granted
    BY <1>3 DEF ReviewList, Review, Granted, Refuse, Resolve
  <2>2. pc' \in {"idle", "down"} /\ pc = "reviewList"
    BY <1>3 DEF ReviewList, Review, Refuse, Resolve
  <2> QED BY <1>3, <1>a, <2>1, <2>2, Unchanged DEF ReviewList, Review, AllRights
<1>4. CASE Begin
  BY <1>4, Unchanged DEF Begin
<1>5. CASE EnsureOnDeleteStrategy
  <2>1. granted = AllRights
    BY <1>5 DEF EnsureOnDeleteStrategy
  <2>2. pc' \in {"list", "idle"}
    BY <1>5 DEF EnsureOnDeleteStrategy, SetUpdateStrategy, NextUnlessFailed
  <2> QED BY <1>5, <2>1, <2>2, Unchanged DEF EnsureOnDeleteStrategy, SetUpdateStrategy
<1>6. CASE SetRollingUpdateStrategy
  <2>1. cr'.strategy = "OnDelete" => cr.strategy = "OnDelete"
    BY <1>6 DEF SetRollingUpdateStrategy, SetUpdateStrategy, TypeOK, Spec0
  <2>2. pc' \in {"patch", "idle"}
    BY <1>6 DEF SetRollingUpdateStrategy, SetUpdateStrategy, NextUnlessFailed
  <2> QED BY <1>6, <2>1, <2>2, Unchanged DEF SetRollingUpdateStrategy, SetUpdateStrategy
<1>7. CASE ListPods
  BY <1>7, Unchanged DEF ListPods
<1>8. CASE ResizePod
  BY <1>8, Unchanged DEF ResizePod, NextPod
<1>9. CASE CheckResizeFeasible
  BY <1>9, Unchanged DEF CheckResizeFeasible, NextPod
<1>10. CASE AfterResize
  BY <1>10, Unchanged DEF AfterResize
<1>11. CASE ApplyPatch
  <2>1. cr'.strategy = cr.strategy
    BY <1>11 DEF ApplyPatch, TypeOK, Spec0
  <2> QED BY <1>11, <2>1, Unchanged DEF ApplyPatch
<1>12. CASE Crash
  BY <1>12, Unchanged DEF Crash
<1>13. CASE ChangeWant \/ Reconcile
  BY <1>13, Unchanged DEF ChangeWant, Reconcile
<1>14. CASE EditRBAC
  BY <1>14, <1>a, Unchanged DEF EditRBAC
<1>15. ASSUME NEW p \in Pods, Kubelet(p) \/ RollPod(p) \/ DeletePod(p) \/ CreatePod(p)
       PROVE  PermissionInv'
  BY <1>15, Unchanged DEF Kubelet, RollPod, DeletePod, Remove, CreatePod
<1>16. CASE UNCHANGED vars
  BY <1>16, Unchanged DEF vars
<1> QED BY <1>1, <1>2, <1>3, <1>4, <1>5, <1>6, <1>7, <1>8, <1>9, <1>10, <1>11, <1>12, <1>13,
           <1>14, <1>15, <1>16 DEF Next, ScalerStep

(* The preflight's promise: the OnDelete override is on the cluster only if
   the scaler has been granted every right a resize needs, whatever reviews
   fail and however often the grants change. *)
THEOREM PermissionFirst == SafetySpec => []OverrideNeedsPermission
<1>1. PermissionInv => OverrideNeedsPermission
  BY DEF PermissionInv
<1> QED BY <1>1, PermissionInit, PermissionStep, TypeCorrect, PTL DEF SafetySpec

-----------------------------------------------------------------------------
(* applyResources implements ScaleAction. *)
(* The kinds of step the abstract action is made of. *)
LEMMA AttemptSteps ==
  /\ UNCHANGED <<cr, target>> /\ (pc' \in Applying <=> pc \in Applying)
       => UNCHANGED Action!vars
  /\ cr'.size = cr.size /\ pc \in Applying /\ pc' \notin Applying
       => Action!Abandon
  /\ cr'.size = cr.size /\ UNCHANGED target /\ pc \in Applying /\ pc' \in Applying
       => UNCHANGED Action!vars
  /\ cr'.size = target /\ pc \in Applying /\ pc' \notin Applying
       => Action!Record
  /\ cr'.size = cr.size /\ target' \in Sizes /\ pc \notin Applying /\ pc' \in Applying
       => Action!Begin
  /\ UNCHANGED cr /\ pc \notin Applying /\ pc' \notin Applying
       => UNCHANGED Action!vars
BY DEF Action!vars, Action!Abandon, Action!Record, Action!Begin

LEMMA AttemptInit == ASSUME Init, TypeOK PROVE Action!Init
BY DEF Init, Action!Init, Applying, Resizing, TypeOK, Spec0

LEMMA AttemptStep == ASSUME TypeOK, TypeOK', [Next]_vars PROVE [Action!Next]_(Action!vars)
<1> USE DEF Applying, Resizing
<1>1. CASE Discover \/ ReviewResize \/ ReviewList
  <2>1. UNCHANGED cr /\ pc \notin Applying /\ pc' \notin Applying
    BY <1>1, Unchanged DEF Discover, ReviewResize, ReviewList, Review, Refuse, Resolve
  <2> QED BY <2>1, AttemptSteps
<1>2. CASE Begin
  <2>1. UNCHANGED cr /\ pc \notin Applying /\ pc' \in Applying /\ target' \in Sizes
    BY <1>2, Unchanged DEF Begin, TypeOK
  <2> QED BY <2>1, AttemptSteps DEF Action!Next
<1>3. CASE EnsureOnDeleteStrategy \/ SetRollingUpdateStrategy
  <2>1. /\ cr'.size = cr.size /\ UNCHANGED target
        /\ pc \in Applying /\ pc' \in {"list", "patch", "idle"}
    BY <1>3, Unchanged DEF EnsureOnDeleteStrategy, SetRollingUpdateStrategy, SetUpdateStrategy,
                           NextUnlessFailed, TypeOK, Spec0
  <2> QED BY <2>1, AttemptSteps DEF Action!Next
<1>4. CASE ListPods \/ ResizePod \/ CheckResizeFeasible \/ AfterResize
  <2>1. UNCHANGED cr /\ UNCHANGED target /\ pc \in Applying
        /\ pc' \in {"resize", "verify", "patch", "revert", "idle"}
    BY <1>4, Unchanged DEF ListPods, ResizePod, CheckResizeFeasible, NextPod, AfterResize
  <2> QED BY <2>1, AttemptSteps DEF Action!Next
<1>5. CASE ApplyPatch
  <2>1. /\ cr'.size = cr.size \/ cr'.size = target
        /\ pc \in Applying /\ pc' \notin Applying
    BY <1>5 DEF ApplyPatch, TypeOK, Spec0
  <2> QED BY <2>1, AttemptSteps DEF Action!Next
<1>6. CASE Crash
  <2>1. UNCHANGED cr /\ pc' \notin Applying
    BY <1>6, Unchanged DEF Crash
  <2> QED BY <2>1, AttemptSteps DEF Action!Next
<1>7. CASE ChangeWant \/ Reconcile \/ EditRBAC
  <2>1. UNCHANGED <<cr, target, pc>>
    BY <1>7, Unchanged DEF ChangeWant, Reconcile, EditRBAC
  <2> QED BY <2>1, AttemptSteps
<1>8. ASSUME NEW p \in Pods, Kubelet(p) \/ RollPod(p) \/ DeletePod(p) \/ CreatePod(p)
      PROVE  UNCHANGED Action!vars
  <2>1. UNCHANGED <<cr, target, pc>>
    BY <1>8, Unchanged DEF Kubelet, RollPod, DeletePod, Remove, CreatePod
  <2> QED BY <2>1, AttemptSteps
<1>9. CASE UNCHANGED vars
  BY <1>9, Unchanged, AttemptSteps DEF vars
<1> QED BY <1>1, <1>2, <1>3, <1>4, <1>5, <1>6, <1>7, <1>8, <1>9 DEF Next, ScalerStep

(* In both modes, across any failures, crashes, full nodes and edits of RBAC,
   a scale action changes the RabbitmqCluster's size once, last and to the size
   it set out for, or not at all. *)
THEOREM AppliesAtomically == SafetySpec => ScalesAtomically
<1>1. Init => Action!Init
  BY AttemptInit, TypeInit
<1>2. TypeOK /\ TypeOK' /\ [Next]_vars => [Action!Next]_(Action!vars)
  BY AttemptStep
<1> QED BY <1>1, <1>2, TypeCorrect, PTL DEF SafetySpec, ScalesAtomically, Action!Spec

-----------------------------------------------------------------------------
(* What an attempt knows of the pods: those it has listed, that were not
   replaced since and that it is done with request the target, unless it has an
   error to report. *)
ReachedInv ==
  /\ \A p \in listed : pods[p].present
  /\ pc = "verify" /\ Current \in listed => pods[Current].requested = target
  /\ pc \in {"resize", "verify"} /\ failures = {} =>
       \A p \in listed \ todo : pods[p].requested = target
  /\ pc = "patch" /\ mode = "inplace" /\ cr.strategy = "OnDelete" =>
       \A p \in listed : pods[p].requested = target

LEMMA ReachedInit == Init => ReachedInv
BY DEF Init, ReachedInv

LEMMA ReachedResize ==
  ASSUME TypeOK, ReachedInv, ResizePod
  PROVE  ReachedInv'
<1>1. UNCHANGED <<target, listed, cr, mode, setting>> /\ pc = "resize" /\ listed \subseteq Pods
  BY DEF ResizePod, TypeOK
<1>2. UNCHANGED todo => Current' = Current
  BY DEF Current
<1>3. \/ /\ PatchPod /\ pc' = "verify" /\ UNCHANGED <<todo, failures>>
      \/ /\ UNCHANGED pods \/ PatchPod
         /\ pc' = "resize" /\ failures' # {}
  BY DEF ResizePod, NextPod, Joined
<1>4. PatchPod => /\ \A p \in Pods : pods'[p].present = pods[p].present
                  /\ \A p \in Pods : pods[p].requested = target => pods'[p].requested = target
                  /\ Current \in Pods => pods'[Current].requested = target
  <2>1. PatchPod => pods' = [pods EXCEPT ![Current] = Resized(pods[Current])]
    BY DEF PatchPod
  <2>2. \A p \in Pods : /\ Resized(pods[p]).present = pods[p].present
                        /\ Resized(pods[p]).requested = target
    BY DEF Resized, TypeOK, Pod
  <2> QED BY <2>1, <2>2 DEF TypeOK
<1> QED BY <1>1, <1>2, <1>3, <1>4 DEF ReachedInv

(* Steps that leave the attempt alone and no listed pod's request changed. *)
LEMMA ReachedOutside ==
  ASSUME TypeOK, ReachedInv, UNCHANGED <<pc, setting, mode, target, todo, failures, cr>>,
         listed' \subseteq listed,
         \A p \in listed' : pods'[p].present /\ pods'[p].requested = pods[p].requested
  PROVE  ReachedInv'
<1>1. Current' = Current
  BY DEF Current
<1> QED BY <1>1 DEF ReachedInv

LEMMA ReachedStep == TypeOK /\ ReachedInv /\ [Next]_vars => ReachedInv'
<1> SUFFICES ASSUME TypeOK, ReachedInv, [Next]_vars PROVE ReachedInv'
  OBVIOUS
<1>1. CASE Discover \/ ReviewResize \/ ReviewList
  BY <1>1, Unchanged DEF Discover, ReviewResize, ReviewList, Review, Refuse, Resolve, ReachedInv
<1>2. CASE Begin
  BY <1>2, Unchanged DEF Begin, ReachedInv
<1>3. CASE EnsureOnDeleteStrategy
  BY <1>3, Unchanged DEF EnsureOnDeleteStrategy, SetUpdateStrategy, NextUnlessFailed, ReachedInv
<1>4. CASE SetRollingUpdateStrategy
  <2>1. PICK outcome \in WriteOutcomes :
          /\ cr' = IF outcome = "failed" THEN cr ELSE [cr EXCEPT !.strategy = "RollingUpdate"]
          /\ pc' = IF outcome = "ok" THEN "patch" ELSE "idle"
    BY <1>4 DEF SetRollingUpdateStrategy, SetUpdateStrategy, NextUnlessFailed
  <2>2. pc' = "patch" => cr'.strategy # "OnDelete"
    BY <2>1 DEF TypeOK, Spec0
  <2> QED BY <1>4, <2>1, <2>2, Unchanged
          DEF SetRollingUpdateStrategy, SetUpdateStrategy, ReachedInv
<1>5. CASE ListPods
  BY <1>5, Unchanged DEF ListPods, ReachedInv
<1>6. CASE ResizePod
  BY <1>6, ReachedResize
<1>7. CASE CheckResizeFeasible
  <2>1. PICK errors : NextPod(errors)
    BY <1>7 DEF CheckResizeFeasible
  <2> QED BY <1>7, <2>1, Unchanged DEF CheckResizeFeasible, NextPod, Joined, ReachedInv
<1>8. CASE AfterResize
  BY <1>8, Unchanged DEF AfterResize, ReachedInv
<1>9. CASE ApplyPatch \/ Crash
  BY <1>9, Unchanged DEF ApplyPatch, Crash, ReachedInv
<1>10. CASE ChangeWant \/ Reconcile \/ EditRBAC \/ UNCHANGED vars
  <2>1. UNCHANGED <<pc, setting, mode, target, todo, failures, cr, listed, pods>>
    BY <1>10, Unchanged DEF ChangeWant, Reconcile, EditRBAC, vars
  <2> QED BY <2>1, ReachedOutside DEF ReachedInv
<1>11. ASSUME NEW p \in Pods, Kubelet(p) PROVE ReachedInv'
  <2>1. UNCHANGED <<pc, setting, mode, target, todo, failures, cr, listed>>
    BY <1>11, Unchanged DEF Kubelet
  <2>2. PICK stuck \in BOOLEAN :
          pods' = [pods EXCEPT ![p] = [@ EXCEPT !.judged = TRUE, !.infeasible = stuck]]
    BY <1>11 DEF Kubelet
  <2>3. \A q \in Pods : pods'[q].present = pods[q].present /\ pods'[q].requested = pods[q].requested
    BY <2>2 DEF TypeOK, Pod
  <2> QED BY <2>1, <2>3, ReachedOutside DEF TypeOK, ReachedInv
<1>12. ASSUME NEW p \in Pods, RollPod(p) \/ DeletePod(p) PROVE ReachedInv'
  <2>1. UNCHANGED <<pc, setting, mode, target, todo, failures, cr>> /\ listed' = listed \ {p}
    BY <1>12, Unchanged DEF RollPod, DeletePod, Remove
  <2>2. \A q \in Pods \ {p} : pods'[q] = pods[q]
    BY <1>12 DEF RollPod, DeletePod, Remove, TypeOK
  <2> QED BY <2>1, <2>2, ReachedOutside DEF TypeOK, ReachedInv
<1>13. ASSUME NEW p \in Pods, CreatePod(p) PROVE ReachedInv'
  <2>1. UNCHANGED <<pc, setting, mode, target, todo, failures, cr, listed>> /\ p \notin listed
    BY <1>13, Unchanged DEF CreatePod, ReachedInv
  <2>2. \A q \in Pods \ {p} : pods'[q] = pods[q]
    BY <1>13 DEF CreatePod, TypeOK
  <2> QED BY <2>1, <2>2, ReachedOutside DEF TypeOK, ReachedInv
<1> QED BY <1>1, <1>2, <1>3, <1>4, <1>5, <1>6, <1>7, <1>8, <1>9, <1>10, <1>11, <1>12, <1>13
        DEF Next, ScalerStep

(* The size and the strategy of the RabbitmqCluster are written by the scaler
   alone, by the one call each is meant for. *)
LEMMA StrategyWriter ==
  ASSUME TypeOK, [Next]_vars, cr' # cr
  PROVE  \/ EnsureOnDeleteStrategy /\ cr'.size = cr.size
            /\ cr'.strategy \in {cr.strategy, "OnDelete"}
         \/ SetRollingUpdateStrategy /\ cr'.size = cr.size
         \/ ApplyPatch /\ cr'.strategy = cr.strategy
<1>1. EnsureOnDeleteStrategy \/ SetRollingUpdateStrategy \/ ApplyPatch
  BY Unchanged DEF Next, ScalerStep, Discover, ReviewResize, ReviewList, Review, Begin, ListPods,
     ResizePod, CheckResizeFeasible, AfterResize, Crash, ChangeWant, Reconcile, EditRBAC,
     Kubelet, RollPod, DeletePod, Remove, CreatePod, vars
<1> QED BY <1>1 DEF EnsureOnDeleteStrategy, SetRollingUpdateStrategy, SetUpdateStrategy,
                    ApplyPatch, TypeOK, Spec0

(* A scale that reached some of the pods is never recorded as done: when an
   in-place scale writes its size, every pod it listed that was not replaced
   since requests that size, for any number of pods. *)
THEOREM RecordedLast == SafetySpec => RecordedAfterEveryPod
<1>1. TypeOK /\ ReachedInv /\ [Next]_vars =>
        [ cr'.size # cr.size /\ mode = "inplace" /\ cr.strategy = "OnDelete"
            => \A p \in listed : pods[p].requested = target ]_vars
  <2> SUFFICES ASSUME TypeOK, ReachedInv, [Next]_vars, cr'.size # cr.size,
                      mode = "inplace", cr.strategy = "OnDelete"
               PROVE  \A p \in listed : pods[p].requested = target
    OBVIOUS
  <2>1. pc = "patch"
    BY StrategyWriter DEF ApplyPatch
  <2> QED BY <2>1 DEF ReachedInv
<1> QED BY <1>1, ReachedInit, ReachedStep, TypeCorrect, PTL DEF SafetySpec, RecordedAfterEveryPod

-----------------------------------------------------------------------------
(* Why a fallback has a reason in the world: while a resize is under way
   everything that hinders it is on record, so an error of the two kinds that
   make auto mode roll has been caused by something that is. *)
Hindered == rights # AllRights \/ \E p \in Pods : pods[p].present /\ pods[p].infeasible

Blames(errors) == errors \cap {"infeasible", "permission"} # {}

GroundsInv ==
  /\ pc \in Resizing /\ Hindered => grounds # {}
  /\ pc \in {"resize", "verify", "revert"} /\ Blames(failures) => grounds # {}
  /\ pc = "revert" => setting = "auto" /\ Blames(failures)

LEMMA GroundsInit == Init => GroundsInv
BY DEF Init, GroundsInv, Resizing

LEMMA HinderedIsGround == \A size : Hindered => Grounds(size) # {}
<1> SUFFICES ASSUME NEW size, Hindered PROVE Grounds(size) # {}
  OBVIOUS
<1> DEFINE unfit == {p \in Pods : pods[p].present /\ pods[p].infeasible}
           found == {p \in unfit : pods[p].judged /\ pods[p].requested = size}
<1>1. CASE rights # AllRights
  <2>1. "right" \in Grounds(size)
    BY <1>1 DEF Grounds, AllGrounds
  <2> QED BY <2>1
<1>2. CASE found # {}
  <2>1. "room" \in Grounds(size)
    BY <1>2 DEF Grounds, AllGrounds
  <2> QED BY <2>1
<1>3. CASE rights = AllRights /\ found = {}
  <2>1. unfit # found
    BY <1>3 DEF Hindered
  <2>2. "earlier" \in Grounds(size)
    BY <2>1 DEF Grounds, AllGrounds
  <2> QED BY <2>2
<1> QED BY <1>1, <1>2, <1>3

(* The pod at hand is one of those still to be resized. *)
LEMMA CurrentListed ==
  ASSUME todo \subseteq Pods, todo # {}
  PROVE  Current \in todo
<1> DEFINE R == OpToRel(<, Nat)
<1>1. IsWellFoundedOn(R, Nat)
  BY NatLessThanWellFounded
<1>2. todo \subseteq Nat
  BY ConstantsAssumption DEF Pods
<1>3. \A p \in Nat, q \in Nat : <<q, p>> \in R <=> q < p
  BY DEF OpToRel
<1> HIDE DEF R
<1>4. PICK p \in todo : \A q \in todo : <<q, p>> \notin R
  BY <1>1, <1>2, WFMin, Zenon
<1>5. ASSUME NEW q \in todo PROVE p <= q
  <2>1. p \in Nat /\ q \in Nat
    BY <1>2
  <2>2. ~ q < p
    BY <2>1, <1>3, <1>4
  <2> QED BY <2>1, <2>2
<1> QED BY <1>5 DEF Current

(* The same of the next state. *)
LEMMA HinderedThen == Hindered' => (Grounds(target) # {})'
<1>1. Hindered => Grounds(target) # {}
  BY HinderedIsGround
<1> QED BY <1>1, PTL

(* Steps that leave the attempt alone and put nothing in its way. *)
LEMMA GroundsOutside ==
  ASSUME GroundsInv, UNCHANGED <<pc, setting, failures, rights, grounds>>,
         \A p \in Pods : pods'[p].present /\ pods'[p].infeasible
                           => pods[p].present /\ pods[p].infeasible
  PROVE  GroundsInv'
BY DEF GroundsInv, Hindered

LEMMA GroundsStep == TypeOK /\ GroundsInv /\ [Next]_vars => GroundsInv'
<1> SUFFICES ASSUME TypeOK, GroundsInv, [Next]_vars PROVE GroundsInv'
  OBVIOUS
<1> USE DEF Resizing
<1>1. CASE Discover \/ ReviewResize \/ ReviewList \/ ApplyPatch \/ Crash
  <2>1. pc' \in {"down", "reviewResize", "reviewList", "idle"}
    BY <1>1 DEF Discover, ReviewResize, ReviewList, Review, Refuse, Resolve, ApplyPatch, Crash
  <2> QED BY <2>1 DEF GroundsInv
<1>2. CASE Begin
  <2>1. /\ pc' \in {"ensure", "patch"} /\ UNCHANGED <<rights, pods>>
        /\ Keep(Grounds(want))
    BY <1>2, Unchanged DEF Begin
  <2>2. Hindered' => Grounds(want) # {}
    BY <2>1, HinderedIsGround DEF Hindered
  <2> QED BY <2>1, <2>2 DEF GroundsInv, Keep
<1>3. CASE EnsureOnDeleteStrategy \/ SetRollingUpdateStrategy
  <2>1. /\ pc \in Resizing /\ pc' \in {"idle", "list", "patch"} /\ Keep(grounds)
        /\ UNCHANGED <<rights, pods>>
    BY <1>3, Unchanged
       DEF EnsureOnDeleteStrategy, SetRollingUpdateStrategy, SetUpdateStrategy, NextUnlessFailed
  <2> QED BY <2>1 DEF GroundsInv, Keep, Hindered
<1>4. CASE ListPods
  <2>1. /\ pc = "list" /\ pc' = "resize" /\ UNCHANGED <<rights, pods, grounds>>
        /\ Blames(failures') => rights # AllRights
    BY <1>4, Unchanged DEF ListPods, Blames, AllRights
  <2> QED BY <2>1 DEF GroundsInv, Hindered
<1>5. CASE ResizePod
  <2>1. pc = "resize" /\ pc' \in {"resize", "verify"} /\ UNCHANGED <<rights, setting>>
    BY <1>5, Unchanged DEF ResizePod, NextPod
  <2>2. Hindered' => Hindered
    <3>1. \A p \in Pods : pods'[p].present = pods[p].present
                          /\ pods'[p].infeasible = pods[p].infeasible
      <4>1. CASE UNCHANGED pods
        BY <4>1
      <4>2. CASE PatchPod
        <5>1. pods' = [pods EXCEPT ![Current] = Resized(pods[Current])]
          BY <4>2 DEF PatchPod
        <5>2. \A p \in Pods : /\ Resized(pods[p]).present = pods[p].present
                              /\ Resized(pods[p]).infeasible = pods[p].infeasible
          BY DEF Resized, TypeOK, Pod
        <5> QED BY <5>1, <5>2 DEF TypeOK
      <4> QED BY <1>5, <4>1, <4>2 DEF ResizePod
    <3> QED BY <2>1, <3>1 DEF Hindered
  <2>3. CASE UNCHANGED grounds /\ (Blames(failures') => Blames(failures))
    BY <2>1, <2>2, <2>3 DEF GroundsInv
  <2>4. ASSUME NEW reason \in Refusals, NextPod({Rejection(reason)}),
               grounds' = grounds \cup ({reason} \cap AllGrounds)
        PROVE  GroundsInv'
    <3>1. CASE reason \in AllGrounds
      BY <2>1, <2>4, <3>1 DEF GroundsInv
    <3>2. CASE reason \notin AllGrounds
      <4>1. Rejection(reason) = "other"
        BY <3>2 DEF Rejection, AllGrounds
      <4> QED BY <2>3, <2>4, <3>2, <4>1 DEF NextPod, Joined, Blames
    <3> QED BY <3>1, <3>2
  <2>5. NextPod({"other"}) \/ UNCHANGED failures => (Blames(failures') => Blames(failures))
    BY DEF NextPod, Joined, Blames
  <2> QED BY <1>5, <2>3, <2>4, <2>5 DEF ResizePod
<1>6. CASE CheckResizeFeasible
  <2>1. /\ pc = "verify" /\ pc' = "resize" /\ UNCHANGED <<rights, pods, grounds>>
        /\ Blames(failures') => Blames(failures) \/ (pods[Current].present /\ pods[Current].infeasible)
    <3>1. PICK outcome \in ReadOutcomes :
            NextPod(IF outcome = "ok" /\ pods[Current].present /\ pods[Current].infeasible
                    THEN {"infeasible"} ELSE {})
      BY <1>6 DEF CheckResizeFeasible
    <3>2. CASE pods[Current].present /\ pods[Current].infeasible
      BY <1>6, <3>1, <3>2, Unchanged DEF CheckResizeFeasible, NextPod
    <3>3. CASE ~(pods[Current].present /\ pods[Current].infeasible)
      <4>1. failures' = failures
        BY <3>1, <3>3 DEF NextPod, Joined
      <4> QED BY <1>6, <3>1, <4>1, Unchanged DEF CheckResizeFeasible, NextPod
    <3> QED BY <3>2, <3>3
  <2>2. Current \in Pods
    BY <2>1, CurrentListed DEF TypeOK
  <2> QED BY <2>1, <2>2 DEF GroundsInv, Hindered
<1>7. CASE AfterResize
  <2>1. /\ pc = "resize" /\ pc' \in {"patch", "revert", "idle"} /\ Keep(grounds)
        /\ UNCHANGED <<rights, pods, setting, failures>>
        /\ pc' = "revert" => setting = "auto" /\ Blames(failures)
    BY <1>7, Unchanged DEF AfterResize, FallsBack, Blames
  <2> QED BY <2>1 DEF GroundsInv, Keep, Hindered
<1>8. CASE ChangeWant \/ Reconcile \/ UNCHANGED vars
  <2>1. UNCHANGED <<pc, setting, failures, rights, grounds, pods>>
    BY <1>8, Unchanged DEF ChangeWant, Reconcile, vars
  <2> QED BY <2>1, GroundsOutside
<1>9. CASE EditRBAC \/ \E p \in Pods : Kubelet(p)
  <2>1. UNCHANGED <<pc, setting, failures>> /\ Keep(grounds \cup Grounds(target)')
    BY <1>9, Unchanged DEF EditRBAC, Kubelet
  <2> QED BY <2>1, HinderedThen DEF GroundsInv, Keep
<1>10. ASSUME NEW p \in Pods, RollPod(p) \/ DeletePod(p) \/ CreatePod(p) PROVE GroundsInv'
  <2>1. UNCHANGED <<pc, setting, failures, rights, grounds>>
    BY <1>10, Unchanged DEF RollPod, DeletePod, Remove, CreatePod
  <2>2. /\ \A q \in Pods \ {p} : pods'[q] = pods[q]
        /\ ~(pods'[p].present /\ pods'[p].infeasible)
    <3>1. CASE CreatePod(p)
      BY <3>1 DEF CreatePod, NewPod, TypeOK
    <3>2. CASE RollPod(p) \/ DeletePod(p)
      <4>1. pods \in [Pods -> Pod] /\ pods[p] \in Pod
        BY DEF TypeOK
      <4>2. pods' = [pods EXCEPT ![p].present = FALSE]
        BY <3>2 DEF RollPod, DeletePod, Remove
      <4>3. pods'[p].present = FALSE
        BY <4>1, <4>2 DEF Pod
      <4> QED BY <4>1, <4>2, <4>3
    <3> QED BY <1>10, <3>1, <3>2
  <2> QED BY <2>1, <2>2, GroundsOutside
<1> QED BY <1>1, <1>2, <1>3, <1>4, <1>5, <1>6, <1>7, <1>8, <1>9, <1>10 DEF Next, ScalerStep

(* A fallback that may restart pods is made in auto mode only, and only if
   since the attempt began something has stood in the way of its resizes, for
   any number of pods and whatever calls fail: failures, lost replies and
   vanished pods are never taken for a verdict. *)
THEOREM FallbackEarned == SafetySpec => FallbackIsEarned
<1>1. TypeOK /\ GroundsInv /\ [Next]_vars =>
        [ cr.strategy = "OnDelete" /\ cr'.strategy = "RollingUpdate"
            => setting = "auto" /\ grounds # {} ]_vars
  <2> SUFFICES ASSUME TypeOK, GroundsInv, [Next]_vars,
                      cr.strategy = "OnDelete", cr'.strategy = "RollingUpdate"
               PROVE  setting = "auto" /\ grounds # {}
    OBVIOUS
  <2>1. pc = "revert"
    BY StrategyWriter DEF SetRollingUpdateStrategy
  <2> QED BY <2>1 DEF GroundsInv
<1> QED BY <1>1, GroundsInit, GroundsStep, TypeCorrect, PTL DEF SafetySpec, FallbackIsEarned
==============================================================================
