------------------------- MODULE ControlLoop_proofs -------------------------
(***************************************************************************)
(* Proofs about the control loop, for every set of scalers, every          *)
(* configuration and every set of samples, with no bound on the clock.     *)
(***************************************************************************)
EXTENDS ControlLoop, ScalingEngine_proofs

(* Types of what an evaluation computes from the configuration. *)
LEMMA ConfigFacts ==
  /\ Cfg.scaleUpDebounce \in Int /\ Cfg.scaleDownDebounce \in Int
  /\ Interval(Cfg) \in Nat \ {0}
  /\ \A p, q : NeedSeconds(p, q, Cfg) \in {Cfg.scaleUpDebounce, Cfg.scaleDownDebounce}
  /\ NotTracked \notin Profiles /\ UNKNOWN \notin Profiles /\ ErrNoMetrics \notin Profiles
BY CfgAssumption DEF IsConfig, Interval, NeedSeconds, Profiles

LEMMA SampleFacts ==
  ASSUME NEW sample, CalculateScaleProfile(sample, Cfg) # ErrNoMetrics
  PROVE  CalculateScaleProfile(sample, Cfg) \in Profiles
BY CfgAssumption, RecommendationIsAProfile DEF Profiles

LEMMA ReverseMapType ==
  ASSUME NEW cpu
  PROVE  CPUToProfile(cpu, Cfg) \in Profiles \cup {UNKNOWN}
BY CfgAssumption, CPUToProfileType DEF Profiles

LEMMA NextTickType ==
  ASSUME TypeOK, NEW s \in Scalers, due[s] <= clock
  PROVE  NextTick(s) \in Nat
<1>1. due[s] \in Nat /\ clock - due[s] \in Nat
  BY DEF TypeOK
<1>2. ASSUME NEW a \in Nat, NEW b \in Nat \ {0} PROVE a \div b \in Nat
  BY <1>2
<1>3. (clock - due[s]) \div Interval(Cfg) \in Nat
  BY <1>1, <1>2, ConfigFacts
<1>4. ASSUME NEW a \in Nat, NEW b \in Nat, NEW c \in Nat PROVE a + b * (1 + c) \in Nat
  BY <1>4
<1> HIDE DEF TypeOK
<1> QED BY <1>1, <1>3, <1>4, ConfigFacts DEF NextTick

(* No evaluation decides on less than the shorter of the two windows. *)
MinDebounce == Min({Cfg.scaleUpDebounce, Cfg.scaleDownDebounce})

LEMMA MinDebounceFacts ==
  /\ MinDebounce \in Int
  /\ \A p, q : MinDebounce <= NeedSeconds(p, q, Cfg)
<1>1. /\ MinDebounce \in {Cfg.scaleUpDebounce, Cfg.scaleDownDebounce}
      /\ MinDebounce <= Cfg.scaleUpDebounce /\ MinDebounce <= Cfg.scaleDownDebounce
  BY ConfigFacts DEF MinDebounce, Min
<1> QED BY <1>1, ConfigFacts

-----------------------------------------------------------------------------
(* Where the stages of an evaluation lead, in terms of types. *)
EvalType == [begun: Nat, recommended: Profiles \cup {NotTracked},
             current: Profiles \cup {UNKNOWN}, now: Nat, stable: BOOLEAN]

LocalsOK ==
  /\ pc \in [Scalers -> Stages]
  /\ eval \in [Scalers -> EvalType]
  /\ \A s \in Scalers : pc[s] \notin {"down", "idle"} => eval[s].recommended \in Profiles

LEMMA NoEvalType == NoEval \in EvalType
BY DEF NoEval, EvalType

LEMMA AdvanceType ==
  ASSUME TypeOK, NEW s \in Scalers, NEW stage \in Stages, NEW local \in EvalType,
         local.recommended \in Profiles, Advance(s, stage, local)
  PROVE  LocalsOK'
BY DEF TypeOK, Advance, EvalType, LocalsOK

LEMMA EndEvaluationType ==
  ASSUME TypeOK, NEW s \in Scalers, EndEvaluation(s)
  PROVE  LocalsOK'
BY NoEvalType DEF TypeOK, EndEvaluation, EvalType, Stages, LocalsOK

LEMMA AfterDecisionType ==
  ASSUME TypeOK, NEW s \in Scalers, NEW local \in EvalType,
         local.recommended \in Profiles, AfterDecision(s, local)
  PROVE  LocalsOK'
BY AdvanceType, EndEvaluationType DEF AfterDecision, Stages

LEMMA DisturbType ==
  ASSUME TypeOK, NEW outcome, Disturb(outcome)
  PROVE  disturbed' \in Nat /\ troubled' \in BOOLEAN
BY DEF TypeOK, Disturb, Disturbance

LEMMA TrackingType ==
  ASSUME TypeOK, NEW s \in Scalers, UpdateStabilityTracking(s)
  PROVE  /\ configMap' \in [profile: Profiles \cup {NotTracked}, since: Nat]
         /\ disturbed' \in Nat /\ troubled' \in BOOLEAN
BY DisturbType DEF TypeOK, UpdateStabilityTracking

LEMMA TypeStep == TypeOK /\ [Next]_vars => TypeOK'
<1> SUFFICES ASSUME TypeOK, [Next]_vars PROVE TypeOK'
  OBVIOUS
<1>a. TypeOK' <=>
        /\ LocalsOK'
        /\ due' \in [Scalers -> Nat]
        /\ cluster' \in {Resources(p, Cfg) : p \in Profiles} \cup ClusterEdits
        /\ configMap' \in [profile: Profiles \cup {NotTracked}, since: Nat]
        /\ rendered' \subseteq [profile: Profiles \cup {NotTracked}, since: Nat]
        /\ clock' \in Nat
        /\ held' \in [profile: Profiles \cup {NotTracked}, since: Nat]
        /\ lastPatch' \in [profile: Profiles \cup {NotTracked}, at: Nat]
        /\ disturbed' \in Nat /\ troubled' \in BOOLEAN
  BY DEF TypeOK, EvalType, LocalsOK
<1>1. ASSUME NEW s \in Scalers, Start(s) PROVE TypeOK'
  BY <1>1 DEF Start, Disturbance, TypeOK, Stages
<1>2. ASSUME NEW s \in Scalers, Evaluate(s) PROVE TypeOK'
  <2>1. due' \in [Scalers -> Nat]
    BY <1>2, NextTickType DEF Evaluate, TypeOK
  <2>2. PICK sample \in Samples :
          LET profile == CalculateScaleProfile(sample, Cfg) IN
          \/ profile = ErrNoMetrics /\ Skip
          \/ /\ profile # ErrNoMetrics
             /\ Advance(s, "current", [NoEval EXCEPT !.begun = clock, !.recommended = profile])
             /\ held' = IF held.profile = profile THEN held
                        ELSE [profile |-> profile, since |-> clock]
             /\ troubled' = (troubled /\ held' = held)
             /\ UNCHANGED <<configMap, disturbed>>
    BY <1>2 DEF Evaluate
  <2> DEFINE profile == CalculateScaleProfile(sample, Cfg)
             local == [NoEval EXCEPT !.begun = clock, !.recommended = profile]
  <2>3. UNCHANGED <<cluster, rendered, clock, lastPatch>>
    BY <1>2 DEF Evaluate
  <2>4. CASE profile = ErrNoMetrics
    BY <2>1, <2>2, <2>3, <2>4 DEF Skip, TypeOK
  <2>5. CASE profile # ErrNoMetrics
    <3>1. profile \in Profiles
      BY <2>5, SampleFacts
    <3>2. local \in EvalType /\ local.recommended \in Profiles /\ "current" \in Stages
      BY <3>1 DEF NoEval, EvalType, TypeOK, Stages
    <3>3. /\ Advance(s, "current", local) /\ UNCHANGED <<configMap, disturbed>>
          /\ troubled' \in BOOLEAN
      BY <2>2, <2>5
    <3>4. held' \in [profile: Profiles \cup {NotTracked}, since: Nat]
      BY <2>2, <2>5, <3>1 DEF TypeOK
    <3>5. LocalsOK'
      BY <3>2, <3>3, AdvanceType
    <3> QED BY <1>a, <2>1, <2>3, <3>3, <3>4, <3>5 DEF TypeOK
  <2> QED BY <2>4, <2>5
<1>3. ASSUME NEW s \in Scalers, ReadCurrent(s) PROVE TypeOK'
  <2>1. PICK outcome \in ReadOutcomes("getCluster") :
          LET profile == IF outcome = "ok" THEN CPUToProfile(cluster.cpu, Cfg) ELSE UNKNOWN
          IN  /\ Advance(s, "state", [eval[s] EXCEPT !.current = profile, !.now = clock])
              /\ Disturb(outcome)
    BY <1>3 DEF ReadCurrent
  <2> DEFINE profile == IF outcome = "ok" THEN CPUToProfile(cluster.cpu, Cfg) ELSE UNKNOWN
             local == [eval[s] EXCEPT !.current = profile, !.now = clock]
  <2>2. profile \in Profiles \cup {UNKNOWN}
    BY ReverseMapType
  <2>3. local \in EvalType /\ local.recommended \in Profiles /\ "state" \in Stages
    <3> HIDE DEF profile
    <3>1. eval[s] \in EvalType /\ eval[s].recommended \in Profiles /\ clock \in Nat
      BY <1>3 DEF ReadCurrent, EvalType, TypeOK
    <3>2. "state" \in Stages
      BY DEF Stages
    <3> QED BY <2>2, <3>1, <3>2 DEF EvalType
  <2>4. LocalsOK'
    BY <2>1, <2>3, AdvanceType
  <2> QED BY <1>3, <1>a, <2>1, <2>4, DisturbType DEF ReadCurrent, TypeOK
<1>4. ASSUME NEW s \in Scalers, ReadState(s) PROVE TypeOK'
  <2>1. PICK outcome, local :
          /\ local \in EvalType /\ local.recommended \in Profiles
          /\ Advance(s, "reset", local) \/ AfterDecision(s, local)
          /\ Disturb(outcome)
    <3>1. PICK outcome \in ReadOutcomes("getConfigMap") :
            LET state == IF outcome = "ok" THEN configMap ELSE NoTracking
                decision == CheckProfileStability(eval[s].current, eval[s].recommended,
                                                  state, Cfg, eval[s].now)
                local == [eval[s] EXCEPT !.stable = decision.stable]
            IN  /\ IF decision.resetTracking THEN Advance(s, "reset", local)
                                             ELSE AfterDecision(s, local)
                /\ Disturb(outcome)
      BY <1>4 DEF ReadState
    <3> DEFINE state == IF outcome = "ok" THEN configMap ELSE NoTracking
               decision == CheckProfileStability(eval[s].current, eval[s].recommended,
                                                 state, Cfg, eval[s].now)
               local == [eval[s] EXCEPT !.stable = decision.stable]
    <3>2. decision.stable \in BOOLEAN
      BY DEF CheckProfileStability
    <3> HIDE DEF decision
    <3>3. local \in EvalType /\ local.recommended \in Profiles
      <4>1. eval[s] \in EvalType /\ eval[s].recommended \in Profiles
        BY <1>4 DEF EvalType, TypeOK, ReadState
      <4> QED BY <3>2, <4>1 DEF EvalType
    <3>4. Advance(s, "reset", local) \/ AfterDecision(s, local)
      BY <3>1 DEF decision
    <3> QED BY <3>1, <3>3, <3>4
  <2>2. LocalsOK'
    BY <2>1, AdvanceType, AfterDecisionType DEF Stages
  <2>3. disturbed' \in Nat /\ troubled' \in BOOLEAN
    BY <2>1, DisturbType
  <2> QED BY <1>4, <1>a, <2>2, <2>3 DEF ReadState, TypeOK
<1>5. ASSUME NEW s \in Scalers, ResetTracking(s) PROVE TypeOK'
  <2>1. /\ eval[s] \in EvalType /\ eval[s].recommended \in Profiles
        /\ AfterDecision(s, eval[s]) /\ UpdateStabilityTracking(s)
    BY <1>5 DEF TypeOK, EvalType, ResetTracking
  <2>2. LocalsOK'
    BY <2>1, AfterDecisionType
  <2> QED BY <1>5, <1>a, <2>1, <2>2, TrackingType DEF ResetTracking, TypeOK
<1>6. ASSUME NEW s \in Scalers, Apply(s) PROVE TypeOK'
  <2>1. PICK outcome \in WriteOutcomes("applyResources") :
          /\ \/ outcome = "failed" /\ UNCHANGED <<cluster, lastPatch>>
             \/ /\ outcome # "failed"
                /\ cluster' = Resources(eval[s].recommended, Cfg)
                /\ lastPatch' = [profile |-> eval[s].recommended, at |-> clock]
          /\ IF outcome = "ok" THEN Advance(s, "final", [eval[s] EXCEPT !.now = clock])
                               ELSE EndEvaluation(s)
          /\ Disturb(outcome)
    BY <1>6 DEF Apply, Patched
  <2>2. /\ [eval[s] EXCEPT !.now = clock] \in EvalType
        /\ [eval[s] EXCEPT !.now = clock].recommended \in Profiles
        /\ eval[s].recommended \in Profiles
        /\ "final" \in Stages
    BY <1>6 DEF Apply, Patched, EvalType, TypeOK, Stages
  <2>3. LocalsOK'
    BY <2>1, <2>2, AdvanceType, EndEvaluationType
  <2>4. lastPatch' \in [profile: Profiles \cup {NotTracked}, at: Nat]
    BY <2>1 DEF TypeOK
  <2>5. cluster' \in {Resources(p, Cfg) : p \in Profiles} \cup ClusterEdits
    BY <2>1, <2>2 DEF TypeOK
  <2> QED BY <1>6, <1>a, <2>1, <2>3, <2>4, <2>5, DisturbType DEF Apply, Patched, TypeOK
<1>7. ASSUME NEW s \in Scalers, FinalReset(s) PROVE TypeOK'
  <2>1. LocalsOK'
    BY <1>7, EndEvaluationType DEF FinalReset
  <2> QED BY <1>7, <1>a, <2>1, TrackingType DEF FinalReset, TypeOK
<1>8. ASSUME NEW s \in Scalers, Stop(s) PROVE TypeOK'
  BY <1>8 DEF Stop, Disturbance, TypeOK, Stages
<1>9. ASSUME NEW s \in Scalers, Crash(s) PROVE TypeOK'
  BY <1>9, <1>a, NoEvalType DEF Crash, Disturbance, TypeOK, Stages, EvalType
<1>10. CASE EditCluster
  BY <1>10 DEF EditCluster, Disturbance, TypeOK, scalerVars
<1>11. CASE ReapplyManifest
  BY <1>11 DEF ReapplyManifest, Disturbance, NoTracking, TypeOK, scalerVars
<1>12. CASE RenderUpgrade
  BY <1>12 DEF RenderUpgrade, TypeOK, scalerVars, historyVars
<1>13. CASE ApplyUpgrade
  BY <1>13 DEF ApplyUpgrade, Disturbance, TypeOK, scalerVars
<1>14. CASE Tick
  BY <1>14 DEF Tick, TypeOK, scalerVars, historyVars
<1>15. CASE UNCHANGED vars
  BY <1>15 DEF vars, TypeOK
<1> QED BY <1>1, <1>2, <1>3, <1>4, <1>5, <1>6, <1>7, <1>8, <1>9, <1>10, <1>11,
           <1>12, <1>13, <1>14, <1>15 DEF Next, Step

(* Every variable keeps its type, whatever calls fail and whatever happens
   around the loop: in particular only configured profiles are ever tracked,
   and only their resources written. *)
THEOREM TypeCorrect == Spec => []TypeOK
<1>1. Init => TypeOK
  <2>1. Init => troubled \in BOOLEAN
    BY Zenon DEF Init
  <2> QED BY <2>1, NoEvalType DEF Init, TypeOK, EvalType, Stages, NoTracking
<1> QED BY <1>1, TypeStep, PTL DEF Spec

-----------------------------------------------------------------------------
(***************************************************************************)
(* The debounce.  HeldInv ties the tracking record to the history of       *)
(* recommendations: a record of the held profile is no older than the      *)
(* agreement on it, a record of another profile exists only while an       *)
(* evaluation is on its way to overwrite it, and the local variables of    *)
(* that evaluation are consistent with both.  It needs the writes of the   *)
(* record only; CurrentInv adds what the reads of the cluster are for.     *)
(***************************************************************************)
OneScaler == \A s, t \in Scalers : s = t

DistinctCPUs == \A p, q \in Profiles : Cfg.cpu[p] = Cfg.cpu[q] => p = q

TrackingReliable ==
  "patchConfigMap" \notin Unreliable /\ "crash" \notin Events /\ "upgrade" \notin Events

ClusterKnown == "getCluster" \notin Unreliable /\ ClusterEdits = {}

HeldLocals(s) ==
  /\ pc[s] \notin {"down", "idle"} => eval[s].recommended = held.profile
  /\ pc[s] \in {"state", "reset", "apply", "final"} =>
       held.since <= eval[s].now /\ eval[s].now <= clock
  /\ pc[s] = "reset" => ~eval[s].stable \/ eval[s].current = eval[s].recommended
  /\ pc[s] = "apply" =>
       eval[s].now - held.since
         >= NeedSeconds(eval[s].current, eval[s].recommended, Cfg)
  /\ pc[s] \notin {"current", "state", "reset"} =>
       configMap.profile \in {NotTracked, held.profile}

HeldTracking ==
  /\ configMap.profile = held.profile /\ held.profile # NotTracked =>
       held.since <= configMap.since
  /\ held.since <= clock
  /\ rendered = {}

HeldInv == HeldTracking /\ \A s \in Scalers : HeldLocals(s)

LEMMA HeldInit == Init => HeldInv
BY DEF Init, HeldInv, HeldTracking, HeldLocals, NoTracking

LEMMA HeldStep ==
  ASSUME OneScaler, TrackingReliable, TypeOK, TypeOK', HeldInv, [Next]_vars
  PROVE  HeldInv'
<1> USE DEF HeldInv, HeldTracking
<1>r. WriteOutcomes("patchConfigMap") = {"ok"}
  BY DEF TrackingReliable, WriteOutcomes
<1>t. /\ clock \in Nat /\ held.since \in Nat /\ configMap.since \in Nat
      /\ held.profile \in Profiles \cup {NotTracked}
      /\ \A s \in Scalers : eval[s].now \in Nat
  BY DEF TypeOK
<1>1. ASSUME NEW s \in Scalers, Start(s) PROVE HeldInv'
  BY <1>1 DEF Start, OneScaler, HeldLocals, TypeOK
<1>2. ASSUME NEW s \in Scalers, Evaluate(s) PROVE HeldInv'
  <2>1. UNCHANGED <<cluster, configMap, rendered, clock>> /\ pc[s] = "idle"
    BY <1>2 DEF Evaluate, Skip
  <2>2. configMap.profile \in {NotTracked, held.profile}
    BY <2>1 DEF HeldLocals
  <2>3. PICK profile :
          \/ profile = ErrNoMetrics /\ UNCHANGED <<pc, eval, held, configMap>>
          \/ /\ profile \in Profiles
             /\ Advance(s, "current", [NoEval EXCEPT !.begun = clock, !.recommended = profile])
             /\ held' = IF held.profile = profile THEN held
                        ELSE [profile |-> profile, since |-> clock]
             /\ UNCHANGED configMap
    BY <1>2, SampleFacts DEF Evaluate, Skip
  <2>4. CASE profile = ErrNoMetrics
    BY <2>1, <2>3, <2>4, ConfigFacts DEF HeldLocals, Profiles
  <2>5. CASE profile \in Profiles
    <3>1. /\ pc' = [pc EXCEPT ![s] = "current"]
          /\ eval' = [eval EXCEPT ![s] = [NoEval EXCEPT !.begun = clock, !.recommended = profile]]
          /\ held' = IF held.profile = profile THEN held
                     ELSE [profile |-> profile, since |-> clock]
      BY <2>3, <2>5, ConfigFacts DEF Advance
    <3>2. held'.profile = profile
      BY <3>1
    <3>3. HeldTracking'
      BY <2>1, <2>2, <3>1, <1>t
    <3>4. pc'[s] = "current" /\ eval'[s].recommended = profile
      BY <3>1 DEF TypeOK, NoEval
    <3>5. HeldLocals(s)'
      BY <3>2, <3>4 DEF HeldLocals
    <3> QED BY <3>3, <3>5 DEF OneScaler
  <2> QED BY <2>3, <2>4, <2>5
<1>3. ASSUME NEW s \in Scalers, ReadCurrent(s) PROVE HeldInv'
  BY <1>3, <1>t DEF ReadCurrent, Advance, Disturb, OneScaler, HeldLocals, TypeOK
<1>4. ASSUME NEW s \in Scalers, ReadState(s) PROVE HeldInv'
  <2>1. UNCHANGED <<cluster, configMap, rendered, clock, held>> /\ pc[s] = "state"
    BY <1>4 DEF ReadState
  <2>2. PICK state, local :
          /\ state \in {configMap, NoTracking}
          /\ local = [eval[s] EXCEPT !.stable =
                CheckProfileStability(eval[s].current, eval[s].recommended,
                                      state, Cfg, eval[s].now).stable]
          /\ IF CheckProfileStability(eval[s].current, eval[s].recommended,
                                      state, Cfg, eval[s].now).resetTracking
             THEN Advance(s, "reset", local)
             ELSE AfterDecision(s, local)
    BY <1>4 DEF ReadState
  <2>3. /\ eval[s].recommended = held.profile /\ held.profile \in Profiles
        /\ held.since <= eval[s].now /\ eval[s].now <= clock
    BY <2>1 DEF HeldLocals, TypeOK
  <2>4. /\ local.recommended = held.profile /\ local.now = eval[s].now
        /\ local.current = eval[s].current
        /\ local.stable = CheckProfileStability(eval[s].current, eval[s].recommended,
                                                state, Cfg, eval[s].now).stable
    BY <2>2, <2>3 DEF TypeOK
  <2>5. CASE Advance(s, "reset", local) /\ (~local.stable \/ local.current = local.recommended)
    <3>1. pc'[s] = "reset" /\ eval'[s] = local
      BY <2>5 DEF Advance, TypeOK
    <3>2. HeldLocals(s)'
      BY <2>1, <2>3, <2>4, <2>5, <3>1 DEF HeldLocals
    <3> QED BY <2>1, <3>2 DEF OneScaler
  <2>6. CASE /\ AfterDecision(s, local)
             /\ state.profile = eval[s].recommended
             /\ local.stable => \/ local.current = local.recommended
                                \/ eval[s].now - state.since >=
                                     NeedSeconds(eval[s].current, eval[s].recommended, Cfg)
    <3>1. state = configMap /\ configMap.profile = held.profile /\ held.since <= configMap.since
      BY <2>2, <2>3, <2>6, ConfigFacts DEF NoTracking
    <3>2. CASE local.stable /\ local.current # local.recommended
      <4>1. pc'[s] = "apply" /\ eval'[s] = local
        BY <2>6, <3>2 DEF AfterDecision, Advance, TypeOK
      <4>2. eval[s].now - held.since
              >= NeedSeconds(eval[s].current, eval[s].recommended, Cfg)
        BY <2>6, <3>1, <3>2, <1>t, ConfigFacts
      <4>3. HeldLocals(s)'
        BY <2>1, <2>3, <2>4, <3>1, <4>1, <4>2 DEF HeldLocals
      <4> QED BY <2>1, <4>3 DEF OneScaler
    <3>3. CASE ~(local.stable /\ local.current # local.recommended)
      <4>1. pc'[s] = "idle"
        BY <2>6, <3>3 DEF AfterDecision, EndEvaluation, TypeOK
      <4>2. HeldLocals(s)'
        BY <2>1, <3>1, <4>1 DEF HeldLocals
      <4> QED BY <2>1, <4>2 DEF OneScaler
    <3> QED BY <3>2, <3>3
  <2> QED BY <2>2, <2>3, <2>4, <2>5, <2>6 DEF CheckProfileStability
<1>5. ASSUME NEW s \in Scalers, ResetTracking(s) PROVE HeldInv'
  BY <1>5, <1>r, <1>t
     DEF ResetTracking, UpdateStabilityTracking, AfterDecision, Advance, EndEvaluation,
         Disturb, NoEval, OneScaler, HeldLocals, TypeOK
<1>6. ASSUME NEW s \in Scalers, Apply(s) PROVE HeldInv'
  BY <1>6, <1>t
     DEF Apply, Patched, Advance, EndEvaluation, Disturb, NoEval, OneScaler, HeldLocals, TypeOK
<1>7. ASSUME NEW s \in Scalers, FinalReset(s) PROVE HeldInv'
  BY <1>7, <1>r, <1>t
     DEF FinalReset, UpdateStabilityTracking, EndEvaluation, Disturb, NoEval, OneScaler,
         HeldLocals, TypeOK
<1>8. ASSUME NEW s \in Scalers, Stop(s) PROVE HeldInv'
  BY <1>8 DEF Stop, OneScaler, HeldLocals, TypeOK
<1>9. ASSUME NEW s \in Scalers, Crash(s) PROVE HeldInv'
  BY <1>9 DEF Crash, TrackingReliable
<1>10. CASE EditCluster
  BY <1>10 DEF EditCluster, scalerVars, HeldLocals
<1>11. CASE ReapplyManifest
  BY <1>11 DEF ReapplyManifest, NoTracking, scalerVars, HeldLocals
<1>12. CASE RenderUpgrade
  BY <1>12 DEF RenderUpgrade, TrackingReliable
<1>13. CASE ApplyUpgrade
  BY <1>13 DEF ApplyUpgrade
<1>14. CASE Tick
  BY <1>14, <1>t DEF Tick, scalerVars, historyVars, HeldLocals
<1>15. CASE UNCHANGED vars
  BY <1>15 DEF vars, HeldLocals
<1> QED BY <1>1, <1>2, <1>3, <1>4, <1>5, <1>6, <1>7, <1>8, <1>9, <1>10, <1>11,
           <1>12, <1>13, <1>14, <1>15 DEF Next, Step

(* What an evaluation knows of the cluster is still so when it acts on it. *)
CurrentInv ==
  \A s \in Scalers : pc[s] \in {"state", "reset", "apply"} =>
    eval[s].current = CPUToProfile(cluster.cpu, Cfg)

LEMMA CurrentStep ==
  ASSUME OneScaler, ClusterKnown, TypeOK, CurrentInv, [Next]_vars
  PROVE  CurrentInv'
<1> USE DEF CurrentInv
<1>1. ASSUME NEW s \in Scalers, ReadCurrent(s) PROVE CurrentInv'
  <2>1. ReadOutcomes("getCluster") = {"ok"}
    BY DEF ClusterKnown, ReadOutcomes
  <2> QED BY <1>1, <2>1 DEF ReadCurrent, Advance, OneScaler, TypeOK
<1>2. ASSUME NEW s \in Scalers, ReadState(s) \/ ResetTracking(s) PROVE CurrentInv'
  <2>1. UNCHANGED cluster /\ pc[s] \in {"state", "reset"}
    BY <1>2 DEF ReadState, ResetTracking
  <2>2. \/ pc'[s] = "idle"
        \/ eval'[s].current = eval[s].current
    BY <1>2 DEF ReadState, ResetTracking, AfterDecision, Advance, EndEvaluation, TypeOK
  <2> QED BY <2>1, <2>2 DEF OneScaler
<1>3. ASSUME NEW s \in Scalers,
             \/ Start(s) \/ Evaluate(s) \/ Apply(s) \/ FinalReset(s) \/ Stop(s) \/ Crash(s)
      PROVE  CurrentInv'
  <2>1. pc'[s] \in {"idle", "current", "final", "down"}
    BY <1>3 DEF Start, Evaluate, Skip, Apply, FinalReset, Stop, Crash, Advance, EndEvaluation,
                TypeOK
  <2> QED BY <2>1 DEF OneScaler
<1>4. CASE EditCluster
  BY <1>4 DEF EditCluster, ClusterKnown
<1>5. CASE ReapplyManifest \/ RenderUpgrade \/ ApplyUpgrade \/ Tick \/ UNCHANGED vars
  BY <1>5 DEF ReapplyManifest, RenderUpgrade, ApplyUpgrade, Tick, scalerVars, vars
<1> QED BY <1>1, <1>2, <1>3, <1>4, <1>5 DEF Next, Step

(* Only an Apply writes a profile, and by HeldInv it writes the one every
   evaluation has agreed on for the window that this evaluation took. *)
LEMMA HeldWrite ==
  ASSUME TypeOK, HeldInv, NEW s \in Scalers, Apply(s)
  PROVE  /\ eval[s].recommended = held.profile
         /\ clock - held.since >= NeedSeconds(eval[s].current, eval[s].recommended, Cfg)
<1>1. pc[s] = "apply"
  BY DEF Apply
<1>2. /\ eval[s].recommended = held.profile
      /\ eval[s].now - held.since
           >= NeedSeconds(eval[s].current, eval[s].recommended, Cfg)
      /\ eval[s].now <= clock
  BY <1>1 DEF HeldInv, HeldLocals
<1>3. /\ clock \in Nat /\ held.since \in Nat /\ eval[s].now \in Nat
      /\ NeedSeconds(eval[s].current, eval[s].recommended, Cfg) \in Int
  BY ConfigFacts DEF TypeOK
<1> QED BY <1>2, <1>3

LEMMA HeldPatch ==
  ASSUME DistinctCPUs, ClusterKnown, TypeOK, HeldInv, CurrentInv, [Next]_vars,
         cluster' # cluster
  PROVE  LET from == CPUToProfile(cluster.cpu, Cfg)
             to   == CPUToProfile(cluster'.cpu, Cfg)
         IN  held.profile = to /\ clock - held.since >= Window(from, to)
<1>1. PICK s \in Scalers : Apply(s)
  BY DEF Next, Step, Start, Evaluate, ReadCurrent, ReadState, ResetTracking, FinalReset,
         Stop, Crash, EditCluster, ReapplyManifest, RenderUpgrade, ApplyUpgrade, Tick,
         vars, ClusterKnown
<1>2. pc[s] = "apply" /\ cluster' = Resources(eval[s].recommended, Cfg)
  BY <1>1 DEF Apply, Patched
<1>3. eval[s].recommended \in Profiles
  BY <1>2 DEF TypeOK
<1>4. CPUToProfile(cluster'.cpu, Cfg) = eval[s].recommended
  BY <1>2, <1>3, CfgAssumption, CPUToProfileInverts DEF DistinctCPUs, Profiles
<1>5. eval[s].current = CPUToProfile(cluster.cpu, Cfg)
  BY <1>2 DEF CurrentInv
<1>6. NeedSeconds(eval[s].current, eval[s].recommended, Cfg)
        = Window(CPUToProfile(cluster.cpu, Cfg), CPUToProfile(cluster'.cpu, Cfg))
  BY <1>4, <1>5 DEF NeedSeconds, IsScaleUp, Window
<1>7. /\ eval[s].recommended = held.profile
      /\ clock - held.since >= NeedSeconds(eval[s].current, eval[s].recommended, Cfg)
  BY <1>1, HeldWrite
<1> QED BY <1>4, <1>6, <1>7

(* With one scaler whose cluster reads and tracking writes succeed and that
   stops only between evaluations, no change of the cluster jumps its debounce
   window, whatever else fails, for every load and every configuration whose
   profiles request different CPUs. *)
THEOREM Debounced ==
  ASSUME OneScaler, DistinctCPUs, TrackingReliable, ClusterKnown
  PROVE  Spec => HeldBeforePatch
<1>1. Init => HeldInv /\ CurrentInv
  BY HeldInit DEF Init, CurrentInv
<1>2. TypeOK /\ TypeOK' /\ HeldInv /\ CurrentInv /\ [Next]_vars => HeldInv' /\ CurrentInv'
  BY HeldStep, CurrentStep
<1>3. TypeOK /\ HeldInv /\ CurrentInv /\ [Next]_vars =>
        [cluster' # cluster =>
           LET from == CPUToProfile(cluster.cpu, Cfg)
               to   == CPUToProfile(cluster'.cpu, Cfg)
           IN  held.profile = to /\ clock - held.since >= Window(from, to)]_vars
  BY HeldPatch
<1> QED BY <1>1, <1>2, <1>3, TypeCorrect, PTL DEF Spec, HeldBeforePatch

(* What is left of the debounce when a scaler cannot tell where the cluster
   is, because the read failed (GetCurrentProfile answers UNKNOWN) or somebody
   moves it meanwhile: it may take the wrong window, but one of the two. *)
HeldForShortestWindow ==
  [][lastPatch' # lastPatch =>
       /\ lastPatch'.profile = held.profile
       /\ clock - held.since >= MinDebounce]_vars

LEMMA ShortestWindow ==
  ASSUME TypeOK, HeldInv, [Next]_vars, lastPatch' # lastPatch
  PROVE  /\ lastPatch'.profile = held.profile
         /\ clock - held.since >= MinDebounce
<1>1. PICK s \in Scalers : Apply(s)
  BY DEF Next, Step, Start, Evaluate, ReadCurrent, ReadState, ResetTracking, FinalReset,
         Stop, Crash, EditCluster, ReapplyManifest, RenderUpgrade, ApplyUpgrade, Tick,
         vars, historyVars
<1>2. lastPatch'.profile = eval[s].recommended
  BY <1>1 DEF Apply
<1> DEFINE need == NeedSeconds(eval[s].current, eval[s].recommended, Cfg)
<1>3. need \in Int /\ MinDebounce \in Int /\ MinDebounce <= need
  BY MinDebounceFacts, ConfigFacts
<1>4. clock - held.since \in Int
  BY DEF TypeOK
<1>5. eval[s].recommended = held.profile /\ clock - held.since >= need
  BY <1>1, HeldWrite
<1> HIDE DEF need
<1>6. clock - held.since >= MinDebounce
  BY <1>3, <1>4, <1>5
<1> QED BY <1>2, <1>5, <1>6

(* With one scaler whose tracking writes succeed and that stops only between
   evaluations, every profile it writes has been recommended by every
   evaluation for the shorter of the two windows, whatever reads fail and
   whoever else edits the RabbitmqCluster. *)
THEOREM NeverAtOnce ==
  ASSUME OneScaler, TrackingReliable
  PROVE  Spec => HeldForShortestWindow
<1>1. Init => HeldInv
  BY HeldInit
<1>2. TypeOK /\ TypeOK' /\ HeldInv /\ [Next]_vars => HeldInv'
  BY HeldStep
<1>3. TypeOK /\ HeldInv /\ [Next]_vars =>
        [lastPatch' # lastPatch =>
           /\ lastPatch'.profile = held.profile
           /\ clock - held.since >= MinDebounce]_vars
  BY ShortestWindow
<1> QED BY <1>1, <1>2, <1>3, TypeCorrect, PTL DEF Spec, HeldForShortestWindow

==============================================================================
