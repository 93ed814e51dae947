----------------------- MODULE ControlLoopTime_proofs -----------------------
(***************************************************************************)
(* Proofs about when the control loop acts, for any number of overlapping  *)
(* scalers: an evaluation works with what it read at most MaxLatency       *)
(* seconds ago, two different changes stay a debounce window apart, a      *)
(* steady load is followed in bounded time, and a change that is due is    *)
(* made by the next evaluation, whatever outages of the metrics delayed it.*)
(***************************************************************************)
EXTENDS ControlLoop_proofs

-----------------------------------------------------------------------------
(* What each step of an evaluation does, in the terms the proofs use. *)
InEvaluation(s) == pc[s] \notin {"down", "idle"}

(* The evaluation goes on with what it knows. *)
SameEvaluation(s) ==
  /\ eval'[s].begun = eval[s].begun
  /\ eval'[s].recommended = eval[s].recommended
  /\ eval'[s].current = eval[s].current
  /\ eval'[s].now = eval[s].now

(* A tracking write: it fails, or it is made whether or not the reply comes. *)
Tracks(s) ==
  \/ UNCHANGED configMap /\ disturbed' = clock /\ troubled'
  \/ /\ configMap' = [profile |-> eval[s].recommended, since |-> eval[s].now]
     /\ disturbed' \in {disturbed, clock}
     /\ troubled => troubled'

(* The grid of the ticker: the next tick is later than now, by an interval at most. *)
LEMMA NextTickBounds ==
  ASSUME TypeOK, NEW s \in Scalers, due[s] <= clock
  PROVE  clock < NextTick(s) /\ NextTick(s) <= clock + Interval(Cfg)
<1>1. due[s] \in Nat /\ clock \in Nat /\ clock - due[s] \in Nat
  BY DEF TypeOK
<1>2. ASSUME NEW a \in Nat, NEW b \in Nat \ {0}
      PROVE  a \div b \in Nat /\ b * (a \div b) <= a /\ a < b * (a \div b) + b
  BY <1>2
<1>3. ASSUME NEW b \in Nat, NEW q \in Nat PROVE b * (1 + q) = b + b * q
  BY <1>3
<1> DEFINE q == (clock - due[s]) \div Interval(Cfg)
<1>4. /\ q \in Nat /\ Interval(Cfg) * q \in Nat
      /\ Interval(Cfg) * q <= clock - due[s]
      /\ clock - due[s] < Interval(Cfg) * q + Interval(Cfg)
  <2>1. q \in Nat /\ Interval(Cfg) * q <= clock - due[s]
        /\ clock - due[s] < Interval(Cfg) * q + Interval(Cfg)
    BY <1>1, <1>2, ConfigFacts
  <2>2. ASSUME NEW b \in Nat, NEW k \in Nat PROVE b * k \in Nat
    BY <2>2
  <2> HIDE DEF q
  <2> QED BY <2>1, <2>2, ConfigFacts
<1>5. NextTick(s) = due[s] + Interval(Cfg) * (1 + q)
  BY DEF NextTick
<1> HIDE DEF q
<1>6. Interval(Cfg) * (1 + q) = Interval(Cfg) + Interval(Cfg) * q
  BY <1>3, <1>4, ConfigFacts
<1> DEFINE m == Interval(Cfg) * q
<1>7. m \in Nat /\ m <= clock - due[s] /\ clock - due[s] < m + Interval(Cfg)
  BY <1>4
<1>8. NextTick(s) = due[s] + (Interval(Cfg) + m)
  BY <1>5, <1>6
<1> HIDE DEF m
<1> QED BY <1>1, <1>7, <1>8, ConfigFacts

LEMMA OthersStay ==
  ASSUME TypeOK, NEW s \in Scalers, Step(s), NEW t \in Scalers, t # s
  PROVE  pc'[t] = pc[t] /\ eval'[t] = eval[t] /\ due'[t] = due[t]
BY DEF Step, Start, Evaluate, Skip, ReadCurrent, ReadState, ResetTracking,
       UpdateStabilityTracking, Apply, FinalReset, Stop, Crash, AfterDecision, Advance, EndEvaluation, TypeOK

LEMMA EvaluateEffect ==
  ASSUME TypeOK, NEW s \in Scalers, Evaluate(s)
  PROVE  /\ pc[s] = "idle" /\ due[s] <= clock
         /\ due'[s] <= clock + Interval(Cfg) /\ clock < due'[s]
         /\ UNCHANGED <<cluster, configMap, rendered, clock, lastPatch>>
         /\ \/ UNCHANGED <<pc, eval, held, troubled>> /\ disturbed' = clock
            \/ /\ pc'[s] = "current" /\ eval'[s].begun = clock
               /\ eval'[s].recommended = held'.profile
               /\ \/ held' = held /\ (troubled => troubled')
                  \/ held'.since = clock
               /\ disturbed' = disturbed
<1>1. /\ pc[s] = "idle" /\ due[s] <= clock
      /\ UNCHANGED <<cluster, configMap, rendered, clock, lastPatch>>
      /\ due'[s] = NextTick(s)
  BY DEF Evaluate, Skip, TypeOK
<1>2. PICK profile :
        \/ UNCHANGED <<pc, eval, held, troubled>> /\ disturbed' = clock
        \/ /\ Advance(s, "current", [NoEval EXCEPT !.begun = clock, !.recommended = profile])
           /\ held' = IF held.profile = profile THEN held
                      ELSE [profile |-> profile, since |-> clock]
           /\ UNCHANGED disturbed
           /\ troubled' <=> troubled /\ held' = held
  BY DEF Evaluate, Skip
<1>3. CASE UNCHANGED <<pc, eval, held, troubled>> /\ disturbed' = clock
  BY <1>1, <1>3, NextTickBounds
<1>4. CASE /\ Advance(s, "current", [NoEval EXCEPT !.begun = clock, !.recommended = profile])
           /\ held' = IF held.profile = profile THEN held
                      ELSE [profile |-> profile, since |-> clock]
           /\ UNCHANGED disturbed
           /\ troubled' <=> troubled /\ held' = held
  <2>1. /\ pc'[s] = "current"
        /\ eval'[s] = [NoEval EXCEPT !.begun = clock, !.recommended = profile]
    BY <1>4 DEF Advance, TypeOK
  <2>2. eval'[s].begun = clock /\ eval'[s].recommended = profile
    BY <2>1 DEF NoEval
  <2>3. held'.profile = profile /\ (held' = held \/ held'.since = clock)
    BY <1>4
  <2> QED BY <1>1, <1>4, <2>1, <2>2, <2>3, NextTickBounds
<1> QED BY <1>2, <1>3, <1>4

LEMMA ReadCurrentEffect ==
  ASSUME TypeOK, NEW s \in Scalers, ReadCurrent(s)
  PROVE  /\ pc[s] = "current" /\ pc'[s] = "state"
         /\ UNCHANGED <<due, cluster, configMap, rendered, clock, held, lastPatch>>
         /\ eval'[s].begun = eval[s].begun /\ eval'[s].now = clock
         /\ eval'[s].recommended = eval[s].recommended
         /\ \/ disturbed' = clock /\ troubled'
            \/ /\ eval'[s].current = CPUToProfile(cluster.cpu, Cfg)
               /\ disturbed' = disturbed /\ (troubled => troubled')
<1>1. PICK outcome, profile :
        /\ Advance(s, "state", [eval[s] EXCEPT !.current = profile, !.now = clock])
        /\ Disturb(outcome)
        /\ outcome = "ok" => profile = CPUToProfile(cluster.cpu, Cfg)
  BY DEF ReadCurrent
<1>2. pc'[s] = "state" /\ eval'[s] = [eval[s] EXCEPT !.current = profile, !.now = clock]
  BY <1>1 DEF Advance, TypeOK
<1>3. /\ eval'[s].begun = eval[s].begun /\ eval'[s].now = clock
      /\ eval'[s].recommended = eval[s].recommended /\ eval'[s].current = profile
  BY <1>2 DEF TypeOK
<1> QED BY <1>1, <1>2, <1>3 DEF ReadCurrent, Disturb, Disturbance

(* A failed read of the record looks like a record of nothing, which is
   rewritten; the others are acted on as CheckProfileStability decides. *)
LEMMA ReadStateEffect ==
  ASSUME TypeOK, NEW s \in Scalers, ReadState(s)
  PROVE  /\ pc[s] = "state"
         /\ UNCHANGED <<due, cluster, configMap, rendered, clock, held, lastPatch>>
         /\ disturbed' \in {disturbed, clock} /\ (troubled => troubled')
         /\ \/ /\ pc'[s] = "reset" /\ SameEvaluation(s)
               /\ ~eval'[s].stable \/ eval[s].current = eval[s].recommended
               /\ \/ disturbed' = clock /\ troubled'
                  \/ configMap.profile # eval[s].recommended
                  \/ eval[s].current = eval[s].recommended
            \/ /\ pc'[s] = "apply" /\ SameEvaluation(s)
               /\ configMap.profile = eval[s].recommended
               /\ eval[s].now - configMap.since
                    >= NeedSeconds(eval[s].current, eval[s].recommended, Cfg)
            \/ /\ pc'[s] = "idle"
               /\ configMap.profile = eval[s].recommended
               /\ ~(eval[s].now - configMap.since
                      >= NeedSeconds(eval[s].current, eval[s].recommended, Cfg))
<1>1. /\ pc[s] = "state"
      /\ UNCHANGED <<due, cluster, configMap, rendered, clock, held, lastPatch>>
  BY DEF ReadState
<1>2. PICK outcome, state, local :
        /\ Disturb(outcome)
        /\ state = IF outcome = "ok" THEN configMap ELSE NoTracking
        /\ local = [eval[s] EXCEPT !.stable =
              CheckProfileStability(eval[s].current, eval[s].recommended,
                                    state, Cfg, eval[s].now).stable]
        /\ IF CheckProfileStability(eval[s].current, eval[s].recommended,
                                    state, Cfg, eval[s].now).resetTracking
           THEN Advance(s, "reset", local)
           ELSE AfterDecision(s, local)
  BY DEF ReadState
<1> DEFINE tracked == state.profile = eval[s].recommended
           atTarget == eval[s].current = eval[s].recommended
           heldLong == eval[s].now - state.since
                         >= NeedSeconds(eval[s].current, eval[s].recommended, Cfg)
<1>3. /\ disturbed' \in {disturbed, clock} /\ (troubled => troubled')
      /\ outcome # "ok" => disturbed' = clock /\ troubled'
  BY <1>2 DEF Disturb, Disturbance
<1>4. eval[s].recommended \in Profiles
  BY <1>1 DEF TypeOK
<1>5. /\ local.begun = eval[s].begun /\ local.recommended = eval[s].recommended
      /\ local.current = eval[s].current /\ local.now = eval[s].now
      /\ (local.stable <=> tracked /\ (atTarget \/ heldLong))
  BY <1>2 DEF TypeOK, CheckProfileStability
<1>6. tracked => outcome = "ok" /\ state = configMap
  BY <1>2, <1>4, ConfigFacts DEF NoTracking
<1>7. CASE ~tracked \/ atTarget
  <2>1. Advance(s, "reset", local)
    BY <1>2, <1>7 DEF CheckProfileStability
  <2>2. pc'[s] = "reset" /\ eval'[s] = local
    BY <2>1 DEF Advance, TypeOK
  <2>3. \/ disturbed' = clock /\ troubled'
        \/ configMap.profile # eval[s].recommended \/ atTarget
    BY <1>2, <1>3, <1>7
  <2>4. ~eval'[s].stable \/ atTarget
    BY <1>5, <1>7, <2>2
  <2> QED BY <1>1, <1>3, <1>5, <2>2, <2>3, <2>4 DEF SameEvaluation
<1>8. CASE tracked /\ ~atTarget
  <2>1. AfterDecision(s, local) /\ state = configMap
    BY <1>2, <1>6, <1>8 DEF CheckProfileStability
  <2>2. CASE heldLong
    <3>1. pc'[s] = "apply" /\ eval'[s] = local
      BY <1>5, <1>8, <2>1, <2>2 DEF AfterDecision, Advance, TypeOK
    <3> QED BY <1>1, <1>3, <1>5, <1>8, <2>1, <2>2, <3>1 DEF SameEvaluation
  <2>3. CASE ~heldLong
    <3>1. pc'[s] = "idle"
      BY <1>5, <2>1, <2>3 DEF AfterDecision, EndEvaluation, TypeOK
    <3> QED BY <1>1, <1>3, <1>8, <2>1, <2>3, <3>1
  <2> QED BY <2>2, <2>3
<1> QED BY <1>7, <1>8

(* A record is rewritten before anything is applied, never in the same
   evaluation: stability is only found with the record as it is wanted. *)
ResetEndsEvaluation(s) ==
  pc[s] = "reset" => ~eval[s].stable \/ eval[s].current = eval[s].recommended

LEMMA ResetTrackingEffect ==
  ASSUME TypeOK, NEW s \in Scalers, ResetTracking(s), ResetEndsEvaluation(s)
  PROVE  /\ pc[s] = "reset" /\ pc'[s] = "idle"
         /\ UNCHANGED <<due, cluster, rendered, clock, held, lastPatch>>
         /\ Tracks(s)
<1>1. pc[s] = "reset" /\ UNCHANGED <<due, cluster, rendered, clock, held, lastPatch>>
  BY DEF ResetTracking
<1>2. Tracks(s)
  BY DEF ResetTracking, UpdateStabilityTracking, Disturb, Disturbance, Tracks
<1>3. pc'[s] = "idle"
  BY <1>1 DEF ResetTracking, ResetEndsEvaluation, AfterDecision, EndEvaluation, TypeOK
<1> QED BY <1>1, <1>2, <1>3

LEMMA ApplyEffect ==
  ASSUME TypeOK, NEW s \in Scalers, Apply(s)
  PROVE  /\ pc[s] = "apply"
         /\ UNCHANGED <<due, configMap, rendered, clock, held>>
         /\ \/ /\ UNCHANGED <<cluster, lastPatch>> /\ pc'[s] = "idle"
               /\ disturbed' = clock /\ troubled'
            \/ /\ cluster' = Resources(eval[s].recommended, Cfg)
               /\ lastPatch' = [profile |-> eval[s].recommended, at |-> clock]
               /\ \/ pc'[s] = "idle" /\ disturbed' = clock /\ troubled'
                  \/ /\ pc'[s] = "final" /\ disturbed' = disturbed /\ (troubled => troubled')
                     /\ eval'[s].begun = eval[s].begun /\ eval'[s].now = clock
                     /\ eval'[s].recommended = eval[s].recommended
BY DEF Apply, Patched, Advance, EndEvaluation, Disturb, Disturbance, TypeOK

LEMMA FinalResetEffect ==
  ASSUME TypeOK, NEW s \in Scalers, FinalReset(s)
  PROVE  /\ pc[s] = "final" /\ pc'[s] = "idle"
         /\ UNCHANGED <<due, cluster, rendered, clock, held, lastPatch>>
         /\ Tracks(s)
<1>1. Tracks(s)
  BY DEF FinalReset, UpdateStabilityTracking, Disturb, Disturbance, Tracks
<1> QED BY <1>1 DEF FinalReset, EndEvaluation, TypeOK

-----------------------------------------------------------------------------
(***************************************************************************)
(* Time.  Nothing is dated in the future, an evaluation is over MaxLatency *)
(* seconds after it began, the next tick comes within an interval, and an  *)
(* evaluation that began after the last change of recommendation recommends*)
(* what the others do.                                                     *)
(***************************************************************************)
TimeLocals(s) ==
  /\ pc[s] = "idle" => due[s] <= clock + Interval(Cfg)
  /\ InEvaluation(s) => /\ eval[s].begun <= clock /\ clock <= eval[s].begun + MaxLatency
                        /\ due[s] <= eval[s].begun + Interval(Cfg)
                        /\ eval[s].begun > held.since => eval[s].recommended = held.profile
  /\ pc[s] \in {"state", "reset", "apply", "final"} =>
       eval[s].begun <= eval[s].now /\ eval[s].now <= clock
  /\ ResetEndsEvaluation(s)

TimeShared ==
  /\ held.since <= clock /\ disturbed <= clock /\ lastPatch.at <= clock
  /\ configMap.since <= clock
  /\ \A record \in rendered : record.since <= clock

TimeInv == TimeShared /\ \A s \in Scalers : TimeLocals(s)

LEMMA TimeInit == Init => TimeInv
BY DEF Init, TimeInv, TimeShared, TimeLocals, InEvaluation, ResetEndsEvaluation, NoTracking

LEMMA TimeTypes ==
  ASSUME TypeOK
  PROVE  /\ clock \in Nat /\ held.since \in Nat /\ disturbed \in Nat /\ lastPatch.at \in Nat
         /\ configMap.since \in Nat /\ MaxLatency \in Nat /\ Interval(Cfg) \in Nat \ {0}
         /\ \A s \in Scalers : due[s] \in Nat /\ eval[s].begun \in Nat /\ eval[s].now \in Nat
BY BoundsAssumption, ConfigFacts DEF TypeOK

(* A step of one scaler keeps the others' part: the clock stands still, and a
   new agreement is dated after every evaluation under way. *)
LEMMA TimeStepOf ==
  ASSUME TypeOK, TypeOK', TimeInv, NEW s \in Scalers, Step(s),
         UNCHANGED clock, held' = held \/ held'.since = clock,
         TimeShared', TimeLocals(s)'
  PROVE  TimeInv'
<1>1. ASSUME NEW t \in Scalers, t # s PROVE TimeLocals(t)'
  <2>1. pc'[t] = pc[t] /\ eval'[t] = eval[t] /\ due'[t] = due[t]
    BY <1>1, OthersStay
  <2>2. TimeLocals(t)
    BY DEF TimeInv
  <2>3. clock \in Nat /\ eval[t].begun \in Nat
    BY TimeTypes
  <2> QED BY <2>1, <2>2, <2>3 DEF TimeLocals, InEvaluation, ResetEndsEvaluation
<1> QED BY <1>1 DEF TimeInv

LEMMA TimeStep == TypeOK /\ TypeOK' /\ TimeInv /\ [Next]_vars => TimeInv'
<1> SUFFICES ASSUME TypeOK, TypeOK', TimeInv, [Next]_vars PROVE TimeInv'
  OBVIOUS
<1>t. /\ clock \in Nat /\ held.since \in Nat /\ disturbed \in Nat /\ lastPatch.at \in Nat
      /\ configMap.since \in Nat /\ MaxLatency \in Nat /\ Interval(Cfg) \in Nat \ {0}
      /\ \A s \in Scalers : /\ due[s] \in Nat /\ eval[s].begun \in Nat /\ eval[s].now \in Nat
                            /\ due'[s] \in Nat /\ eval'[s].begun \in Nat /\ eval'[s].now \in Nat
  BY TimeTypes DEF TypeOK
<1>i. TimeShared /\ \A s \in Scalers : TimeLocals(s)
  BY DEF TimeInv
<1> USE DEF InEvaluation, ResetEndsEvaluation
<1>1. ASSUME NEW s \in Scalers, Start(s) PROVE TimeInv'
  <2>1. TimeShared' /\ TimeLocals(s)' /\ UNCHANGED <<clock, held>>
    BY <1>1, <1>t, <1>i DEF Start, Disturbance, TimeShared, TimeLocals, TypeOK
  <2> QED BY <1>1, <2>1, TimeStepOf DEF Step
<1>2. ASSUME NEW s \in Scalers, Evaluate(s) PROVE TimeInv'
  <2>1. /\ pc[s] = "idle"
        /\ due'[s] <= clock + Interval(Cfg)
        /\ UNCHANGED <<configMap, rendered, clock, lastPatch>>
        /\ \/ UNCHANGED <<pc, eval, held>> /\ disturbed' = clock
           \/ /\ pc'[s] = "current" /\ eval'[s].begun = clock
              /\ eval'[s].recommended = held'.profile
              /\ held' = held \/ held'.since = clock
              /\ disturbed' = disturbed
    BY <1>2, EvaluateEffect
  <2>2. TimeShared'
    BY <2>1, <1>t, <1>i DEF TimeShared
  <2>3. TimeLocals(s)'
    BY <2>1, <1>t, <1>i DEF TimeLocals
  <2> QED BY <1>2, <2>1, <2>2, <2>3, TimeStepOf DEF Step
<1>3. ASSUME NEW s \in Scalers, ReadCurrent(s) PROVE TimeInv'
  <2>1. /\ pc[s] = "current" /\ pc'[s] = "state"
        /\ UNCHANGED <<due, configMap, rendered, clock, held, lastPatch>>
        /\ eval'[s].begun = eval[s].begun /\ eval'[s].now = clock
        /\ eval'[s].recommended = eval[s].recommended
        /\ disturbed' \in {disturbed, clock}
    BY <1>3, ReadCurrentEffect
  <2>2. TimeShared' /\ TimeLocals(s)'
    BY <2>1, <1>t, <1>i DEF TimeShared, TimeLocals
  <2> QED BY <1>3, <2>1, <2>2, TimeStepOf DEF Step
<1>4. ASSUME NEW s \in Scalers, ReadState(s) PROVE TimeInv'
  <2>1. /\ pc[s] = "state"
        /\ UNCHANGED <<due, configMap, rendered, clock, held, lastPatch>>
        /\ disturbed' \in {disturbed, clock}
        /\ \/ /\ pc'[s] = "reset" /\ SameEvaluation(s)
              /\ ~eval'[s].stable \/ eval[s].current = eval[s].recommended
           \/ pc'[s] = "apply" /\ SameEvaluation(s)
           \/ pc'[s] = "idle"
    BY <1>4, ReadStateEffect
  <2>2. TimeShared' /\ TimeLocals(s)'
    BY <2>1, <1>t, <1>i DEF TimeShared, TimeLocals, SameEvaluation
  <2> QED BY <1>4, <2>1, <2>2, TimeStepOf DEF Step
<1>5. ASSUME NEW s \in Scalers, ResetTracking(s) PROVE TimeInv'
  <2>1. /\ pc[s] = "reset" /\ pc'[s] = "idle"
        /\ UNCHANGED <<due, rendered, clock, held, lastPatch>>
        /\ Tracks(s)
    BY <1>5, <1>i, ResetTrackingEffect DEF TimeLocals
  <2>2. TimeShared' /\ TimeLocals(s)'
    BY <2>1, <1>t, <1>i DEF TimeShared, TimeLocals, Tracks
  <2> QED BY <1>5, <2>1, <2>2, TimeStepOf DEF Step
<1>6. ASSUME NEW s \in Scalers, Apply(s) PROVE TimeInv'
  <2>1. /\ pc[s] = "apply"
        /\ UNCHANGED <<due, configMap, rendered, clock, held>>
        /\ lastPatch' = lastPatch \/ lastPatch'.at = clock
        /\ disturbed' \in {disturbed, clock}
        /\ \/ pc'[s] = "idle"
           \/ /\ pc'[s] = "final" /\ eval'[s].begun = eval[s].begun /\ eval'[s].now = clock
              /\ eval'[s].recommended = eval[s].recommended
    BY <1>6, ApplyEffect
  <2>2. TimeShared' /\ TimeLocals(s)'
    BY <2>1, <1>t, <1>i DEF TimeShared, TimeLocals
  <2> QED BY <1>6, <2>1, <2>2, TimeStepOf DEF Step
<1>7. ASSUME NEW s \in Scalers, FinalReset(s) PROVE TimeInv'
  <2>1. /\ pc[s] = "final" /\ pc'[s] = "idle"
        /\ UNCHANGED <<due, rendered, clock, held, lastPatch>>
        /\ Tracks(s)
    BY <1>7, FinalResetEffect
  <2>2. TimeShared' /\ TimeLocals(s)'
    BY <2>1, <1>t, <1>i DEF TimeShared, TimeLocals, Tracks
  <2> QED BY <1>7, <2>1, <2>2, TimeStepOf DEF Step
<1>8. ASSUME NEW s \in Scalers, Stop(s) \/ Crash(s) PROVE TimeInv'
  <2>1. /\ pc'[s] = "down" /\ disturbed' = clock
        /\ UNCHANGED <<configMap, rendered, clock, held, lastPatch>>
    BY <1>8 DEF Stop, Crash, Disturbance, TypeOK
  <2>2. TimeShared' /\ TimeLocals(s)'
    BY <2>1, <1>t, <1>i DEF TimeShared, TimeLocals
  <2> QED BY <1>8, <2>1, <2>2, TimeStepOf DEF Step
<1>9. CASE EditCluster \/ ReapplyManifest \/ RenderUpgrade \/ ApplyUpgrade
  <2>1. /\ UNCHANGED <<pc, eval, due, clock, held, lastPatch>>
        /\ disturbed' \in {disturbed, clock}
        /\ configMap' \in {configMap, NoTracking} \cup rendered
        /\ rendered' \subseteq rendered \cup {configMap}
    BY <1>9 DEF EditCluster, ReapplyManifest, RenderUpgrade, ApplyUpgrade, Disturbance,
                scalerVars, historyVars
  <2>2. TimeShared'
    BY <2>1, <1>t, <1>i DEF TimeShared, NoTracking
  <2> QED BY <2>1, <2>2, <1>i DEF TimeInv, TimeLocals
<1>10. CASE Tick
  <2>1. /\ UNCHANGED <<pc, eval, due, configMap, rendered, held, lastPatch, disturbed>>
        /\ clock' = clock + 1
        /\ \A s \in Scalers : InEvaluation(s) => clock < eval[s].begun + MaxLatency
    BY <1>10 DEF Tick, scalerVars, historyVars
  <2>2. TimeShared'
    <3>1. \A record \in rendered : record.since \in Nat
      BY DEF TypeOK
    <3> QED BY <2>1, <3>1, <1>t, <1>i DEF TimeShared
  <2>3. ASSUME NEW s \in Scalers PROVE TimeLocals(s)'
    BY <2>1, <1>t, <1>i DEF TimeLocals
  <2> QED BY <2>2, <2>3 DEF TimeInv
<1>11. CASE UNCHANGED vars
  BY <1>11, <1>i DEF vars, TimeInv, TimeShared, TimeLocals
<1> QED BY <1>1, <1>2, <1>3, <1>4, <1>5, <1>6, <1>7, <1>8, <1>9, <1>10, <1>11
        DEF Next, Step

LEMMA InTime == Spec => []TimeInv
BY TimeInit, TimeStep, TypeCorrect, PTL DEF Spec

-----------------------------------------------------------------------------
(***************************************************************************)
(* Patches stay apart.  A record of another profile than the last one      *)
(* patched was written after that patch; with overlapping copies, Slack    *)
(* seconds before it at most.  The copy that patched had seen a record of  *)
(* its own profile (SpacedReads), so a record that differs by the time it  *)
(* patches was written since, by an evaluation that was then in progress.  *)
(* Two copies on their way to different profiles must have seen the record *)
(* change within their latencies (SpacedRaces): then a whole window is no  *)
(* longer than the slack.                                                  *)
(***************************************************************************)
LEMMA SlackFacts ==
  /\ Slack \in Nat
  /\ \A s, t \in Scalers : s # t => Slack = MaxLatency + MaxLatency
BY BoundsAssumption DEF Slack

SpacedTracking ==
  lastPatch.profile # NotTracked /\ configMap.profile \notin {NotTracked, lastPatch.profile}
    => lastPatch.at <= configMap.since + Slack

SpacedReads(s) ==
  /\ pc[s] \in {"state", "reset", "apply", "final"} => lastPatch.at <= eval[s].now + Slack
  /\ pc[s] = "apply" /\ configMap.profile \notin {NotTracked, eval[s].recommended} =>
       /\ eval[s].begun <= configMap.since + MaxLatency
       /\ \E t \in Scalers : t # s
  /\ pc[s] = "apply" /\ lastPatch.profile \notin {NotTracked, eval[s].recommended} =>
       clock - lastPatch.at >= MinDebounce - Slack

SpacedRaces ==
  \A s, t \in Scalers :
    pc[s] = "apply" /\ pc[t] = "apply" /\ eval[s].recommended # eval[t].recommended
      => MinDebounce <= Slack

SpacedInv == SpacedTracking /\ SpacedRaces /\ \A s \in Scalers : SpacedReads(s)

LEMMA SpacedInit == Init => SpacedInv
BY DEF Init, SpacedInv, SpacedTracking, SpacedRaces, SpacedReads, NoTracking

(* A step that neither patches, nor writes the record, nor enters `apply',
   nor takes a new timestamp disturbs nothing. *)
LEMMA SpacedIdleStep ==
  ASSUME TypeOK, SpacedInv, UNCHANGED lastPatch, clock' \in {clock, clock + 1},
         configMap' = configMap \/ configMap'.profile = NotTracked,
         \A s \in Scalers :
           \/ pc'[s] \notin {"state", "reset", "apply", "final"}
           \/ pc'[s] = pc[s] /\ eval'[s] = eval[s]
  PROVE  SpacedInv'
<1>1. SpacedTracking'
  BY DEF SpacedInv, SpacedTracking
<1>2. SpacedRaces'
  BY DEF SpacedInv, SpacedRaces
<1>3. ASSUME NEW s \in Scalers PROVE SpacedReads(s)'
  BY TimeTypes, SlackFacts, MinDebounceFacts DEF SpacedInv, SpacedReads
<1> QED BY <1>1, <1>2, <1>3 DEF SpacedInv

(* The evaluation of s writes its profile into the record.  It is no older
   than MaxLatency, and neither are the others'. *)
LEMMA SpacedWrite ==
  ASSUME TypeOK, TypeOK', TimeInv, SpacedInv, NEW s \in Scalers, Step(s),
         pc[s] \in {"reset", "final"}, pc'[s] = "idle",
         Tracks(s), UNCHANGED <<clock, lastPatch>>
  PROVE  SpacedInv'
<1>t. /\ clock \in Nat /\ lastPatch.at \in Nat /\ MaxLatency \in Nat
      /\ configMap.since \in Nat /\ Slack \in Nat /\ MinDebounce \in Int
      /\ \A t \in Scalers : eval[t].begun \in Nat /\ eval[t].now \in Nat
  BY TimeTypes, SlackFacts, MinDebounceFacts
<1>o. \A t \in Scalers : t # s => pc'[t] = pc[t] /\ eval'[t] = eval[t]
  BY OthersStay
<1>1. CASE UNCHANGED configMap
  BY <1>1, <1>o, SpacedIdleStep
<1>2. CASE configMap' = [profile |-> eval[s].recommended, since |-> eval[s].now]
  <2>1. /\ lastPatch.at <= eval[s].now + Slack
        /\ eval[s].begun <= eval[s].now /\ clock <= eval[s].begun + MaxLatency
    BY DEF SpacedInv, SpacedReads, TimeInv, TimeLocals, InEvaluation
  <2>2. SpacedTracking'
    BY <1>2, <2>1 DEF SpacedTracking
  <2>3. SpacedRaces'
    BY <1>o DEF SpacedInv, SpacedRaces
  <2>4. ASSUME NEW t \in Scalers, t # s PROVE SpacedReads(t)'
    <3>1. InEvaluation(t) => eval[t].begun <= clock
      BY DEF TimeInv, TimeLocals
    <3>2. InEvaluation(t) => eval[t].begun <= eval[s].now + MaxLatency
      BY <2>1, <3>1, <1>t
    <3> QED BY <1>o, <1>2, <2>4, <3>2 DEF SpacedInv, SpacedReads, InEvaluation
  <2>5. SpacedReads(s)'
    BY DEF SpacedReads
  <2> QED BY <2>2, <2>3, <2>4, <2>5 DEF SpacedInv
<1> QED BY <1>1, <1>2 DEF Tracks

NoUpgrade == rendered = {}

LEMMA SpacedStep ==
  ASSUME NoUpgrade, "upgrade" \notin Events,
         TypeOK, TypeOK', TimeInv, TimeInv', SpacedInv, [Next]_vars
  PROVE  SpacedInv'
<1>t. /\ clock \in Nat /\ lastPatch.at \in Nat /\ MaxLatency \in Nat
      /\ configMap.since \in Nat /\ Slack \in Nat /\ MinDebounce \in Int
      /\ \A s \in Scalers : eval[s].begun \in Nat /\ eval[s].now \in Nat
  BY TimeTypes, SlackFacts, MinDebounceFacts
<1>i. SpacedTracking /\ SpacedRaces /\ \A s \in Scalers : SpacedReads(s) /\ TimeLocals(s)
  BY DEF SpacedInv, TimeInv
<1>o. ASSUME NEW s \in Scalers, Step(s), NEW t \in Scalers, t # s
      PROVE  pc'[t] = pc[t] /\ eval'[t] = eval[t]
  BY <1>o, OthersStay
<1>1. ASSUME NEW s \in Scalers, Start(s) \/ Stop(s) \/ Crash(s) PROVE SpacedInv'
  <2>1. UNCHANGED <<configMap, clock, lastPatch>> /\ pc'[s] \in {"idle", "down"}
    BY <1>1 DEF Start, Stop, Crash, TypeOK
  <2> QED BY <1>1, <1>o, <2>1, SpacedIdleStep DEF Step
<1>2. ASSUME NEW s \in Scalers, Evaluate(s) PROVE SpacedInv'
  <2>1. /\ UNCHANGED <<configMap, clock, lastPatch>>
        /\ pc'[s] \in {"idle", "current"}
    BY <1>2, EvaluateEffect
  <2> QED BY <1>2, <1>o, <2>1, SpacedIdleStep DEF Step
<1>3. ASSUME NEW s \in Scalers, ReadCurrent(s) PROVE SpacedInv'
  <2>1. UNCHANGED <<configMap, clock, lastPatch>> /\ pc'[s] = "state" /\ eval'[s].now = clock
    BY <1>3, ReadCurrentEffect
  <2>2. \A t \in Scalers : t # s => SpacedReads(t)'
    BY <1>3, <1>o, <1>i, <2>1 DEF Step, SpacedReads
  <2>3. SpacedReads(s)'
    BY <2>1, <1>t DEF TimeInv, TimeShared, SpacedReads
  <2>4. SpacedTracking' /\ SpacedRaces'
    BY <1>3, <1>o, <1>i, <2>1 DEF Step, SpacedTracking, SpacedRaces
  <2> QED BY <2>2, <2>3, <2>4 DEF SpacedInv
<1>4. ASSUME NEW s \in Scalers, ReadState(s) PROVE SpacedInv'
  <2>1. pc[s] = "state" /\ UNCHANGED <<configMap, clock, lastPatch>>
    BY <1>4, ReadStateEffect
  <2>2. SpacedTracking' /\ \A t \in Scalers : t # s => SpacedReads(t)'
    BY <1>4, <1>o, <1>i, <2>1 DEF Step, SpacedTracking, SpacedReads
  <2>3. CASE pc'[s] = "idle" \/ (pc'[s] = "reset" /\ SameEvaluation(s))
    <3>1. SpacedReads(s)'
      BY <2>1, <2>3, <1>i DEF SpacedReads, SameEvaluation
    <3>2. SpacedRaces'
      BY <1>4, <1>o, <1>i, <2>3 DEF Step, SpacedRaces
    <3> QED BY <2>2, <3>1, <3>2 DEF SpacedInv
  <2>4. CASE /\ pc'[s] = "apply" /\ SameEvaluation(s)
             /\ configMap.profile = eval[s].recommended
             /\ eval[s].now - configMap.since
                  >= NeedSeconds(eval[s].current, eval[s].recommended, Cfg)
    <3>1. /\ eval[s].now - configMap.since >= MinDebounce
          /\ eval[s].recommended # NotTracked
      <4>1. NeedSeconds(eval[s].current, eval[s].recommended, Cfg) \in Int
        BY ConfigFacts
      <4> QED BY <2>1, <2>4, <4>1, <1>t, MinDebounceFacts, ConfigFacts DEF TypeOK
    <3>2. lastPatch.profile \notin {NotTracked, eval[s].recommended} =>
            clock - lastPatch.at >= MinDebounce - Slack
      <4>1. eval[s].now <= clock
        BY <1>i, <2>1 DEF TimeLocals
      <4> QED BY <1>t, <1>i, <2>4, <3>1, <4>1 DEF SpacedTracking
    <3>3. SpacedReads(s)'
      BY <1>i, <2>1, <2>4, <3>2 DEF SpacedReads, SameEvaluation
    <3>4. ASSUME NEW t \in Scalers, pc[t] = "apply",
                 eval[t].recommended # eval[s].recommended
          PROVE  MinDebounce <= Slack
      <4>1. /\ eval[t].begun <= configMap.since + MaxLatency
            /\ clock <= eval[t].begun + MaxLatency /\ eval[s].now <= clock
        BY <1>i, <2>1, <2>4, <3>1, <3>4 DEF SpacedReads, TimeLocals, InEvaluation
      <4>2. Slack = MaxLatency + MaxLatency
        BY <2>1, <3>4, SlackFacts
      <4> QED BY <1>t, <3>1, <4>1, <4>2
    <3>5. SpacedRaces'
      BY <1>4, <1>o, <1>i, <2>4, <3>4 DEF Step, SpacedRaces, SameEvaluation
    <3> QED BY <2>2, <3>3, <3>5 DEF SpacedInv
  <2> QED BY <1>4, <2>3, <2>4, ReadStateEffect
<1>5. ASSUME NEW s \in Scalers, ResetTracking(s) PROVE SpacedInv'
  BY <1>5, <1>i, ResetTrackingEffect, SpacedWrite DEF Step, TimeLocals
<1>6. ASSUME NEW s \in Scalers, Apply(s) PROVE SpacedInv'
  <2>1. /\ pc[s] = "apply" /\ UNCHANGED <<configMap, clock>>
        /\ pc'[s] = "idle" \/ (pc'[s] = "final" /\ eval'[s].now = clock)
    BY <1>6, ApplyEffect
  <2>2. SpacedRaces'
    BY <1>6, <1>o, <1>i, <2>1 DEF Step, SpacedRaces
  <2>3. CASE UNCHANGED lastPatch
    <3>1. SpacedReads(s)'
      BY <1>t, <2>1, <2>3 DEF TimeInv, TimeShared, SpacedReads
    <3>2. SpacedTracking' /\ \A t \in Scalers : t # s => SpacedReads(t)'
      BY <1>6, <1>o, <1>i, <2>1, <2>3 DEF Step, SpacedTracking, SpacedReads
    <3> QED BY <2>2, <3>1, <3>2 DEF SpacedInv
  <2>4. CASE lastPatch' = [profile |-> eval[s].recommended, at |-> clock]
    <3>1. clock <= eval[s].begun + MaxLatency
      BY <1>i, <2>1 DEF TimeLocals, InEvaluation
    <3>2. SpacedTracking'
      <4>1. CASE configMap.profile \in {NotTracked, eval[s].recommended}
        BY <2>1, <2>4, <4>1 DEF SpacedTracking
      <4>2. CASE configMap.profile \notin {NotTracked, eval[s].recommended}
        <5>1. /\ eval[s].begun <= configMap.since + MaxLatency
              /\ Slack = MaxLatency + MaxLatency
          BY <1>i, <2>1, <4>2, SlackFacts DEF SpacedReads
        <5> QED BY <1>t, <2>1, <2>4, <3>1, <5>1 DEF SpacedTracking
      <4> QED BY <4>1, <4>2
    <3>3. SpacedReads(s)'
      BY <1>t, <2>1, <2>4 DEF SpacedReads
    <3>4. ASSUME NEW t \in Scalers, t # s PROVE SpacedReads(t)'
      <4>1. pc'[t] = pc[t] /\ eval'[t] = eval[t]
        BY <1>6, <1>o, <3>4 DEF Step
      <4>2. pc[t] \in {"state", "reset", "apply", "final"} =>
              clock <= eval[t].now + MaxLatency /\ clock <= eval[t].now + Slack
        <5>1. Slack = MaxLatency + MaxLatency
          BY <3>4, SlackFacts
        <5> QED BY <1>t, <1>i, <5>1 DEF TimeLocals, InEvaluation
      <4>3. pc[t] = "apply" /\ eval[t].recommended # eval[s].recommended =>
              clock - clock >= MinDebounce - Slack
        BY <1>t, <1>i, <2>1 DEF SpacedRaces
      <4> QED BY <1>i, <2>1, <2>4, <4>1, <4>2, <4>3 DEF SpacedReads
    <3> QED BY <2>2, <3>2, <3>3, <3>4 DEF SpacedInv
  <2> QED BY <1>6, <2>3, <2>4, ApplyEffect
<1>7. ASSUME NEW s \in Scalers, FinalReset(s) PROVE SpacedInv'
  BY <1>7, FinalResetEffect, SpacedWrite DEF Step
<1>8. CASE EditCluster \/ ReapplyManifest \/ RenderUpgrade \/ ApplyUpgrade \/ Tick
  <2>1. /\ UNCHANGED <<pc, eval, lastPatch>> /\ clock' \in {clock, clock + 1}
        /\ configMap' = configMap \/ configMap'.profile = NotTracked
    BY <1>8 DEF EditCluster, ReapplyManifest, RenderUpgrade, ApplyUpgrade, Tick, NoTracking,
                NoUpgrade, scalerVars, historyVars
  <2> QED BY <2>1, SpacedIdleStep
<1>9. CASE UNCHANGED vars
  BY <1>9, SpacedIdleStep DEF vars
<1> QED BY <1>1, <1>2, <1>3, <1>4, <1>5, <1>6, <1>7, <1>8, <1>9 DEF Next, Step

(* A step that patches another profile than the last one is an Apply, and
   SpacedInv has its distance. *)
LEMMA SpacedPatch ==
  ASSUME TypeOK, SpacedInv, [Next]_vars,
         lastPatch.profile \notin {NotTracked, lastPatch'.profile}
  PROVE  lastPatch'.at - lastPatch.at >= MinDebounce - Slack
<1>1. PICK s \in Scalers : Apply(s) /\ lastPatch' # lastPatch
  BY DEF Next, Step, Start, Evaluate, ReadCurrent, ReadState, ResetTracking, FinalReset,
         Stop, Crash, EditCluster, ReapplyManifest, RenderUpgrade, ApplyUpgrade, Tick,
         vars, scalerVars, historyVars
<1>2. pc[s] = "apply" /\ lastPatch' = [profile |-> eval[s].recommended, at |-> clock]
  BY <1>1 DEF Apply
<1> QED BY <1>2 DEF SpacedInv, SpacedReads

LEMMA NothingRendered ==
  ASSUME "upgrade" \notin Events
  PROVE  Spec => []NoUpgrade
<1>1. Init => NoUpgrade
  BY DEF Init, NoUpgrade
<1>2. NoUpgrade /\ [Next]_vars => NoUpgrade'
  BY DEF NoUpgrade, Next, Step, Start, Evaluate, ReadCurrent, ReadState, ResetTracking, Apply, FinalReset,
         Stop, Crash, EditCluster, ReapplyManifest, RenderUpgrade, ApplyUpgrade, Tick,
         vars, scalerVars, historyVars
<1> QED BY <1>1, <1>2, PTL DEF Spec

(* Two different changes are never made within the shorter debounce window,
   even when any call fails or loses its reply, when a scaler dies at any point
   of an evaluation, and when others edit the cluster or reset the ConfigMap.
   Copies that overlap lose twice the latency of an evaluation, however many
   they are. *)
THEOREM PatchesSpaced ==
  ASSUME "upgrade" \notin Events
  PROVE  Spec => SpacedPatches
<1>1. /\ NoUpgrade /\ TypeOK /\ TypeOK' /\ TimeInv /\ TimeInv' /\ SpacedInv /\ [Next]_vars
      => SpacedInv'
  BY SpacedStep
<1>2. TypeOK /\ SpacedInv /\ [Next]_vars =>
        [lastPatch.profile \notin {NotTracked, lastPatch'.profile} =>
           lastPatch'.at - lastPatch.at >= MinDebounce - Slack]_vars
  BY SpacedPatch
<1> QED BY <1>1, <1>2, SpacedInit, NothingRendered, InTime, TypeCorrect, PTL
        DEF Spec, SpacedPatches, MinDebounce

-----------------------------------------------------------------------------
(***************************************************************************)
(* A steady load is followed.  Since QuietSince nothing has failed, and    *)
(* every evaluation that began later recommends the same profile.  From    *)
(* CleanFrom on there are no others.  By TrackedBy one of them has left a  *)
(* record of the profile (or found the cluster there), and from ActsFrom   *)
(* on the window of that record has passed.  QuietInv bounds, for a scaler *)
(* that is up, when its evaluations begin as long as the next stage has not*)
(* been reached.                                                           *)
(***************************************************************************)
CleanFrom == QuietSince + MaxLatency
TrackedBy == CleanFrom + Interval(Cfg) + MaxLatency
ActsFrom  == TrackedBy + LongestDebounce

Settled == cluster = Resources(held.profile, Cfg)
Tracked == configMap.profile = held.profile /\ configMap.since <= TrackedBy

(* What a scaler has read in the quiet is still so: at its target, the
   cluster is settled, and only then does it rewrite a record late. *)
QuietReads(s) ==
  /\ pc[s] = "state" /\ eval[s].now > CleanFrom /\ eval[s].current = eval[s].recommended
       => Settled
  /\ pc[s] = "reset" /\ eval[s].now > TrackedBy => Settled
  /\ pc[s] = "final" /\ eval[s].now > CleanFrom => Settled

QuietTracking(s) ==
  clock > CleanFrom /\ ~Settled /\ ~Tracked =>
    /\ pc[s] = "idle" => /\ due[s] <= CleanFrom + Interval(Cfg)
                         /\ clock <= CleanFrom + Interval(Cfg)
    /\ InEvaluation(s) => eval[s].begun <= CleanFrom + Interval(Cfg)

QuietActing(s) ==
  clock > TrackedBy /\ ~Settled =>
    /\ pc[s] = "idle" => due[s] < ActsFrom + TickWithin /\ clock < ActsFrom + TickWithin
    /\ InEvaluation(s) => eval[s].begun < ActsFrom + TickWithin

QuietInv == \A s \in Scalers : QuietReads(s) /\ QuietTracking(s) /\ QuietActing(s)

(* A CPU request tells which profile's resources the cluster has: no two
   profiles share one, unless they are the same, and whoever edits a cluster
   to a profile's CPU gives it that profile's memory too. *)
CPUIdentifies ==
  \A resources \in {Resources(p, Cfg) : p \in Profiles} \cup ClusterEdits, p \in Profiles :
    resources.cpu = Cfg.cpu[p] => resources = Resources(p, Cfg)

LEMMA AtTarget ==
  ASSUME CPUIdentifies, TypeOK, held.profile \in Profiles,
         CPUToProfile(cluster.cpu, Cfg) = held.profile
  PROVE  Settled
<1>1. Cfg.cpu[held.profile] = cluster.cpu
  <2>1. held.profile # UNKNOWN
    BY ConfigFacts
  <2> QED BY <2>1, CPUToProfileType, CfgAssumption
<1>2. cluster \in {Resources(p, Cfg) : p \in Profiles} \cup ClusterEdits
  BY DEF TypeOK
<1> QED BY <1>1, <1>2 DEF CPUIdentifies, Settled

LEMMA MaxOfTwo ==
  ASSUME NEW a \in Int, NEW b \in Int
  PROVE  Max({a, b}) \in {a, b} /\ a <= Max({a, b}) /\ b <= Max({a, b})
<1>1. \E m \in {a, b} : \A y \in {a, b} : m >= y
  OBVIOUS
<1> QED BY <1>1 DEF Max

LEMMA BoundFacts ==
  /\ LongestDebounce \in Nat \ {0}
  /\ \A p, q : NeedSeconds(p, q, Cfg) \in Int /\ NeedSeconds(p, q, Cfg) <= LongestDebounce
  /\ TickWithin \in Nat /\ Interval(Cfg) <= TickWithin /\ MaxLatency <= TickWithin
<1>2. ASSUME NEW a \in Int, NEW b \in Int, NEW c \in Int PROVE
        /\ Max({a, b, c}) \in {a, b, c}
        /\ a <= Max({a, b, c}) /\ b <= Max({a, b, c}) /\ c <= Max({a, b, c})
  <2>1. \E m \in {a, b, c} : \A y \in {a, b, c} : m >= y
    <3>1. CASE a >= b /\ a >= c
      BY <3>1
    <3>2. CASE b >= a /\ b >= c
      BY <3>2
    <3>3. CASE c >= a /\ c >= b
      BY <3>3
    <3> QED BY <3>1, <3>2, <3>3
  <2> QED BY <2>1 DEF Max
<1>3. /\ LongestDebounce \in {Cfg.scaleUpDebounce, Cfg.scaleDownDebounce, 1}
      /\ Cfg.scaleUpDebounce <= LongestDebounce /\ Cfg.scaleDownDebounce <= LongestDebounce
      /\ 1 <= LongestDebounce
  <2> DEFINE up == Cfg.scaleUpDebounce
             down == Cfg.scaleDownDebounce
  <2>1. up \in Int /\ down \in Int /\ 1 \in Int
    BY ConfigFacts
  <2>2. LongestDebounce = Max({up, down, 1})
    BY DEF LongestDebounce
  <2> HIDE DEF up, down
  <2>3. /\ LongestDebounce \in {up, down, 1}
        /\ up <= LongestDebounce /\ down <= LongestDebounce /\ 1 <= LongestDebounce
    BY <1>2, <2>1, <2>2
  <2> QED BY <2>3 DEF up, down
<1>4. /\ TickWithin \in {Interval(Cfg), MaxLatency}
      /\ Interval(Cfg) <= TickWithin /\ MaxLatency <= TickWithin
  <2> DEFINE i == Interval(Cfg)
  <2>1. i \in Int /\ MaxLatency \in Int
    BY ConfigFacts, BoundsAssumption
  <2>2. TickWithin = Max({i, MaxLatency})
    BY DEF TickWithin
  <2> HIDE DEF i
  <2>3. TickWithin \in {i, MaxLatency} /\ i <= TickWithin /\ MaxLatency <= TickWithin
    BY MaxOfTwo, <2>1, <2>2
  <2> QED BY <2>3 DEF i
<1>5. LongestDebounce \in Nat \ {0}
  BY <1>3, ConfigFacts
<1> QED BY <1>3, <1>4, <1>5, ConfigFacts, BoundsAssumption

LEMMA QuietSinceFacts ==
  ASSUME TypeOK
  PROVE  /\ QuietSince \in Nat /\ held.since <= QuietSince /\ disturbed <= QuietSince
         /\ CleanFrom \in Nat /\ TrackedBy \in Nat /\ ActsFrom \in Nat
         /\ CleanFrom = QuietSince + MaxLatency
         /\ TrackedBy = CleanFrom + Interval(Cfg) + MaxLatency
         /\ ActsFrom = TrackedBy + LongestDebounce
<1> DEFINE h == held.since
<1>1. h \in Nat /\ disturbed \in Nat
  BY DEF TypeOK
<1>2. QuietSince = Max({h, disturbed})
  BY DEF QuietSince
<1> HIDE DEF h
<1>3. QuietSince \in {h, disturbed} /\ h <= QuietSince /\ disturbed <= QuietSince
  BY <1>1, <1>2, MaxOfTwo
<1>4. QuietSince \in Nat
  BY <1>1, <1>3
<1> QED BY <1>3, <1>4, BoundFacts, BoundsAssumption, ConfigFacts
        DEF h, CleanFrom, TrackedBy, ActsFrom

LEMMA QuietInit == Init => QuietInv
BY DEF Init, QuietInv, QuietReads, QuietTracking, QuietActing, InEvaluation

(* Once the quiet has lasted for a latency, whoever is evaluating recommends
   the held profile. *)
LEMMA CleanEvaluation ==
  ASSUME TypeOK, TimeInv, NEW s \in Scalers, InEvaluation(s), clock > CleanFrom
  PROVE  eval[s].recommended = held.profile /\ held.profile \in Profiles
<1>1. /\ clock <= eval[s].begun + MaxLatency
      /\ eval[s].begun > held.since => eval[s].recommended = held.profile
  BY DEF TimeInv, TimeLocals
<1>2. eval[s].begun > held.since
  BY <1>1, TimeTypes, QuietSinceFacts
<1>3. eval[s].recommended \in Profiles
  BY DEF InEvaluation, TypeOK
<1> QED BY <1>1, <1>2, <1>3

(* A disturbance, or a new recommendation, starts all over. *)
Restarted == clock <= QuietSince

LEMMA RestartedIsQuiet == TypeOK /\ TimeInv /\ Restarted => QuietInv
<1> SUFFICES ASSUME TypeOK, TimeInv, Restarted PROVE QuietInv
  OBVIOUS
<1>1. clock <= CleanFrom /\ clock <= TrackedBy /\ CleanFrom \in Nat /\ TrackedBy \in Nat
  BY QuietSinceFacts, TimeTypes DEF Restarted
<1>2. ASSUME NEW s \in Scalers
      PROVE  pc[s] \in {"state", "reset", "final"} => eval[s].now <= clock
  BY DEF TimeInv, TimeLocals
<1> QED BY <1>1, <1>2, TimeTypes DEF QuietInv, QuietReads, QuietTracking, QuietActing

LEMMA RestartedStep ==
  ASSUME TypeOK, TypeOK', UNCHANGED clock, held'.since = clock \/ disturbed' = clock
  PROVE  Restarted'
<1> DEFINE h == held'.since
           d == disturbed'
<1>1. h \in Int /\ d \in Int
  BY DEF TypeOK
<1>2. QuietSince' = Max({h, d})
  BY DEF QuietSince
<1> HIDE DEF h, d
<1>3. h <= QuietSince' /\ d <= QuietSince'
  BY <1>1, <1>2, MaxOfTwo
<1> QED BY <1>3 DEF Restarted, h, d

(* In the quiet, what one scaler does leaves the others' part as it is,
   provided it neither unsettles the cluster nor loses the record. *)
Undisturbed == UNCHANGED <<held, disturbed>>

LEMMA QuietStays ==
  ASSUME Undisturbed
  PROVE  UNCHANGED <<QuietSince, CleanFrom, TrackedBy, ActsFrom>>
BY DEF Undisturbed, QuietSince, CleanFrom, TrackedBy, ActsFrom

KeepsGood ==
  clock > CleanFrom => /\ Settled => Settled'
                       /\ Settled \/ Tracked => Settled' \/ Tracked'

LEMMA QuietStepOf ==
  ASSUME TypeOK, TimeInv, QuietInv, NEW s \in Scalers, Step(s),
         UNCHANGED clock, Undisturbed, KeepsGood,
         QuietReads(s)', QuietTracking(s)', QuietActing(s)'
  PROVE  QuietInv'
<1>1. ASSUME NEW t \in Scalers, t # s
      PROVE  QuietReads(t)' /\ QuietTracking(t)' /\ QuietActing(t)'
  <2>1. pc'[t] = pc[t] /\ eval'[t] = eval[t] /\ due'[t] = due[t]
    BY <1>1, OthersStay
  <2>2. QuietReads(t) /\ QuietTracking(t) /\ QuietActing(t)
    BY DEF QuietInv
  <2>3. UNCHANGED <<QuietSince, CleanFrom, TrackedBy, ActsFrom>>
    BY QuietStays
  <2>4. /\ clock \in Nat /\ CleanFrom \in Nat /\ TrackedBy \in Nat /\ CleanFrom <= TrackedBy
        /\ eval[t].now \in Nat
    BY TimeTypes, QuietSinceFacts
  <2>5. pc[t] \in {"state", "reset", "final"} => eval[t].now <= clock
    BY DEF TimeInv, TimeLocals
  <2>6. QuietReads(t)'
    BY <2>1, <2>2, <2>3, <2>4, <2>5 DEF QuietReads, KeepsGood
  <2>7. QuietTracking(t)'
    BY <2>1, <2>2, <2>3, <2>4 DEF QuietTracking, KeepsGood, InEvaluation
  <2>8. QuietActing(t)'
    BY <2>1, <2>2, <2>3, <2>4 DEF QuietActing, KeepsGood, InEvaluation
  <2> QED BY <2>6, <2>7, <2>8
<1> QED BY <1>1 DEF QuietInv

(* An evaluation that ends in the quiet, before the cluster is settled, leaves
   a record of the held profile, and what it read was read before ActsFrom. *)
LEMMA QuietEnd ==
  ASSUME TypeOK, TimeInv, QuietInv, NEW s \in Scalers, InEvaluation(s),
         pc'[s] = "idle", UNCHANGED <<due, clock>>, Undisturbed,
         clock > CleanFrom => Settled' \/ Tracked',
         clock > TrackedBy /\ ~Settled' => eval[s].begun < ActsFrom
  PROVE  QuietReads(s)' /\ QuietTracking(s)' /\ QuietActing(s)'
<1>1. UNCHANGED <<QuietSince, CleanFrom, TrackedBy, ActsFrom>>
  BY QuietStays
<1>2. clock <= eval[s].begun + MaxLatency /\ due[s] <= eval[s].begun + Interval(Cfg)
  BY DEF TimeInv, TimeLocals
<1>3. QuietReads(s)' /\ QuietTracking(s)'
  BY <1>1 DEF QuietReads, QuietTracking, InEvaluation
<1>4. clock > TrackedBy /\ ~Settled' => due[s] < ActsFrom + TickWithin /\ clock < ActsFrom + TickWithin
  BY <1>2, TimeTypes, QuietSinceFacts, BoundFacts
<1>5. QuietActing(s)'
  BY <1>1, <1>4 DEF QuietActing, InEvaluation
<1> QED BY <1>3, <1>5

(* A tracking write of the held profile, in the quiet. *)
LEMMA QuietWrite ==
  ASSUME TypeOK, TimeInv, QuietInv, NEW s \in Scalers, Step(s),
         pc[s] \in {"reset", "final"}, pc'[s] = "idle",
         UNCHANGED <<due, cluster, clock>>, Undisturbed,
         configMap' = [profile |-> eval[s].recommended, since |-> eval[s].now]
  PROVE  QuietInv'
<1>1. UNCHANGED <<QuietSince, CleanFrom, TrackedBy, ActsFrom>> /\ (Settled' <=> Settled)
  BY QuietStays DEF Undisturbed, Settled
<1>t. /\ clock \in Nat /\ CleanFrom \in Nat /\ TrackedBy \in Nat /\ ActsFrom \in Nat
      /\ CleanFrom <= TrackedBy /\ TrackedBy < ActsFrom
      /\ eval[s].now \in Nat /\ eval[s].begun \in Nat
  BY TimeTypes, QuietSinceFacts, BoundFacts
<1>2. Settled \/ eval[s].now <= TrackedBy
  BY <1>t DEF QuietInv, QuietReads
<1>3. clock > CleanFrom => Settled' \/ Tracked'
  <2>1. clock > CleanFrom => eval[s].recommended = held.profile
    BY CleanEvaluation DEF InEvaluation
  <2> QED BY <1>1, <1>2, <2>1 DEF Tracked, Undisturbed
<1>4. KeepsGood
  BY <1>1, <1>3 DEF KeepsGood
<1>5. clock > TrackedBy /\ ~Settled' => eval[s].begun < ActsFrom
  <2>1. eval[s].begun <= eval[s].now
    BY DEF TimeInv, TimeLocals
  <2> QED BY <1>1, <1>2, <1>t, <2>1
<1>6. QuietReads(s)' /\ QuietTracking(s)' /\ QuietActing(s)'
  BY <1>3, <1>5, QuietEnd DEF InEvaluation
<1> QED BY <1>4, <1>6, QuietStepOf

LEMMA QuietStep ==
  ASSUME CPUIdentifies, TypeOK, TypeOK', TimeInv, QuietInv, [Next]_vars
  PROVE  QuietInv' \/ Restarted'
<1>t. /\ clock \in Nat /\ MaxLatency \in Nat /\ Interval(Cfg) \in Nat \ {0}
      /\ CleanFrom \in Nat /\ TrackedBy \in Nat /\ ActsFrom \in Nat /\ TickWithin \in Nat
      /\ CleanFrom <= TrackedBy /\ TrackedBy < ActsFrom /\ Interval(Cfg) <= TickWithin
      /\ TrackedBy = CleanFrom + Interval(Cfg) + MaxLatency
      /\ \A s \in Scalers : eval[s].begun \in Nat /\ eval[s].now \in Nat /\ due[s] \in Nat
  BY TimeTypes, QuietSinceFacts, BoundFacts
<1>i. \A s \in Scalers : /\ TimeLocals(s)
                         /\ QuietReads(s) /\ QuietTracking(s) /\ QuietActing(s)
  BY DEF TimeInv, QuietInv
<1>f. Undisturbed => UNCHANGED <<QuietSince, CleanFrom, TrackedBy, ActsFrom>>
  BY QuietStays
<1>r. ASSUME UNCHANGED clock, held'.since = clock \/ disturbed' = clock
      PROVE  QuietInv' \/ Restarted'
  BY <1>r, RestartedStep
<1>k. ASSUME UNCHANGED <<cluster, configMap>>, Undisturbed PROVE KeepsGood
  BY <1>k, <1>f DEF KeepsGood, Settled, Tracked, Undisturbed
<1>1. ASSUME NEW s \in Scalers, Start(s) \/ Stop(s) \/ Crash(s) PROVE QuietInv' \/ Restarted'
  BY <1>1, <1>r DEF Start, Stop, Crash, Disturbance
<1>2. ASSUME NEW s \in Scalers, Evaluate(s) PROVE QuietInv' \/ Restarted'
  <2>1. /\ pc[s] = "idle" /\ due[s] <= clock
        /\ UNCHANGED <<cluster, configMap, clock>>
        /\ \/ disturbed' = clock
           \/ /\ pc'[s] = "current" /\ eval'[s].begun = clock
              /\ held' = held \/ held'.since = clock
              /\ disturbed' = disturbed
    BY <1>2, EvaluateEffect
  <2>2. CASE pc'[s] = "current" /\ eval'[s].begun = clock /\ Undisturbed
    <3>1. UNCHANGED <<QuietSince, CleanFrom, TrackedBy, ActsFrom, Settled, Tracked>>
      BY <1>f, <2>1, <2>2 DEF Undisturbed, Settled, Tracked
    <3>2. QuietReads(s)' /\ QuietTracking(s)' /\ QuietActing(s)'
      BY <1>i, <2>1, <2>2, <3>1 DEF QuietReads, QuietTracking, QuietActing, InEvaluation
    <3> QED BY <1>2, <1>k, <2>1, <2>2, <3>2, QuietStepOf DEF Step
  <2> QED BY <1>r, <2>1, <2>2 DEF Undisturbed
<1>3. ASSUME NEW s \in Scalers, ReadCurrent(s) PROVE QuietInv' \/ Restarted'
  <2>1. /\ pc[s] = "current" /\ pc'[s] = "state"
        /\ UNCHANGED <<due, cluster, configMap, clock, held>>
        /\ eval'[s].begun = eval[s].begun /\ eval'[s].now = clock
        /\ eval'[s].recommended = eval[s].recommended
        /\ \/ disturbed' = clock
           \/ disturbed' = disturbed /\ eval'[s].current = CPUToProfile(cluster.cpu, Cfg)
    BY <1>3, ReadCurrentEffect
  <2>2. CASE Undisturbed /\ eval'[s].current = CPUToProfile(cluster.cpu, Cfg)
    <3>1. UNCHANGED <<QuietSince, CleanFrom, TrackedBy, ActsFrom, Settled, Tracked>>
      BY <1>f, <2>1, <2>2 DEF Undisturbed, Settled, Tracked
    <3>2. ASSUME clock > CleanFrom, eval'[s].current = eval[s].recommended PROVE Settled
      <4>1. eval[s].recommended = held.profile /\ held.profile \in Profiles
        BY <2>1, <3>2, CleanEvaluation DEF InEvaluation
      <4> QED BY <2>2, <3>2, <4>1, AtTarget
    <3>3. QuietReads(s)'
      BY <2>1, <3>1, <3>2 DEF QuietReads
    <3>4. QuietTracking(s)' /\ QuietActing(s)'
      BY <1>i, <2>1, <3>1 DEF QuietTracking, QuietActing, InEvaluation
    <3> QED BY <1>3, <1>k, <2>1, <2>2, <3>3, <3>4, QuietStepOf DEF Step
  <2> QED BY <1>r, <2>1, <2>2 DEF Undisturbed
<1>4. ASSUME NEW s \in Scalers, ReadState(s) PROVE QuietInv' \/ Restarted'
  <2>1. /\ pc[s] = "state"
        /\ UNCHANGED <<due, cluster, configMap, clock, held>>
        /\ disturbed' \in {disturbed, clock}
    BY <1>4, ReadStateEffect
  <2>2. CASE disturbed' = clock
    BY <1>r, <2>1, <2>2
  <2>3. CASE disturbed' # clock
    <3>1. Undisturbed /\ KeepsGood
      BY <1>k, <2>1, <2>3 DEF Undisturbed
    <3>2. UNCHANGED <<QuietSince, CleanFrom, TrackedBy, ActsFrom, Settled, Tracked>>
      BY <1>f, <2>1, <3>1 DEF Undisturbed, Settled, Tracked
    <3>3. clock > CleanFrom => eval[s].recommended = held.profile
      BY <2>1, CleanEvaluation DEF InEvaluation
    <3>4. /\ eval[s].begun <= eval[s].now /\ eval[s].now <= clock
          /\ clock <= eval[s].begun + MaxLatency
      BY <1>i, <2>1 DEF TimeLocals, InEvaluation
    <3>5. clock > TrackedBy => Settled \/ Tracked
      BY <1>i, <1>t, <2>1, <3>4 DEF QuietTracking, InEvaluation
    <3>6. CASE /\ pc'[s] = "reset" /\ SameEvaluation(s)
               /\ \/ configMap.profile # eval[s].recommended
                  \/ eval[s].current = eval[s].recommended
      <4>1. eval[s].now > TrackedBy => Settled
        <5> SUFFICES ASSUME eval[s].now > TrackedBy PROVE Settled
          OBVIOUS
        <5>1. clock > TrackedBy /\ clock > CleanFrom /\ eval[s].now > CleanFrom
          BY <1>t, <3>4
        <5>2. CASE configMap.profile # eval[s].recommended
          BY <3>3, <3>5, <5>1, <5>2 DEF Tracked
        <5>3. CASE eval[s].current = eval[s].recommended
          BY <1>i, <2>1, <5>1, <5>3 DEF QuietReads
        <5> QED BY <3>6, <5>2, <5>3
      <4>2. QuietReads(s)'
        BY <3>2, <3>6, <4>1 DEF QuietReads, SameEvaluation
      <4>3. QuietTracking(s)' /\ QuietActing(s)'
        BY <1>i, <2>1, <3>2, <3>6 DEF QuietTracking, QuietActing, InEvaluation, SameEvaluation
      <4> QED BY <1>4, <2>1, <3>1, <4>2, <4>3, QuietStepOf DEF Step
    <3>7. CASE pc'[s] = "apply" /\ SameEvaluation(s)
      <4>1. QuietReads(s)'
        BY <3>7 DEF QuietReads
      <4>2. QuietTracking(s)' /\ QuietActing(s)'
        BY <1>i, <2>1, <3>2, <3>7 DEF QuietTracking, QuietActing, InEvaluation, SameEvaluation
      <4> QED BY <1>4, <2>1, <3>1, <4>1, <4>2, QuietStepOf DEF Step
    <3>8. CASE /\ pc'[s] = "idle"
               /\ configMap.profile = eval[s].recommended
               /\ ~(eval[s].now - configMap.since
                      >= NeedSeconds(eval[s].current, eval[s].recommended, Cfg))
      <4>1. clock > CleanFrom => Settled' \/ Tracked'
        <5> SUFFICES ASSUME clock > CleanFrom, ~Settled, ~Tracked PROVE FALSE
          BY <3>2
        <5>1. eval[s].begun <= CleanFrom + Interval(Cfg)
          BY <1>i, <2>1 DEF QuietTracking, InEvaluation
        <5>2. clock <= TrackedBy
          BY <1>t, <3>4, <5>1
        <5>3. configMap.since <= clock /\ configMap.since \in Nat
          BY TimeTypes DEF TimeInv, TimeShared
        <5> QED BY <1>t, <3>3, <3>8, <5>2, <5>3 DEF Tracked
      <4>2. clock > TrackedBy /\ ~Settled' => eval[s].begun < ActsFrom
        <5> SUFFICES ASSUME clock > TrackedBy, ~Settled PROVE eval[s].begun < ActsFrom
          BY <3>2
        <5>1. configMap.since <= TrackedBy /\ configMap.since \in Nat
          BY <3>5, TimeTypes DEF Tracked
        <5>2. /\ NeedSeconds(eval[s].current, eval[s].recommended, Cfg) \in Int
              /\ NeedSeconds(eval[s].current, eval[s].recommended, Cfg) <= LongestDebounce
              /\ LongestDebounce \in Nat /\ ActsFrom = TrackedBy + LongestDebounce
          BY BoundFacts, QuietSinceFacts
        <5> QED BY <1>t, <3>4, <3>8, <5>1, <5>2
      <4>3. QuietReads(s)' /\ QuietTracking(s)' /\ QuietActing(s)'
        BY <2>1, <3>1, <3>8, <4>1, <4>2, QuietEnd DEF InEvaluation
      <4> QED BY <1>4, <2>1, <3>1, <4>3, QuietStepOf DEF Step
    <3> QED BY <1>4, <2>3, <3>6, <3>7, <3>8, ReadStateEffect
  <2> QED BY <2>2, <2>3
<1>5. ASSUME NEW s \in Scalers, ResetTracking(s) PROVE QuietInv' \/ Restarted'
  <2>1. /\ pc[s] = "reset" /\ pc'[s] = "idle"
        /\ UNCHANGED <<due, cluster, clock, held>> /\ Tracks(s)
    BY <1>5, <1>i, ResetTrackingEffect DEF TimeLocals
  <2>2. CASE disturbed' = clock
    BY <1>r, <2>1, <2>2
  <2>3. CASE disturbed' # clock
    BY <1>5, <2>1, <2>3, QuietWrite DEF Step, Tracks, Undisturbed
  <2> QED BY <2>2, <2>3
<1>6. ASSUME NEW s \in Scalers, Apply(s) PROVE QuietInv' \/ Restarted'
  <2>1. /\ pc[s] = "apply" /\ UNCHANGED <<due, configMap, clock, held>>
        /\ \/ disturbed' = clock
           \/ /\ cluster' = Resources(eval[s].recommended, Cfg)
              /\ pc'[s] = "final" /\ disturbed' = disturbed
              /\ eval'[s].begun = eval[s].begun /\ eval'[s].now = clock
    BY <1>6, ApplyEffect
  <2>2. CASE disturbed' = clock
    BY <1>r, <2>1, <2>2
  <2>3. CASE disturbed' # clock
    <3>1. UNCHANGED <<QuietSince, CleanFrom, TrackedBy, ActsFrom>> /\ Undisturbed
      BY <1>f, <2>1, <2>3 DEF Undisturbed
    <3>2. clock > CleanFrom => Settled'
      <4>1. clock > CleanFrom => eval[s].recommended = held.profile
        BY <2>1, CleanEvaluation DEF InEvaluation
      <4> QED BY <2>1, <2>3, <4>1 DEF Settled
    <3>3. KeepsGood
      BY <3>2 DEF KeepsGood
    <3>4. QuietReads(s)' /\ QuietTracking(s)' /\ QuietActing(s)'
      BY <1>t, <2>1, <2>3, <3>1, <3>2 DEF QuietReads, QuietTracking, QuietActing
    <3> QED BY <1>6, <2>1, <3>1, <3>3, <3>4, QuietStepOf DEF Step
  <2> QED BY <2>2, <2>3
<1>7. ASSUME NEW s \in Scalers, FinalReset(s) PROVE QuietInv' \/ Restarted'
  <2>1. /\ pc[s] = "final" /\ pc'[s] = "idle"
        /\ UNCHANGED <<due, cluster, clock, held>> /\ Tracks(s)
    BY <1>7, FinalResetEffect
  <2>2. CASE disturbed' = clock
    BY <1>r, <2>1, <2>2
  <2>3. CASE disturbed' # clock
    BY <1>7, <2>1, <2>3, QuietWrite DEF Step, Tracks, Undisturbed
  <2> QED BY <2>2, <2>3
<1>8. CASE EditCluster \/ ReapplyManifest \/ ApplyUpgrade
  BY <1>8, <1>r DEF EditCluster, ReapplyManifest, ApplyUpgrade, Disturbance
<1>9. CASE RenderUpgrade \/ UNCHANGED vars
  <2>1. UNCHANGED <<pc, eval, due, cluster, configMap, clock>> /\ Undisturbed
    BY <1>9 DEF RenderUpgrade, vars, scalerVars, historyVars, Undisturbed
  <2>2. UNCHANGED <<QuietSince, CleanFrom, TrackedBy, ActsFrom, Settled, Tracked>>
    BY <1>f, <2>1 DEF Undisturbed, Settled, Tracked
  <2> QED BY <1>i, <2>1, <2>2 DEF QuietInv, QuietReads, QuietTracking, QuietActing, InEvaluation
<1>10. CASE Tick
  <2>1. /\ UNCHANGED <<pc, eval, due, cluster, configMap>> /\ Undisturbed
        /\ clock' = clock + 1
        /\ \A s \in Scalers : pc[s] = "idle" => clock < due[s]
    BY <1>10 DEF Tick, scalerVars, historyVars, Undisturbed
  <2>2. UNCHANGED <<QuietSince, CleanFrom, TrackedBy, ActsFrom, Settled, Tracked>>
    BY <1>f, <2>1 DEF Undisturbed, Settled, Tracked
  <2>3. ASSUME NEW s \in Scalers PROVE QuietReads(s)' /\ QuietTracking(s)' /\ QuietActing(s)'
    <3>1. QuietReads(s)'
      BY <1>i, <2>1, <2>2 DEF QuietReads
    <3>2. QuietTracking(s)'
      <4>1. CASE clock > CleanFrom
        BY <1>i, <1>t, <2>1, <2>2, <4>1 DEF QuietTracking, InEvaluation
      <4>2. CASE clock <= CleanFrom
        BY <1>i, <1>t, <2>1, <2>2, <4>2 DEF QuietTracking, TimeLocals, InEvaluation
      <4> QED BY <1>t, <4>1, <4>2
    <3>3. QuietActing(s)'
      <4>1. CASE clock > TrackedBy
        BY <1>i, <1>t, <2>1, <2>2, <4>1 DEF QuietActing, InEvaluation
      <4>2. CASE clock <= TrackedBy
        BY <1>i, <1>t, <2>1, <2>2, <4>2 DEF QuietActing, TimeLocals, InEvaluation
      <4> QED BY <1>t, <4>1, <4>2
    <3> QED BY <3>1, <3>2, <3>3
  <2> QED BY <2>3 DEF QuietInv
<1> QED BY <1>1, <1>2, <1>3, <1>4, <1>5, <1>6, <1>7, <1>8, <1>9, <1>10 DEF Next, Step

(* An unsettled cluster has a scaler whose evaluations all began before
   ActsFrom and a tick; the bound is when the last of them is over. *)
LEMMA QuietConverges == TypeOK /\ TimeInv /\ QuietInv => ConvergesInTime
<1> SUFFICES ASSUME TypeOK, TimeInv, QuietInv, NEW s \in Scalers, pc[s] # "down",
                    clock - QuietSince >= ConvergenceBound, ~Settled
             PROVE  FALSE
  BY DEF ConvergesInTime, Settled
<1>t. /\ clock \in Nat /\ QuietSince \in Nat /\ MaxLatency \in Nat /\ Interval(Cfg) \in Nat
      /\ LongestDebounce \in Nat \ {0} /\ TickWithin \in Nat /\ eval[s].begun \in Nat
  BY TimeTypes, QuietSinceFacts, BoundFacts
<1>1. /\ TrackedBy = QuietSince + MaxLatency + Interval(Cfg) + MaxLatency
      /\ ActsFrom = TrackedBy + LongestDebounce
  BY QuietSinceFacts
<1>2. clock >= QuietSince + LongestDebounce + Interval(Cfg) + TickWithin
                 + MaxLatency + MaxLatency + MaxLatency
  BY <1>t DEF ConvergenceBound
<1>3. clock > TrackedBy /\ clock >= ActsFrom + TickWithin + MaxLatency
  BY <1>t, <1>1, <1>2
<1>4. CASE pc[s] = "idle"
  BY <1>t, <1>1, <1>3, <1>4 DEF QuietInv, QuietActing
<1>5. CASE InEvaluation(s)
  <2>1. eval[s].begun < ActsFrom + TickWithin /\ clock <= eval[s].begun + MaxLatency
    BY <1>3, <1>5 DEF QuietInv, QuietActing, TimeInv, TimeLocals
  <2> QED BY <1>t, <1>1, <1>3, <2>1
<1> QED BY <1>4, <1>5 DEF InEvaluation

(* A steady load is followed in bounded time: however many copies run, whatever
   has failed before and whatever was written into the ConfigMap, once nothing
   fails and the recommendation stays, the cluster has its resources within the
   longest window, two ticks and three latencies. *)
THEOREM FollowsTheLoad ==
  ASSUME CPUIdentifies
  PROVE  Spec => []ConvergesInTime
<1>1. TypeOK /\ TypeOK' /\ TimeInv /\ QuietInv /\ [Next]_vars => QuietInv' \/ Restarted'
  BY QuietStep
<1> QED BY <1>1, QuietInit, RestartedIsQuiet, QuietConverges, InTime, TypeCorrect, PTL DEF Spec
-----------------------------------------------------------------------------
(***************************************************************************)
(* A change that is due is made.  The first evaluation to recommend a      *)
(* profile leaves a record of it that is as old as that evaluation, unless *)
(* it finds the cluster there or a record to act on.  While nothing fails  *)
(* that record stays until the cluster has the profile's resources, also   *)
(* through evaluations without metrics (DueLocals), and so an evaluation   *)
(* that begins when the window has passed finds it old enough.             *)
(***************************************************************************)
TrackedInTime ==
  configMap.profile = held.profile /\ configMap.since <= held.since + MaxLatency

DueLocals(s) ==
  /\ InEvaluation(s) => eval[s].recommended = held.profile
  /\ pc[s] \in {"state", "reset"} => eval[s].current = CPUToProfile(cluster.cpu, Cfg)
  /\ pc[s] = "reset" => eval[s].begun = held.since \/ Settled
  /\ pc[s] = "final" => Settled
  /\ \/ Settled \/ TrackedInTime
     \/ pc[s] \in {"current", "state", "reset"} /\ eval[s].begun = held.since

DueInv == ~troubled => \A s \in Scalers : DueLocals(s)

LEMMA DueInit == Init => DueInv
BY BoundsAssumption DEF Init, DueInv, DueLocals, InEvaluation, TrackedInTime, NoTracking

(* A record of the held profile that an evaluation of its first second may
   have found or left is one in time. *)
LEMMA FirstRecord ==
  ASSUME TypeOK, TimeInv, NEW s \in Scalers, InEvaluation(s), eval[s].begun = held.since
  PROVE  /\ configMap.since <= held.since + MaxLatency
         /\ pc[s] \in {"state", "reset", "apply", "final"} =>
              eval[s].now <= held.since + MaxLatency
<1>1. /\ clock \in Nat /\ held.since \in Nat /\ MaxLatency \in Nat
      /\ configMap.since \in Nat /\ eval[s].now \in Nat
  BY TimeTypes
<1>2. /\ configMap.since <= clock /\ clock <= held.since + MaxLatency
      /\ pc[s] \in {"state", "reset", "apply", "final"} => eval[s].now <= clock
  BY DEF TimeInv, TimeShared, TimeLocals
<1> QED BY <1>1, <1>2

LEMMA DueStep ==
  ASSUME OneScaler, CPUIdentifies, TypeOK, TypeOK', TimeInv, DueInv, [Next]_vars
  PROVE  DueInv'
<1> SUFFICES ASSUME ~troubled' PROVE \A s \in Scalers : DueLocals(s)'
  BY DEF DueInv
<1>o. ASSUME NEW s \in Scalers, DueLocals(s)' PROVE \A t \in Scalers : DueLocals(t)'
  BY <1>o DEF OneScaler
<1>i. ASSUME ~troubled, NEW s \in Scalers PROVE DueLocals(s)
  BY <1>i DEF DueInv
<1>1. ASSUME NEW s \in Scalers, Start(s) \/ Stop(s) \/ Crash(s) PROVE FALSE
  BY <1>1 DEF Start, Stop, Crash, Disturbance
<1>2. ASSUME NEW s \in Scalers, Evaluate(s) PROVE DueLocals(s)'
  <2>1. /\ pc[s] = "idle" /\ UNCHANGED <<cluster, configMap>>
        /\ \/ UNCHANGED <<pc, eval, held>> /\ ~troubled
           \/ /\ pc'[s] = "current" /\ eval'[s].begun = clock
              /\ eval'[s].recommended = held'.profile
              /\ \/ held' = held /\ ~troubled
                 \/ held'.since = clock
    BY <1>2, EvaluateEffect
  <2>2. CASE held'.since = clock /\ pc'[s] = "current"
    BY <2>1, <2>2 DEF DueLocals
  <2>3. CASE held' = held /\ ~troubled
    <3>1. Settled' \/ TrackedInTime'
      BY <1>i, <2>1, <2>3 DEF DueLocals, Settled, TrackedInTime
    <3> QED BY <2>1, <2>3, <3>1 DEF DueLocals, InEvaluation
  <2> QED BY <2>1, <2>2, <2>3
<1>3. ASSUME NEW s \in Scalers, ReadCurrent(s) PROVE DueLocals(s)'
  <2>1. /\ pc[s] = "current" /\ pc'[s] = "state" /\ UNCHANGED <<cluster, configMap, held>>
        /\ eval'[s].begun = eval[s].begun /\ eval'[s].recommended = eval[s].recommended
        /\ eval'[s].current = CPUToProfile(cluster.cpu, Cfg) /\ ~troubled
    BY <1>3, ReadCurrentEffect
  <2>2. DueLocals(s)
    BY <1>i, <2>1
  <2> QED BY <2>1, <2>2 DEF DueLocals, InEvaluation, Settled, TrackedInTime
<1>4. ASSUME NEW s \in Scalers, ReadState(s) PROVE DueLocals(s)'
  <2>1. /\ pc[s] = "state" /\ UNCHANGED <<cluster, configMap, held>> /\ ~troubled
        /\ \/ /\ pc'[s] = "reset" /\ SameEvaluation(s)
              /\ \/ configMap.profile # eval[s].recommended
                 \/ eval[s].current = eval[s].recommended
           \/ /\ pc'[s] = "apply" /\ SameEvaluation(s)
              /\ configMap.profile = eval[s].recommended
           \/ /\ pc'[s] = "idle"
              /\ configMap.profile = eval[s].recommended
    BY <1>4, ReadStateEffect
  <2>2. DueLocals(s) /\ InEvaluation(s)
    BY <1>i, <2>1 DEF InEvaluation
  <2>3. eval[s].recommended = held.profile /\ held.profile \in Profiles
    BY <2>1, <2>2 DEF DueLocals, InEvaluation, TypeOK
  <2>4. configMap.profile = held.profile => Settled \/ TrackedInTime
    BY <2>2, FirstRecord DEF DueLocals, TrackedInTime
  <2>5. eval[s].current = eval[s].recommended => Settled
    BY <2>1, <2>2, <2>3, AtTarget DEF DueLocals
  <2>6. UNCHANGED <<Settled, TrackedInTime>>
    BY <2>1 DEF Settled, TrackedInTime
  <2>7. CASE /\ pc'[s] = "reset" /\ SameEvaluation(s)
             /\ \/ configMap.profile # eval[s].recommended
                \/ eval[s].current = eval[s].recommended
    <3>1. eval[s].begun = held.since \/ Settled
      BY <2>1, <2>2, <2>3, <2>5, <2>7 DEF DueLocals, TrackedInTime
    <3> QED BY <2>1, <2>2, <2>6, <2>7, <3>1 DEF DueLocals, InEvaluation, SameEvaluation
  <2>8. CASE pc'[s] = "apply" /\ SameEvaluation(s) /\ configMap.profile = eval[s].recommended
    BY <2>1, <2>2, <2>3, <2>4, <2>6, <2>8 DEF DueLocals, InEvaluation, SameEvaluation
  <2>9. CASE pc'[s] = "idle" /\ configMap.profile = eval[s].recommended
    BY <2>1, <2>2, <2>3, <2>4, <2>6, <2>9 DEF DueLocals, InEvaluation
  <2> QED BY <2>1, <2>7, <2>8, <2>9
<1>5. ASSUME NEW s \in Scalers, ResetTracking(s) PROVE DueLocals(s)'
  <2>1. /\ pc[s] = "reset" /\ pc'[s] = "idle" /\ UNCHANGED <<cluster, held>> /\ ~troubled
        /\ configMap' = [profile |-> eval[s].recommended, since |-> eval[s].now]
    <3>1. ResetEndsEvaluation(s)
      BY DEF TimeInv, TimeLocals
    <3> QED BY <1>5, <3>1, ResetTrackingEffect DEF Tracks
  <2>2. DueLocals(s) /\ InEvaluation(s)
    BY <1>i, <2>1 DEF InEvaluation
  <2>3. Settled' \/ TrackedInTime'
    BY <2>1, <2>2, FirstRecord DEF DueLocals, Settled, TrackedInTime
  <2> QED BY <2>1, <2>3 DEF DueLocals, InEvaluation
<1>6. ASSUME NEW s \in Scalers, Apply(s) PROVE DueLocals(s)'
  <2>1. /\ pc[s] = "apply" /\ UNCHANGED held /\ ~troubled
        /\ cluster' = Resources(eval[s].recommended, Cfg)
        /\ pc'[s] = "final" /\ eval'[s].recommended = eval[s].recommended
    BY <1>6, ApplyEffect
  <2>2. eval[s].recommended = held.profile
    BY <1>i, <2>1 DEF DueLocals, InEvaluation
  <2> QED BY <2>1, <2>2 DEF DueLocals, InEvaluation, Settled
<1>7. ASSUME NEW s \in Scalers, FinalReset(s) PROVE DueLocals(s)'
  <2>1. /\ pc[s] = "final" /\ pc'[s] = "idle" /\ UNCHANGED <<cluster, held>> /\ ~troubled
    BY <1>7, FinalResetEffect DEF Tracks
  <2>2. Settled'
    BY <1>i, <2>1 DEF DueLocals, Settled
  <2> QED BY <2>1, <2>2 DEF DueLocals, InEvaluation
<1>8. CASE EditCluster \/ ReapplyManifest \/ ApplyUpgrade
  BY <1>8 DEF EditCluster, ReapplyManifest, ApplyUpgrade, Disturbance
<1>9. CASE RenderUpgrade \/ Tick \/ UNCHANGED vars
  <2>1. UNCHANGED <<pc, eval, cluster, configMap, held, troubled>>
    BY <1>9 DEF RenderUpgrade, Tick, vars, scalerVars, historyVars
  <2> QED BY <1>i, <2>1 DEF DueLocals, InEvaluation, Settled, TrackedInTime
<1> QED BY <1>o, <1>1, <1>2, <1>3, <1>4, <1>5, <1>6, <1>7, <1>8, <1>9 DEF Next, Step

(* An evaluation that ends without trouble, after the window has passed. *)
LEMMA DueIsDone ==
  ASSUME TypeOK, TimeInv, DueInv, [Next]_vars, NEW s \in Scalers,
         InEvaluation(s), pc'[s] = "idle", Overdue(s), ~troubled'
  PROVE  cluster' = Resources(held.profile, Cfg)
<1>1. /\ ~troubled /\ held.since < eval[s].begun
      /\ eval[s].begun - held.since
           >= Window(CPUToProfile(cluster.cpu, Cfg), held.profile) + MaxLatency
  BY DEF Overdue
<1>2. DueLocals(s)
  BY <1>1 DEF DueInv
<1>t. /\ held.since \in Nat /\ eval[s].begun \in Nat /\ eval[s].now \in Nat
      /\ configMap.since \in Nat /\ MaxLatency \in Nat
  BY TimeTypes
<1>3. CASE ReadState(s)
  <2>1. /\ pc[s] = "state" /\ UNCHANGED cluster
        /\ configMap.profile = eval[s].recommended
        /\ ~(eval[s].now - configMap.since
               >= NeedSeconds(eval[s].current, eval[s].recommended, Cfg))
    BY <1>3, ReadStateEffect
  <2>2. CASE Settled
    BY <2>1, <2>2 DEF Settled
  <2>3. CASE TrackedInTime
    <3> DEFINE need == Window(CPUToProfile(cluster.cpu, Cfg), held.profile)
    <3>1. need = NeedSeconds(eval[s].current, eval[s].recommended, Cfg)
      BY <1>2, <2>1 DEF DueLocals, InEvaluation, Window, NeedSeconds, IsScaleUp
    <3>2. need \in Int
      BY <3>1, ConfigFacts
    <3>3. eval[s].begun <= eval[s].now /\ configMap.since <= held.since + MaxLatency
      BY <2>1, <2>3 DEF TimeInv, TimeLocals, TrackedInTime
    <3>4. eval[s].begun - held.since >= need + MaxLatency
      BY <1>1
    <3>5. ~(eval[s].now - configMap.since >= need)
      BY <2>1, <3>1
    <3> HIDE DEF need
    <3> QED BY <1>t, <3>2, <3>3, <3>4, <3>5
  <2>4. eval[s].begun # held.since
    BY <1>t, <1>1
  <2> QED BY <1>2, <2>1, <2>2, <2>3, <2>4 DEF DueLocals
<1>4. CASE ResetTracking(s)
  <2>1. pc[s] = "reset" /\ UNCHANGED cluster
    BY <1>4 DEF ResetTracking
  <2> QED BY <1>1, <1>2, <1>t, <2>1 DEF DueLocals, Settled
<1>5. CASE FinalReset(s)
  BY <1>2, <1>5 DEF FinalReset, DueLocals, Settled
<1>6. CASE Apply(s)
  BY <1>6, ApplyEffect
<1>7. ASSUME ~ReadState(s), ~ResetTracking(s), ~FinalReset(s), ~Apply(s)
      PROVE  FALSE
  <2>1. ASSUME NEW t \in Scalers, t # s, Step(t) PROVE pc'[s] = pc[s]
    BY <2>1, OthersStay
  <2>2. CASE Step(s)
    BY <1>7, <2>2 DEF Step, Start, Evaluate, ReadCurrent, Stop, Crash, Advance, InEvaluation,
                      TypeOK
  <2>3. CASE \/ EditCluster \/ ReapplyManifest \/ RenderUpgrade \/ ApplyUpgrade \/ Tick
             \/ UNCHANGED vars
    BY <2>3 DEF EditCluster, ReapplyManifest, RenderUpgrade, ApplyUpgrade, Tick, vars,
                scalerVars, InEvaluation
  <2> QED BY <2>1, <2>2, <2>3 DEF Next, InEvaluation
<1> QED BY <1>3, <1>4, <1>5, <1>6, <1>7

(* One scaler is never later than need be: whatever outages of the metrics
   came between, once the window of a recommendation has passed the next
   evaluation that has metrics leaves the cluster with its resources, if no
   call has failed and nothing has happened around the loop since it was first
   made. *)
THEOREM OutagesOnlyDelay ==
  ASSUME OneScaler, CPUIdentifies
  PROVE  Spec => ActsThroughOutages
<1>1. TypeOK /\ TypeOK' /\ TimeInv /\ DueInv /\ [Next]_vars => DueInv'
  BY DueStep
<1>2. TypeOK /\ TimeInv /\ DueInv /\ [Next]_vars =>
        [\A s \in Scalers :
           /\ pc[s] \notin {"down", "idle"} /\ pc'[s] = "idle"
           /\ Overdue(s) /\ ~troubled'
         => cluster' = Resources(held.profile, Cfg)]_vars
  BY DueIsDone DEF InEvaluation
<1> QED BY <1>1, <1>2, DueInit, InTime, TypeCorrect, PTL DEF Spec, ActsThroughOutages
==============================================================================
