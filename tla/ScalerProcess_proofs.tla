------------------------ MODULE ScalerProcess_proofs ------------------------
(* What holds of every scaler process: for every configuration, every load
   and outage of the broker, and every moment the signal may come. *)
EXTENDS ScalerProcess, ScalingEngine_proofs

LEMMA HeardProfile ==
  \A s : CalculateScaleProfile(s, Cfg) \in ProfilesOf(Cfg) \cup {ErrNoMetrics}
BY CfgAssumption, RecommendationIsAProfile

(* What an evaluation has heard and calls for stays well typed. *)
LEMMA HearType ==
  ASSUME TypeOK, NEW outcome, Hear(outcome)
  PROVE  /\ sample' \in [overviewOK: BOOLEAN, depths: SUBSET Nat, rate: Nat]
         /\ seen' \subseteq Loads
         /\ recommended' \in ProfilesOf(Cfg) \cup {NotTracked, ErrNoMetrics}
         /\ pc = "queues" => recommended' \in ProfilesOf(Cfg) \cup {ErrNoMetrics}
         /\ pc \notin {"overview", "queues"} => recommended' = recommended
<1>1. broker.load \in Loads /\ broker.load.depths \in SUBSET Nat /\ broker.load.rate \in Nat
  BY ProcessAssumption DEF TypeOK
<1>2. CASE pc = "overview"
  <2>1. sample' = [sample EXCEPT !.overviewOK = outcome = "ok",
                                 !.rate = IF outcome = "ok" THEN broker.load.rate ELSE 0]
    BY <1>2 DEF Hear
  <2>2. (outcome = "ok") \in BOOLEAN /\ (IF outcome = "ok" THEN broker.load.rate ELSE 0) \in Nat
    BY <1>1
  <2> QED BY <1>1, <1>2, <2>1, <2>2 DEF Hear, TypeOK
<1>3. CASE pc = "queues"
  <2>1. GetDetailedQueues(outcome) \in SUBSET Nat
    BY <1>1 DEF GetDetailedQueues
  <2> QED BY <1>1, <1>3, <2>1, HeardProfile DEF Hear, TypeOK
<1>4. CASE pc \notin {"overview", "queues"}
  BY <1>4 DEF Hear, heard, TypeOK
<1> QED BY <1>2, <1>3, <1>4

(* What ResizePods knows stays well typed, and it has a pod at hand when it
   goes on. *)
LEMMA ResizeType ==
  ASSUME TypeOK, NEW outcome, ResizePods(outcome)
  PROVE  left' \in 0..PodCount /\ clean' \in BOOLEAN
<1>1. left \in 0..PodCount /\ clean \in BOOLEAN /\ PodCount \in Nat
      /\ (pc \in {"resize", "verify"} => left > 0)
  BY ProcessAssumption DEF TypeOK
<1>2. CASE pc = "list"
  BY <1>1, <1>2 DEF ResizePods
<1>3. CASE pc \in {"resize", "verify"}
  <2>1. left' = left \/ left' = left - 1
    BY <1>3 DEF ResizePods, resizing
  <2>2. clean' = clean \/ clean' = FALSE
    BY <1>3 DEF ResizePods, resizing
  <2>3. left' \in 0..PodCount
    BY <1>1, <1>3, <2>1
  <2>4. clean' \in BOOLEAN
    BY <1>1, <2>2, Zenon
  <2> QED BY <2>3, <2>4
<1>4. CASE pc \notin {"list", "resize", "verify"}
  <2>1. left' = 0 /\ clean' = TRUE
    BY <1>4 DEF ResizePods
  <2>2. left' \in 0..PodCount
    BY <1>1, <2>1
  <2> QED BY <2>1, <2>2
<1> QED BY <1>2, <1>3, <1>4

USE DEF Calls, Preflight, BrokerCalls, Decided, Writes

(* A call is followed by a stage of the code; by the reads of the cluster only
   when there is a recommendation, and by the end only after the review. *)
LEMMA FollowingType ==
  ASSUME TypeOK, pc \in Calls, NEW outcome, NEW next \in Following(outcome),
         ResizePods(outcome),
         pc = "queues" => recommended' \in ProfilesOf(Cfg) \cup {ErrNoMetrics},
         pc \notin {"overview", "queues"} => recommended' = recommended
  PROVE  /\ next \in Calls \cup {"wait", "select", "exited"}
         /\ next \in Decided => recommended' \in ProfilesOf(Cfg)
         /\ next \in {"resize", "verify"} => left' > 0
         /\ next \in Preflight => pc \in Preflight
         /\ next = "exited" => pc = "review" /\ setting = "inplace"
         /\ next = "queues" => pc = "overview"
<1>1. CASE pc = "discover"
  BY <1>1 DEF Following
<1>2. CASE pc = "review"
  BY <1>2 DEF Following, AfterReview
<1>3. CASE pc = "probe"
  BY <1>3 DEF Following
<1>4. CASE pc = "overview"
  BY <1>4 DEF Following
<1>5. CASE pc = "queues"
  BY <1>5 DEF Following, AfterQueues
<1>6. CASE pc \in {"getCluster", "getConfigMap", "reset", "override", "revert", "apply", "final"}
  <2>1. next \in {"getConfigMap", "reset", "override", "list", "apply", "final", "select"}
    BY <1>6 DEF Following, FirstWrite
  <2> QED BY <1>6, <2>1 DEF TypeOK
<1>7. CASE pc \in {"list", "resize", "verify"}
  <2>1. CASE pc = "resize" /\ outcome = "ok"
    <3>1. next = "verify" /\ left' = left
      BY <2>1 DEF Following, ResizePods, resizing
    <3> QED BY <2>1, <3>1 DEF TypeOK
  <2>2. CASE ~(pc = "resize" /\ outcome = "ok")
    <3>1. next \in AfterPods
      BY <1>7, <2>2 DEF Following
    <3>2. next \in {"resize", "apply", "select", "revert"} /\ (next = "resize" => left' > 0)
      BY <3>1 DEF AfterPods
    <3> QED BY <1>7, <3>2 DEF TypeOK
  <2> QED BY <2>1, <2>2
<1> QED BY <1>1, <1>2, <1>3, <1>4, <1>5, <1>6, <1>7

(* The mode is resolved by the preflight, to what the setting allows. *)
LEMMA ModeType ==
  ASSUME TypeOK, NEW outcome, Resolve(outcome)
  PROVE  mode' \in {"unresolved", "inplace", "rolling"}
BY DEF TypeOK, Resolve

LEMMA TypeInit == Init => TypeOK
<1> SUFFICES ASSUME Init PROVE TypeOK
  OBVIOUS
<1>1. NoSample \in [overviewOK: BOOLEAN, depths: SUBSET Nat, rate: Nat]
  BY DEF NoSample
<1>2. pc \notin Decided
  BY DEF Init, Writes
<1>3. exitCode \in {-1, 0, 1}
  BY DEF Init
<1>4. {sent, cancelled, tick, clean, contacted} \subseteq BOOLEAN
  BY DEF Init
<1>5. left \in 0..PodCount
  BY ProcessAssumption DEF Init
<1> QED BY <1>1, <1>2, <1>3, <1>4, <1>5 DEF Init, TypeOK

LEMMA TypeStep == TypeOK /\ [Next]_vars => TypeOK'
<1> SUFFICES ASSUME TypeOK, [Next]_vars PROVE TypeOK'
  OBVIOUS
<1> USE DEF TypeOK
<1>1. CASE Start
  <2>1. left' \in 0..PodCount
    BY <1>1, ProcessAssumption DEF Start
  <2>2. {sent', cancelled', tick', clean', contacted'} \subseteq BOOLEAN
    BY <1>1 DEF Start
  <2>3. sample' \in [overviewOK: BOOLEAN, depths: SUBSET Nat, rate: Nat]
    BY <1>1 DEF Start, NoSample
  <2>4. pc' \in {"probe", "discover"} /\ mode' \in {"unresolved", "rolling"} /\ lateWrites' = 0
    BY <1>1 DEF Start
  <2> QED BY <1>1, <2>1, <2>2, <2>3, <2>4 DEF Start
<1>2. CASE Send
  BY <1>2 DEF Send, heard, resizing
<1>3. CASE Return
  <2>1. PICK outcome \in Outcomes :
          /\ Hear(outcome) /\ ResizePods(outcome)
          /\ pc' \in Following(outcome) /\ Resolve(outcome)
          /\ lateWrites' \in IF pc \in Writes /\ sent /\ cancelled
                             THEN {lateWrites + 1} \cup {n \in {lateWrites} : outcome = "failed"}
                             ELSE {lateWrites}
    BY <1>3 DEF Return
  <2>2. lateWrites' \in Nat
    BY <2>1
  <2>3. /\ sample' \in [overviewOK: BOOLEAN, depths: SUBSET Nat, rate: Nat]
        /\ seen' \subseteq Loads
        /\ recommended' \in ProfilesOf(Cfg) \cup {NotTracked, ErrNoMetrics}
        /\ pc = "queues" => recommended' \in ProfilesOf(Cfg) \cup {ErrNoMetrics}
        /\ pc \notin {"overview", "queues"} => recommended' = recommended
    BY <2>1, HearType
  <2>4. pc \in Calls
    BY <1>3 DEF Return
  <2>5. /\ pc' \in Calls \cup {"wait", "select", "exited"}
        /\ pc' \in Decided => recommended' \in ProfilesOf(Cfg)
        /\ pc' \in {"resize", "verify"} => left' > 0
    BY <2>1, <2>3, <2>4, FollowingType
  <2>6. left' \in 0..PodCount /\ clean' \in BOOLEAN /\ mode' \in {"unresolved", "inplace", "rolling"}
    BY <2>1, ResizeType, ModeType
  <2> QED BY <1>3, <2>2, <2>3, <2>5, <2>6 DEF Return
<1>4. CASE StopWaiting \/ StopLoop
  BY <1>4 DEF StopWaiting, StopLoop, Quit, heard, resizing, history, Writes
<1>5. CASE ProbeAgain \/ NextEvaluation
  BY <1>5 DEF ProbeAgain, NextEvaluation, Go, heard, resizing, history, Calls, BrokerCalls, Writes
<1>6. CASE TickerFires \/ Signal
  BY <1>6 DEF TickerFires, Signal, heard, resizing, history
<1>7. CASE Kill
  BY <1>7 DEF Kill, heard, resizing, history, Writes
<1>8. CASE BrokerChanges
  BY <1>8 DEF BrokerChanges, run, heard, resizing, history
<1>9. CASE UNCHANGED vars
  BY <1>9 DEF vars, run, heard, resizing, history
<1> QED BY <1>1, <1>2, <1>3, <1>4, <1>5, <1>6, <1>7, <1>8, <1>9 DEF Next

(* The process is well typed, and asks for the state of the cluster only with
   a profile to compare it with (TypeOK). *)
THEOREM TypeCorrect == SafetySpec => []TypeOK
BY TypeInit, TypeStep, PTL DEF SafetySpec

-----------------------------------------------------------------------------
(* Nothing is written after the signal but the write that was under way: a
   call that is sent after it fails before it leaves, so a late write can only
   be one that is sent already, and there is none behind it. *)
LateInv ==
  lateWrites > 0 => cancelled /\ lateWrites = 1 /\ (pc \in Writes => ~sent)

LEMMA LateStep == TypeOK /\ LateInv /\ [Next]_vars => LateInv'
<1> SUFFICES ASSUME TypeOK, LateInv, [Next]_vars PROVE LateInv'
  OBVIOUS
<1> USE DEF LateInv
<1>1. CASE Start
  BY <1>1 DEF Start
<1>2. CASE Send
  BY <1>2 DEF Send, Reaches, Writes, TypeOK
<1>3. CASE Return
  <2>1. sent' = FALSE /\ cancelled' = cancelled
    BY <1>3 DEF Return
  <2>2. CASE pc \in Writes /\ sent /\ cancelled
    <3>1. lateWrites = 0
      BY <2>2 DEF TypeOK
    <3>2. lateWrites' \in {0, 1}
      BY <1>3, <2>2, <3>1 DEF Return
    <3> QED BY <2>1, <2>2, <3>2
  <2>3. CASE ~(pc \in Writes /\ sent /\ cancelled)
    <3>1. lateWrites' = lateWrites
      BY <1>3, <2>3 DEF Return
    <3> QED BY <2>1, <3>1
  <2> QED BY <2>2, <2>3
<1>4. CASE StopWaiting \/ StopLoop
  BY <1>4 DEF StopWaiting, StopLoop, Quit, history, Writes
<1>5. CASE ProbeAgain \/ NextEvaluation
  BY <1>5 DEF ProbeAgain, NextEvaluation, Go, history, Writes
<1>6. CASE TickerFires \/ Signal
  BY <1>6 DEF TickerFires, Signal, history
<1>7. CASE Kill
  BY <1>7 DEF Kill, history, Writes
<1>8. CASE BrokerChanges
  BY <1>8 DEF BrokerChanges, run, history
<1>9. CASE UNCHANGED vars
  BY <1>9 DEF vars, run, history
<1> QED BY <1>1, <1>2, <1>3, <1>4, <1>5, <1>6, <1>7, <1>8, <1>9 DEF Next

(* A process that is told to stop carries out at most one more write
   (OneLateWrite). *)
THEOREM StopsWriting == SafetySpec => []OneLateWrite
<1>1. Init => LateInv
  BY DEF Init, LateInv
<1>2. TypeOK /\ LateInv => OneLateWrite
  BY DEF TypeOK, LateInv, OneLateWrite
<1> QED BY <1>1, <1>2, LateStep, TypeCorrect, PTL DEF SafetySpec

-----------------------------------------------------------------------------
(* The preflight comes before everything that others can notice, and what
   comes after it is done in the mode that is asked for. *)
EndInv ==
  /\ pc \in Preflight => ~contacted /\ setting # "rolling"
  /\ pc \in (Calls \ Preflight) \cup {"wait", "select"} => AsAsked
  /\ EndsAsPromised

(* The end of the preflight. *)
LEMMA PreflightEnds ==
  ASSUME TypeOK, pc \in Preflight, setting # "rolling",
         NEW outcome, pc' \in Following(outcome), Resolve(outcome), UNCHANGED setting
  PROVE  /\ pc' \in {"review", "probe", "exited"}
         /\ pc' = "probe" => AsAsked'
<1>1. setting \in {"auto", "inplace"}
  BY ProcessAssumption DEF TypeOK
<1>2. CASE pc = "discover"
  <2>1. \/ pc' = "review"
        \/ pc' = "probe" /\ setting = "auto" /\ mode' = "rolling"
    BY <1>2 DEF Following, Resolve
  <2> QED BY <2>1 DEF AsAsked
<1>3. CASE pc = "review"
  <2>1. \/ pc' = "exited"
        \/ pc' = "probe" /\ setting = "auto" /\ mode' \in {"inplace", "rolling"}
        \/ pc' = "probe" /\ setting = "inplace" /\ mode' = "inplace"
    BY <1>1, <1>3 DEF Following, AfterReview, Resolve
  <2> QED BY <2>1 DEF AsAsked
<1> QED BY <1>2, <1>3

LEMMA EndStep == TypeOK /\ EndInv /\ [Next]_vars => EndInv'
<1> SUFFICES ASSUME TypeOK, EndInv, [Next]_vars PROVE EndInv'
  OBVIOUS
<1> USE DEF EndInv, EndsAsPromised
<1>1. CASE Start
  BY <1>1 DEF Start, AsAsked
<1>2. CASE Send
  BY <1>2 DEF Send, AsAsked
<1>3. CASE Return
  <2>1. PICK outcome \in Outcomes :
          /\ Hear(outcome) /\ ResizePods(outcome)
          /\ pc' \in Following(outcome) /\ Resolve(outcome)
    BY <1>3 DEF Return
  <2>2. pc \in Calls /\ contacted' = contacted /\ setting' = setting
    BY <1>3 DEF Return
  <2>3. /\ pc' \in Calls \cup {"wait", "select", "exited"}
        /\ pc' \in Preflight => pc \in Preflight
        /\ pc' = "exited" => pc = "review" /\ setting = "inplace"
    <3>1. /\ pc = "queues" => recommended' \in ProfilesOf(Cfg) \cup {ErrNoMetrics}
          /\ pc \notin {"overview", "queues"} => recommended' = recommended
      BY <2>1, HearType
    <3> QED BY <2>1, <2>2, <3>1, FollowingType
  <2>4. pc' = "exited" => exitCode' = 1
    BY <1>3 DEF Return
  <2>5. CASE pc \in Preflight
    <3>1. /\ setting # "rolling" /\ ~contacted
          /\ pc' \in {"review", "probe", "exited"}
          /\ pc' = "probe" => AsAsked'
      BY <2>1, <2>2, <2>5, PreflightEnds
    <3> QED BY <2>2, <2>3, <2>4, <2>5, <3>1
  <2>6. CASE pc \notin Preflight
    <3>1. AsAsked' /\ pc' \notin Preflight \cup {"exited"}
      BY <2>1, <2>2, <2>3, <2>6 DEF Resolve, AsAsked
    <3> QED BY <2>3, <3>1
  <2> QED BY <2>5, <2>6
<1>4. CASE StopWaiting \/ StopLoop
  BY <1>4 DEF StopWaiting, StopLoop, Quit, AsAsked, history
<1>5. CASE ProbeAgain \/ NextEvaluation
  BY <1>5 DEF ProbeAgain, NextEvaluation, Go, AsAsked, history
<1>6. CASE TickerFires \/ Signal
  BY <1>6 DEF TickerFires, Signal, AsAsked, history
<1>7. CASE Kill
  BY <1>7 DEF Kill, AsAsked, history
<1>8. CASE BrokerChanges
  BY <1>8 DEF BrokerChanges, run, AsAsked, history
<1>9. CASE UNCHANGED vars
  BY <1>9 DEF vars, run, AsAsked, history
<1> QED BY <1>1, <1>2, <1>3, <1>4, <1>5, <1>6, <1>7, <1>8, <1>9 DEF Next

(* A process ends by itself only in the preflight of an explicit in-place
   mode, before it has touched anything, and touches nothing in a mode that
   was not asked for (EndsAsPromised). *)
THEOREM EndsInPreflightOnly == SafetySpec => []EndsAsPromised
<1>1. Init => EndInv
  BY DEF Init, EndInv, EndsAsPromised
<1>2. EndInv => EndsAsPromised
  BY DEF EndInv
<1> QED BY <1>1, <1>2, EndStep, TypeCorrect, PTL DEF SafetySpec

-----------------------------------------------------------------------------
(* Between the two requests of an evaluation the rate that was heard is that
   of a load that answered. *)
SampleInv ==
  /\ pc = "queues" /\ sample.overviewOK => \E load \in seen : load.rate = sample.rate
  /\ NeverAboveTheLoads

(* A sample made of the rate of one load and the queues of another calls for
   at most what one of the two calls for. *)
LEMMA TornSample ==
  ASSUME NEW first \in Loads, NEW second \in Loads, NEW torn,
         torn.overviewOK, torn.rate = first.rate,
         torn.depths = second.depths, torn.depths # {}
  PROVE  \E load \in {first, second} :
           GetProfilePriority(CalculateScaleProfile(torn, Cfg), Cfg)
             <= GetProfilePriority(CallsFor(load), Cfg)
<1> DEFINE profile == CalculateScaleProfile(torn, Cfg)
           Whole(load) == [overviewOK |-> TRUE, depths |-> load.depths \cup {0},
                           rate |-> load.rate]
<1>1. \A load : /\ CallsFor(load) = CalculateScaleProfile(Whole(load), Cfg)
                /\ Whole(load).overviewOK /\ Whole(load).depths # {}
                /\ Whole(load).rate = load.rate
                /\ MaxQueueDepth(Whole(load).depths) = MaxQueueDepth(load.depths)
  <2>1. \A load : (load.depths \cup {0}) \cup {0} = load.depths \cup {0}
    OBVIOUS
  <2> QED BY <2>1 DEF CallsFor, MaxQueueDepth
<1> HIDE DEF Whole
<1>2. Selected(profile, torn, Cfg)
        => \E load \in {first, second} : Selected(profile, Whole(load), Cfg)
  BY <1>1 DEF Selected
<1>3. PICK load \in {first, second} :
        Selected(profile, torn, Cfg) => Selected(profile, Whole(load), Cfg)
  BY <1>2
<1>4. GetProfilePriority(profile, Cfg)
        <= GetProfilePriority(CalculateScaleProfile(Whole(load), Cfg), Cfg)
  BY <1>1, <1>3, CfgAssumption, RecommendsAtLeast
<1> QED BY <1>1, <1>4

LEMMA SampleReturn ==
  ASSUME TypeOK, SampleInv, Return
  PROVE  SampleInv'
<1>1. PICK outcome \in Outcomes :
        Hear(outcome) /\ ResizePods(outcome) /\ pc' \in Following(outcome)
  BY DEF Return
<1>2. pc \in Calls /\ broker.load \in Loads /\ broker.load.depths \in SUBSET Nat
  BY ProcessAssumption DEF Return, TypeOK
<1>3. CASE pc = "overview"
  <2>1. recommended' \notin ProfilesOf(Cfg)
    BY <1>1, <1>3, CfgAssumption DEF Hear
  <2>2. /\ sample' = [sample EXCEPT !.overviewOK = outcome = "ok",
                                    !.rate = IF outcome = "ok" THEN broker.load.rate ELSE 0]
        /\ seen' = {load \in {broker.load} : outcome = "ok"}
    BY <1>1, <1>3 DEF Hear
  <2>3. sample'.overviewOK => broker.load \in seen' /\ sample'.rate = broker.load.rate
    BY <2>2 DEF TypeOK
  <2> QED BY <2>1, <2>3 DEF SampleInv, NeverAboveTheLoads
<1>4. CASE pc = "queues"
  <2>1. pc' # "queues"
    BY <1>1, <1>4 DEF Following, AfterQueues
  <2>2. /\ sample' = [sample EXCEPT !.depths = GetDetailedQueues(outcome)]
        /\ seen' = seen \cup {load \in {broker.load} : outcome = "ok"}
        /\ recommended' = CalculateScaleProfile(sample', Cfg)
    BY <1>1, <1>4 DEF Hear
  <2>3. /\ sample'.overviewOK = sample.overviewOK /\ sample'.rate = sample.rate
        /\ sample'.depths = GetDetailedQueues(outcome)
    BY <2>2 DEF TypeOK
  <2>4. ASSUME recommended' \in ProfilesOf(Cfg) PROVE NeverAboveTheLoads'
    <3>1. sample.overviewOK /\ sample'.depths # {}
      BY <2>2, <2>3, <2>4, CfgAssumption DEF CalculateScaleProfile
    <3>2. sample'.depths = broker.load.depths /\ broker.load \in seen'
      BY <2>2, <2>3, <3>1 DEF GetDetailedQueues
    <3>3. PICK first \in seen : first.rate = sample.rate
      BY <1>4, <3>1 DEF SampleInv
    <3>4. first \in Loads /\ first \in seen'
      BY <2>2 DEF TypeOK
    <3>5. PICK load \in {first, broker.load} :
            GetProfilePriority(recommended', Cfg) <= GetProfilePriority(CallsFor(load), Cfg)
      BY <1>2, <2>2, <2>3, <3>1, <3>2, <3>3, <3>4, TornSample
    <3> QED BY <3>2, <3>4, <3>5 DEF NeverAboveTheLoads
  <2> QED BY <2>1, <2>4 DEF SampleInv, NeverAboveTheLoads
<1>5. CASE pc \notin {"overview", "queues"}
  <2>1. UNCHANGED heard
    BY <1>1, <1>5 DEF Hear
  <2>2. pc' # "queues"
    BY <1>1, <1>2, <1>5, <2>1, FollowingType DEF heard
  <2> QED BY <2>1, <2>2 DEF SampleInv, NeverAboveTheLoads, heard
<1> QED BY <1>3, <1>4, <1>5

LEMMA SampleStep == TypeOK /\ SampleInv /\ [Next]_vars => SampleInv'
<1> SUFFICES ASSUME TypeOK, SampleInv, [Next]_vars PROVE SampleInv'
  OBVIOUS
<1>1. CASE Start
  BY <1>1, CfgAssumption DEF Start, SampleInv, NeverAboveTheLoads
<1>2. CASE Return
  BY <1>2, SampleReturn
<1>3. CASE \/ Send \/ StopWaiting \/ StopLoop \/ ProbeAgain \/ NextEvaluation
           \/ TickerFires \/ Signal \/ Kill \/ BrokerChanges \/ UNCHANGED vars
  <2>1. UNCHANGED heard
    BY <1>3 DEF Send, StopWaiting, StopLoop, Quit, ProbeAgain, NextEvaluation, Go,
                TickerFires, Signal, Kill, BrokerChanges, vars
  <2>2. pc' = "queues" => pc = "queues"
    BY <1>3 DEF Send, StopWaiting, StopLoop, Quit, ProbeAgain, NextEvaluation, Go,
                TickerFires, Signal, Kill, BrokerChanges, vars, run
  <2> QED BY <2>1, <2>2 DEF SampleInv, NeverAboveTheLoads, heard
<1> QED BY <1>1, <1>2, <1>3 DEF Next

(* However the load moves and the broker fails within an evaluation, the
   recommendation is at most what a load that answered calls for
   (NeverAboveTheLoads). *)
THEOREM TornSamplesAreBounded == SafetySpec => []NeverAboveTheLoads
<1>1. Init => SampleInv
  BY CfgAssumption DEF Init, SampleInv, NeverAboveTheLoads
<1>2. SampleInv => NeverAboveTheLoads
  BY DEF SampleInv
<1> QED BY <1>1, <1>2, SampleStep, TypeCorrect, PTL DEF SafetySpec
=============================================================================
