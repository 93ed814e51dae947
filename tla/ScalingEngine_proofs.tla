------------------------ MODULE ScalingEngine_proofs ------------------------
(* Facts about the decision engine, for every configuration. *)
EXTENDS ScalingEngine, WellFoundedInduction, TLAPS

(* A set of indices up to n has a largest element, and Max returns it.  The
   scan of CalculateScaleProfile and the reverse map of Load rest on it. *)
LEMMA MaxExists ==
  ASSUME NEW n \in Nat, NEW S \in SUBSET (0..n), S # {}
  PROVE  Max(S) \in S /\ \A x \in S : x <= Max(S)
<1> DEFINE Less == OpToRel(<, Nat)
           T == {m \in 0..n : n - m \in S}
<1>1. \A x, y \in Nat : x < y => <<x, y>> \in Less
  BY DEF OpToRel
<1>2. T \subseteq Nat /\ T # {}
  <2>1. PICK x \in S : TRUE
    OBVIOUS
  <2>2. n - x \in T
    BY <2>1
  <2>3. T \subseteq Nat
    OBVIOUS
  <2> QED BY <2>2, <2>3
<1>3. IsWellFoundedOn(Less, Nat)
  BY NatLessThanWellFounded
<1> HIDE DEF Less
<1>4. PICK m \in T : \A y \in T : <<y, m>> \notin Less
  BY <1>2, <1>3, WFMin
<1>5. ASSUME NEW x \in S PROVE x <= n - m
  <2>1. n - x \in T
    BY <1>5
  <2>2. ~(n - x < m)
    BY <2>1, <1>1, <1>2, <1>4
  <2> QED BY <2>2
<1>6. n - m \in S
  OBVIOUS
<1> QED BY <1>5, <1>6 DEF Max

(* Without metrics there is no recommendation; with metrics it is the name at
   the highest selected index, the floor's if none is selected. *)
LEMMA Recommendation ==
  ASSUME NEW cfg, IsConfig(cfg), NEW sample,
         sample.overviewOK, sample.depths # {}
  PROVE  \E i \in DOMAIN cfg.names :
           /\ CalculateScaleProfile(sample, cfg) = cfg.names[i]
           /\ i = 1 \/ Selected(cfg.names[i], sample, cfg)
           /\ \A j \in DOMAIN cfg.names \ {1} : Selected(cfg.names[j], sample, cfg) => j <= i
<1> DEFINE selected == {i \in DOMAIN cfg.names \ {1} : Selected(cfg.names[i], sample, cfg)}
           top == Max(selected \cup {1})
<1>1. CalculateScaleProfile(sample, cfg) = cfg.names[top]
  BY DEF CalculateScaleProfile
<1>2. Len(cfg.names) \in Nat /\ DOMAIN cfg.names = 1..Len(cfg.names) /\ 1 \in DOMAIN cfg.names
  BY DEF IsConfig
<1>3. top \in selected \cup {1} /\ \A x \in selected \cup {1} : x <= top
  <2>1. selected \cup {1} \in SUBSET (0..Len(cfg.names)) /\ selected \cup {1} # {}
    BY <1>2
  <2> HIDE DEF selected
  <2> QED BY <2>1, <1>2, MaxExists
<1> HIDE DEF top
<1>4. top \in DOMAIN cfg.names /\ (top = 1 \/ Selected(cfg.names[top], sample, cfg))
  BY <1>2, <1>3
<1>5. \A j \in DOMAIN cfg.names \ {1} : Selected(cfg.names[j], sample, cfg) => j <= top
  BY <1>3
<1> QED BY <1>1, <1>4, <1>5

(* A recommendation is always a configured profile: ApplyScale's "unknown
   profile" branch (controller.go) is never taken. *)
THEOREM RecommendationIsAProfile ==
  ASSUME NEW cfg, IsConfig(cfg), NEW sample
  PROVE  CalculateScaleProfile(sample, cfg) \in ProfilesOf(cfg) \cup {ErrNoMetrics}
<1>1. CASE sample.overviewOK /\ sample.depths # {}
  BY <1>1, Recommendation DEF ProfilesOf
<1>2. CASE ~(sample.overviewOK /\ sample.depths # {})
  BY <1>2 DEF CalculateScaleProfile
<1> QED BY <1>1, <1>2

(* Where no name is configured twice, the priority of a profile is its place. *)
LEMMA PriorityIsPlace ==
  ASSUME NEW cfg, IsConfig(cfg),
         \A i, j \in DOMAIN cfg.names : cfg.names[i] = cfg.names[j] => i = j,
         NEW i \in DOMAIN cfg.names
  PROVE  GetProfilePriority(cfg.names[i], cfg) = i
<1>1. i \in Nat /\ cfg.names[i] \in ProfilesOf(cfg)
  BY DEF ProfilesOf, IsConfig
<1> DEFINE First(k) == /\ cfg.names[k] = cfg.names[i]
                       /\ \A j \in DOMAIN cfg.names : cfg.names[j] = cfg.names[i] => k <= j
<1>2. First(i) /\ \A k \in DOMAIN cfg.names : First(k) => k = i
  BY <1>1
<1>3. GetProfilePriority(cfg.names[i], cfg) = CHOOSE k \in DOMAIN cfg.names : First(k)
  BY <1>1 DEF GetProfilePriority
<1> HIDE DEF First
<1> QED BY <1>2, <1>3

(* The recommendation is monotone: of two samples with metrics, one that
   selects the profile recommended for the other gets at least its priority. *)
LEMMA RecommendsAtLeast ==
  ASSUME NEW cfg, IsConfig(cfg),
         \A i, j \in DOMAIN cfg.names : cfg.names[i] = cfg.names[j] => i = j,
         NEW low, low.overviewOK, low.depths # {},
         NEW high, high.overviewOK, high.depths # {},
         Selected(CalculateScaleProfile(low, cfg), low, cfg)
           => Selected(CalculateScaleProfile(low, cfg), high, cfg)
  PROVE  GetProfilePriority(CalculateScaleProfile(low, cfg), cfg)
           <= GetProfilePriority(CalculateScaleProfile(high, cfg), cfg)
<1>1. PICK i \in DOMAIN cfg.names :
        /\ CalculateScaleProfile(low, cfg) = cfg.names[i]
        /\ i = 1 \/ Selected(cfg.names[i], low, cfg)
  BY Recommendation
<1>2. PICK k \in DOMAIN cfg.names :
        /\ CalculateScaleProfile(high, cfg) = cfg.names[k]
        /\ \A j \in DOMAIN cfg.names \ {1} : Selected(cfg.names[j], high, cfg) => j <= k
  BY Recommendation
<1>3. i \in Nat /\ k \in Nat /\ 1 <= k
  BY DEF IsConfig
<1>4. i <= k
  BY <1>1, <1>2, <1>3
<1>5. GetProfilePriority(cfg.names[i], cfg) = i /\ GetProfilePriority(cfg.names[k], cfg) = k
  BY PriorityIsPlace
<1> QED BY <1>1, <1>2, <1>4, <1>5

(* The reverse map returns a profile that requests that CPU, or UNKNOWN. *)
LEMMA CPUToProfileType ==
  ASSUME NEW cfg, IsConfig(cfg), NEW cpu
  PROVE  \/ CPUToProfile(cpu, cfg) = UNKNOWN
         \/ /\ CPUToProfile(cpu, cfg) \in ProfilesOf(cfg)
            /\ cfg.cpu[CPUToProfile(cpu, cfg)] = cpu
<1> DEFINE owners == {i \in DOMAIN cfg.names : cfg.cpu[cfg.names[i]] = cpu}
<1>1. CASE owners = {}
  BY <1>1 DEF CPUToProfile
<1>2. CASE owners # {}
  <2>1. owners \in SUBSET (0..Len(cfg.names)) /\ Len(cfg.names) \in Nat
    BY DEF IsConfig
  <2>2. Max(owners) \in owners
    <3> HIDE DEF owners
    <3> QED BY <1>2, <2>1, MaxExists
  <2>3. CPUToProfile(cpu, cfg) = cfg.names[Max(owners)]
    BY <1>2 DEF CPUToProfile
  <2> HIDE DEF owners
  <2>4. Max(owners) \in DOMAIN cfg.names /\ cfg.cpu[cfg.names[Max(owners)]] = cpu
    BY <2>2 DEF owners
  <2> QED BY <2>3, <2>4 DEF ProfilesOf
<1> QED BY <1>1, <1>2

(* When no two profiles request the same CPU, the reverse map gives back the
   profile whose resources were written. *)
LEMMA CPUToProfileInverts ==
  ASSUME NEW cfg, IsConfig(cfg),
         \A p, q \in ProfilesOf(cfg) : cfg.cpu[p] = cfg.cpu[q] => p = q,
         UNKNOWN \notin ProfilesOf(cfg),
         NEW profile \in ProfilesOf(cfg)
  PROVE  CPUToProfile(Resources(profile, cfg).cpu, cfg) = profile
<1> DEFINE cpu == cfg.cpu[profile]
<1>1. Resources(profile, cfg).cpu = cpu
  BY DEF Resources
<1>2. CPUToProfile(cpu, cfg) # UNKNOWN
  <2>1. PICK i \in DOMAIN cfg.names : cfg.names[i] = profile
    BY DEF ProfilesOf
  <2> DEFINE owners == {k \in DOMAIN cfg.names : cfg.cpu[cfg.names[k]] = cpu}
  <2>2. owners # {}
    BY <2>1
  <2>3. Max(owners) \in owners
    <3>1. owners \in SUBSET (0..Len(cfg.names)) /\ Len(cfg.names) \in Nat
      BY DEF IsConfig
    <3> HIDE DEF owners
    <3> QED BY <2>2, <3>1, MaxExists
  <2>4. CPUToProfile(cpu, cfg) = cfg.names[Max(owners)]
    BY <2>2 DEF CPUToProfile
  <2>5. cfg.names[Max(owners)] \in ProfilesOf(cfg)
    <3>1. Max(owners) \in DOMAIN cfg.names
      BY <2>3
    <3> HIDE DEF owners
    <3> QED BY <3>1 DEF ProfilesOf
  <2> QED BY <2>4, <2>5
<1>3. CPUToProfile(cpu, cfg) \in ProfilesOf(cfg) /\ cfg.cpu[CPUToProfile(cpu, cfg)] = cpu
  BY <1>2, CPUToProfileType
<1> HIDE DEF cpu
<1>4. CPUToProfile(cpu, cfg) = profile
  BY <1>3 DEF cpu
<1> QED BY <1>1, <1>4
==============================================================================
