------------------------ MODULE ConfigPipeline_proofs ------------------------
(* What becomes of every document an operator may write, however many
   profiles it has and whatever numbers. *)
EXTENDS ConfigPipeline, TLAPS

LEMMA TheOneIsIn ==
  ASSUME NEW field, field # {}, IsOptional(field)
  PROVE  TheOne(field) \in field /\ \A x \in field : x = TheOne(field)
BY DEF TheOne, IsOptional

(* What deploys the document, and what the process then works with. *)
Deployed == IF tool = "chart" THEN Render(document, flags) ELSE Generate(document, flags)

(* Only a document that the schema accepts gets beyond the first stage, and
   nothing changes on the way but by the conversions. *)
PipelineInv ==
  /\ stage \in {"written", "rejected", "deployed", "running"}
  /\ tool \in Tools /\ document \in Documents /\ flags \in FlagSets
  /\ tool = "chart" => flags.namespace # ""
  /\ stage \in {"written", "rejected"} => env = NoEnv /\ config = NoConfig
  /\ stage \in {"deployed", "running"} => env = {Deployed} /\ Validate(tool, document)
  /\ stage = "deployed" => config = NoConfig
  /\ stage = "running" => config = {Load(Deployed)}

LEMMA PipelineCorrect == Spec => []PipelineInv
<1>1. Init => PipelineInv
  BY DEF Init, PipelineInv
<1>2. PipelineInv /\ [Next]_vars => PipelineInv'
  <2> SUFFICES ASSUME PipelineInv, [Next]_vars PROVE PipelineInv'
    OBVIOUS
  <2> USE DEF PipelineInv
  <2>1. CASE Reject
    BY <2>1 DEF Reject
  <2>2. CASE Deploy
    <3>1. Deployed' = Deployed /\ env' = {Deployed}
      BY <2>2 DEF Deploy, Deployed
    <3> QED BY <2>2, <3>1 DEF Deploy, Accepts
  <2>3. CASE Start
    <3>1. Deployed' = Deployed
      BY <2>3 DEF Start, Deployed
    <3>2. TheOne(env) = Deployed
      BY <2>3 DEF Start, TheOne
    <3> QED BY <2>3, <3>1, <3>2 DEF Start
  <2>4. CASE UNCHANGED vars
    <3>1. Deployed' = Deployed
      BY <2>4 DEF vars, Deployed
    <3> QED BY <2>4, <3>1 DEF vars
  <2> QED BY <2>1, <2>2, <2>3, <2>4 DEF Next
<1> QED BY <1>1, <1>2, PTL DEF Spec

(* A configuration in use comes from a valid document. *)
LEMMA InUse ==
  ASSUME PipelineInv, NEW c \in config
  PROVE  c = Load(Deployed) /\ Validate(tool, document) /\ document \in Documents /\ flags \in FlagSets
         /\ tool \in Tools
BY DEF PipelineInv, NoConfig

(* Whatever the file, the flags and the release say, the scaler gets its
   metrics from the service and namespace whose resource it patches, unless a
   host was written (MetricsOfTheScaledCluster). *)
THEOREM MetricsMatchTarget == Spec => []MetricsOfTheScaledCluster
<1>1. PipelineInv => MetricsOfTheScaledCluster
  <2> SUFFICES ASSUME PipelineInv, NEW c \in config, document.host = {}
               PROVE  c.host = ServiceHost(c.service, c.namespace)
    BY DEF MetricsOfTheScaledCluster
  <2>1. c = Load(Deployed)
    BY InUse
  <2>2. Deployed.host = ServiceHost(Deployed.service, Deployed.namespace)
    <3>1. CASE tool = "chart"
      BY <3>1 DEF Deployed, Render, RenderWith, Environment, rmqHost, OrElse
    <3>2. CASE tool # "chart"
      BY <3>2 DEF Deployed, Generate, Environment, resolveRMQ
    <3> QED BY <3>1, <3>2
  <2>3. c.host = Deployed.host /\ c.service = Deployed.service /\ c.namespace = Deployed.namespace
    BY <2>1 DEF Load
  <2> QED BY <2>2, <2>3
<1> QED BY <1>1, PipelineCorrect, PTL

-----------------------------------------------------------------------------
(* Numbers that are integers and not negative, by name; and their texts. *)
AreCounts(numbers) == \A name \in DOMAIN numbers : numbers[name] \in Nat

AreTexts(texts) == \A name \in DOMAIN texts : texts[name] \in Texts /\ texts[name].tenths >= 0

(* What the schema leaves of a list of profiles. *)
AreProfiles(profiles) ==
  /\ profiles \in Seq(ProfileRecord) /\ profiles # <<>>
  /\ Distinct(NamesOf(profiles))
  /\ \A i \in DOMAIN profiles : \A kind \in Kinds :
       IsOptional(profiles[i][kind]) /\ AtLeast(profiles[i][kind], 0)

IsEnvironment(e) ==
  /\ e.names \in Seq(STRING) /\ e.names # <<>>
  /\ e.cpu \in [DOMAIN e.names -> STRING] /\ e.memory \in [DOMAIN e.names -> STRING]
  /\ AreTexts(e.queue) /\ AreTexts(e.rate) /\ AreTexts(e.times)
  /\ DOMAIN e.times = {"up", "down", "interval"} /\ e.times["interval"].tenths >= 10

IsInRange(c) ==
  /\ c.checkInterval >= 1 /\ c.scaleUpDebounce >= 0 /\ c.scaleDownDebounce >= 0
  /\ \A p \in ProfilesOf(c) : c.queueThresholds[p] >= 0 /\ c.rateThresholds[p] >= 0

LEMMA FormattedAreTexts ==
  ASSUME NEW numbers, AreCounts(numbers)
  PROVE  AreTexts(Formatted(numbers)) /\ DOMAIN Formatted(numbers) = DOMAIN numbers
         /\ \A name \in DOMAIN numbers : Formatted(numbers)[name].tenths = numbers[name]
BY DEF AreCounts, AreTexts, Formatted, FormatNumber, Texts

LEMMA getintType ==
  ASSUME NEW texts, AreTexts(texts), NEW key, NEW default \in Nat
  PROVE  getint(texts, key, default) \in Nat
BY DEF getint, AreTexts, Texts

(* Where profiles carry thresholds, the thresholds by name are theirs. *)
LEMMA ThresholdsOfProfiles ==
  ASSUME NEW profiles, AreProfiles(profiles), NEW kind \in Kinds
  PROVE  /\ AreCounts(ProfileThresholds(profiles, kind))
         /\ \A i \in DOMAIN profiles : profiles[i][kind] # {} =>
              /\ profiles[i].name \in DOMAIN ProfileThresholds(profiles, kind)
              /\ ProfileThresholds(profiles, kind)[profiles[i].name] = TheOne(profiles[i][kind])
<1> DEFINE given == {i \in DOMAIN profiles : profiles[i][kind] # {}}
<1>1. DOMAIN ProfileThresholds(profiles, kind) = {profiles[i].name : i \in given}
  BY DEF ProfileThresholds
<1>2. ASSUME NEW i \in given
      PROVE  /\ ProfileThresholds(profiles, kind)[profiles[i].name] = TheOne(profiles[i][kind])
             /\ TheOne(profiles[i][kind]) \in Nat
  <2>1. \A j \in DOMAIN profiles : profiles[j].name = profiles[i].name => j = i
    BY DEF AreProfiles, Distinct, NamesOf
  <2>2. Named(profiles, profiles[i].name) = profiles[i]
    BY <2>1 DEF Named
  <2>3. ProfileThresholds(profiles, kind)[profiles[i].name] = TheOne(profiles[i][kind])
    BY <2>2 DEF ProfileThresholds
  <2>4. IsOptional(profiles[i][kind]) /\ AtLeast(profiles[i][kind], 0) /\ profiles[i][kind] # {}
    BY DEF AreProfiles
  <2>5. profiles[i] \in ProfileRecord
    BY DEF AreProfiles
  <2>6. profiles[i][kind] \subseteq Int
    BY <2>5 DEF ProfileRecord, Kinds
  <2> QED BY <2>3, <2>4, <2>6, TheOneIsIn DEF AtLeast
<1> QED BY <1>1, <1>2 DEF AreCounts

LEMMA DefaultProfilesType ==
  AreProfiles(defaultProfiles) /\ \A kind \in Kinds : DOMAIN ProfileThresholds(defaultProfiles, kind) = {}
<1>1. \A i \in DOMAIN defaultProfiles :
        /\ defaultProfiles[i] \in ProfileRecord
        /\ defaultProfiles[i].queue = {} /\ defaultProfiles[i].rate = {}
  <2>1. /\ defaultProfiles[1] = Plain("LOW", "330m", "2Gi")
        /\ defaultProfiles[2] = Plain("MEDIUM", "800m", "3Gi")
        /\ defaultProfiles[3] = Plain("HIGH", "1600m", "4Gi")
        /\ defaultProfiles[4] = Plain("CRITICAL", "2400m", "8Gi")
        /\ DOMAIN defaultProfiles = 1..4
    BY DEF defaultProfiles
  <2>2. /\ Plain("LOW", "330m", "2Gi") \in ProfileRecord
        /\ Plain("MEDIUM", "800m", "3Gi") \in ProfileRecord
        /\ Plain("HIGH", "1600m", "4Gi") \in ProfileRecord
        /\ Plain("CRITICAL", "2400m", "8Gi") \in ProfileRecord
    <3>1. \A name, cpu, memory \in STRING : Plain(name, cpu, memory) \in ProfileRecord
      BY DEF Plain, ProfileRecord
    <3> QED BY <3>1, LiteralAssumption
  <2>3. \A name, cpu, memory : Plain(name, cpu, memory).queue = {} /\ Plain(name, cpu, memory).rate = {}
    BY DEF Plain
  <2>4. \A i \in 1..4 : i = 1 \/ i = 2 \/ i = 3 \/ i = 4
    OBVIOUS
  <2> QED BY <2>1, <2>2, <2>3, <2>4
<1>2. defaultProfiles \in Seq(ProfileRecord) /\ defaultProfiles # <<>>
  BY <1>1 DEF defaultProfiles
<1>3. Distinct(NamesOf(defaultProfiles))
  BY DEF defaultProfiles, Plain, Distinct, NamesOf
<1>4. \A i \in DOMAIN defaultProfiles : \A kind \in Kinds : defaultProfiles[i][kind] = {}
  BY <1>1 DEF Kinds
<1>5. \A kind \in Kinds : DOMAIN ProfileThresholds(defaultProfiles, kind) = {}
  BY <1>4 DEF ProfileThresholds
<1> QED BY <1>2, <1>3, <1>4, <1>5 DEF AreProfiles, IsOptional, AtLeast

With(p, queue, rate) == [p EXCEPT !.queue = queue, !.rate = rate]

LEMMA WithThresholds ==
  ASSUME NEW p \in ProfileRecord, NEW queue \in SUBSET Int, NEW rate \in SUBSET Int,
         NEW q, q = With(p, queue, rate)
  PROVE  q \in ProfileRecord /\ q.queue = queue /\ q.rate = rate /\ q.name = p.name
<1> USE DEF With
<1>1. q \in ProfileRecord
  BY DEF ProfileRecord
<1>2. q.queue = queue
  BY DEF ProfileRecord
<1>3. q.rate = rate
  BY DEF ProfileRecord
<1>4. q.name = p.name
  BY DEF ProfileRecord
<1> QED BY <1>1, <1>2, <1>3, <1>4

LEMMA ChartProfilesType == AreProfiles(chartProfiles)
<1>1. DOMAIN defaultProfiles = 1..4
  BY DEF defaultProfiles
<1>2. ASSUME NEW i \in 1..4
      PROVE  /\ chartProfiles[i] \in ProfileRecord
             /\ chartProfiles[i].name = defaultProfiles[i].name
             /\ \A kind \in Kinds : /\ IsOptional(chartProfiles[i][kind])
                                    /\ AtLeast(chartProfiles[i][kind], 0)
  <2> DEFINE default(kind) == IF i = 1 THEN {} ELSE {DefaultThresholds[kind][defaultProfiles[i].name]}
  <2>1. chartProfiles[i] = [defaultProfiles[i] EXCEPT !.queue = default("queue"), !.rate = default("rate")]
    BY <1>1 DEF chartProfiles
  <2>2. defaultProfiles[i] \in ProfileRecord
    BY <1>1, DefaultProfilesType DEF AreProfiles
  <2>3. i # 1 => defaultProfiles[i].name \in {"MEDIUM", "HIGH", "CRITICAL"}
    BY DEF defaultProfiles, Plain
  <2>4. i # 1 => \A kind \in Kinds : DefaultThresholds[kind][defaultProfiles[i].name] \in Nat
    BY <2>3 DEF DefaultThresholds, Kinds
  <2>5. \A kind \in Kinds : default(kind) \subseteq Nat /\ IsOptional(default(kind))
    BY <2>4 DEF IsOptional
  <2> HIDE DEF default
  <2>6. default("queue") \subseteq Nat /\ default("rate") \subseteq Nat
    BY <2>5 DEF Kinds
  <2>7. /\ chartProfiles[i].queue = default("queue") /\ chartProfiles[i].rate = default("rate")
        /\ chartProfiles[i] \in ProfileRecord /\ chartProfiles[i].name = defaultProfiles[i].name
    <3> DEFINE q == default("queue")
               r == default("rate")
               p == defaultProfiles[i]
               x == chartProfiles[i]
    <3>1. x = With(p, q, r) /\ p \in ProfileRecord
      BY <2>1, <2>2 DEF With
    <3>2. q \in SUBSET Int /\ r \in SUBSET Int
      BY <2>6
    <3> HIDE DEF q, r, p, x
    <3>3. x.queue = q /\ x.rate = r /\ x \in ProfileRecord /\ x.name = p.name
      BY <3>1, <3>2, WithThresholds
    <3> QED BY <3>3 DEF q, r, p, x
  <2> QED BY <2>5, <2>6, <2>7 DEF Kinds, AtLeast
<1>3. chartProfiles \in Seq(ProfileRecord) /\ chartProfiles # <<>> /\ DOMAIN chartProfiles = 1..4
  BY <1>1, <1>2 DEF chartProfiles
<1>4. Distinct(NamesOf(chartProfiles))
  BY <1>1, <1>2, <1>3, DefaultProfilesType DEF AreProfiles, Distinct, NamesOf
<1> QED BY <1>2, <1>3, <1>4 DEF AreProfiles

LEMMA DocumentProfiles ==
  ASSUME NEW d, IsDocument(d), NEW t, Validate(t, d), d.profiles # <<>>
  PROVE  AreProfiles(d.profiles)
BY DEF IsDocument, Validate, AreProfiles, NamesOf

-----------------------------------------------------------------------------
(* Both tools make a well formed environment of a valid document. *)

LEMMA EnvironmentType ==
  ASSUME NEW profiles, AreProfiles(profiles), NEW queue, AreCounts(queue),
         NEW rate, AreCounts(rate),
         NEW up \in Nat, NEW down \in Nat, NEW interval \in Nat, interval >= 10,
         NEW namespace, NEW service, NEW host, NEW mode
  PROVE  IsEnvironment(Environment(profiles, queue, rate, up, down, interval,
                                   namespace, service, host, mode))
<1> DEFINE e == Environment(profiles, queue, rate, up, down, interval,
                            namespace, service, host, mode)
           times == [up |-> up, down |-> down, interval |-> interval]
<1>1. \A i \in DOMAIN profiles : /\ profiles[i].name \in STRING
                                 /\ profiles[i].cpu \in STRING /\ profiles[i].memory \in STRING
  <2>1. \A i \in DOMAIN profiles : profiles[i] \in ProfileRecord
    BY DEF AreProfiles
  <2>2. \A p \in ProfileRecord : p.name \in STRING /\ p.cpu \in STRING /\ p.memory \in STRING
    BY DEF ProfileRecord
  <2> QED BY <2>1, <2>2
<1>2. e.names \in Seq(STRING) /\ e.names # <<>> /\ DOMAIN e.names = DOMAIN profiles
  <2>1. e.names = [i \in DOMAIN profiles |-> profiles[i].name]
    BY DEF Environment, NamesOf
  <2>2. DOMAIN profiles = 1..Len(profiles) /\ Len(profiles) \in Nat /\ Len(profiles) # 0
    BY DEF AreProfiles
  <2> HIDE DEF e
  <2> QED BY <1>1, <2>1, <2>2
<1>3. e.cpu \in [DOMAIN profiles -> STRING] /\ e.memory \in [DOMAIN profiles -> STRING]
  BY <1>1 DEF Environment
<1>4. AreCounts(times) /\ DOMAIN times = {"up", "down", "interval"} /\ times["interval"] = interval
  BY DEF AreCounts
<1>5. e.queue = Formatted(queue) /\ e.rate = Formatted(rate) /\ e.times = Formatted(times)
  BY DEF Environment
<1> HIDE DEF e, times
<1>6. AreTexts(e.queue) /\ AreTexts(e.rate)
  BY <1>5, FormattedAreTexts
<1>7. /\ AreTexts(e.times) /\ DOMAIN e.times = {"up", "down", "interval"}
      /\ e.times["interval"].tenths >= 10
  BY <1>4, <1>5, FormattedAreTexts
<1>8. IsEnvironment(e)
  BY <1>2, <1>3, <1>6, <1>7 DEF IsEnvironment
<1> QED BY <1>8 DEF e

LEMMA TimesType ==
  ASSUME NEW d, IsDocument(d), NEW t, Validate(t, d), NEW default \in Nat
  PROVE  /\ OrElse(d.up, default) \in Nat /\ OrElse(d.down, default) \in Nat
         /\ default >= 10 => OrElse(d.interval, default) \in Nat /\ OrElse(d.interval, default) >= 10
         /\ resolveCheckInterval(d) \in Nat /\ resolveCheckInterval(d) >= 10
<1>1. /\ IsOptional(d.up) /\ d.up \subseteq Int /\ AtLeast(d.up, 0)
      /\ IsOptional(d.down) /\ d.down \subseteq Int /\ AtLeast(d.down, 0)
      /\ IsOptional(d.interval) /\ d.interval \subseteq Int /\ AtLeast(d.interval, 10)
  BY DEF IsDocument, Validate
<1>2. /\ d.up # {} => TheOne(d.up) \in d.up
      /\ d.down # {} => TheOne(d.down) \in d.down
      /\ d.interval # {} => TheOne(d.interval) \in d.interval
  BY <1>1, TheOneIsIn
<1> QED BY <1>1, <1>2 DEF OrElse, AtLeast, resolveCheckInterval

LEMMA extractThresholdsType ==
  ASSUME NEW d, IsDocument(d), Validate("generate", d), NEW kind \in Kinds
  PROVE  AreProfiles(resolveProfiles(d)) /\ AreCounts(extractThresholds(d, kind))
<1>1. AreProfiles(resolveProfiles(d))
  BY DefaultProfilesType, DocumentProfiles DEF resolveProfiles
<1>2. d.legacy # {} => AreCounts(TheOne(d.legacy)[kind])
  <2> SUFFICES ASSUME d.legacy # {} PROVE AreCounts(TheOne(d.legacy)[kind])
    OBVIOUS
  <2> DEFINE block == TheOne(d.legacy)
  <2>1. block \in d.legacy
    BY TheOneIsIn DEF IsDocument
  <2> HIDE DEF block
  <2>2. block[kind] \in [DOMAIN block[kind] -> Int]
    BY <2>1 DEF IsDocument
  <2>3. \A name \in DOMAIN block[kind] : block[kind][name] >= 0
    BY <2>1 DEF Validate
  <2>4. AreCounts(block[kind])
    BY <2>2, <2>3 DEF AreCounts
  <2> QED BY <2>4 DEF block
<1>3. AreCounts(DefaultThresholds[kind])
  BY DEF AreCounts, DefaultThresholds, Kinds
<1>4. AreCounts(ProfileThresholds(resolveProfiles(d), kind))
  BY <1>1, ThresholdsOfProfiles
<1> QED BY <1>1, <1>2, <1>3, <1>4 DEF extractThresholds

LEMMA GenerateType ==
  ASSUME NEW d, IsDocument(d), Validate("generate", d), NEW f
  PROVE  IsEnvironment(Generate(d, f))
<1>1. /\ AreProfiles(resolveProfiles(d))
      /\ AreCounts(extractThresholds(d, "queue")) /\ AreCounts(extractThresholds(d, "rate"))
  BY extractThresholdsType DEF Kinds
<1>2. /\ OrElse(d.up, 300) \in Nat /\ OrElse(d.down, 1200) \in Nat
      /\ resolveCheckInterval(d) \in Nat /\ resolveCheckInterval(d) >= 10
  BY TimesType
<1> QED BY <1>1, <1>2, EnvironmentType DEF Generate

LEMMA RenderType ==
  ASSUME NEW d, IsDocument(d), NEW t, Validate(t, d), NEW release
  PROVE  IsEnvironment(Render(d, release))
<1> DEFINE profiles == IF d.profiles = <<>> THEN chartProfiles ELSE d.profiles
<1>1. AreProfiles(profiles)
  BY ChartProfilesType, DocumentProfiles
<1> HIDE DEF profiles
<1>2. \A numbers : AreCounts(numbers) => AreCounts(Truthy(numbers))
  BY DEF AreCounts, Truthy
<1>3. /\ AreCounts(Truthy(ProfileThresholds(profiles, "queue")))
      /\ AreCounts(Truthy(ProfileThresholds(profiles, "rate")))
  BY <1>1, <1>2, ThresholdsOfProfiles DEF Kinds
<1>4. /\ OrElse(d.up, 300) \in Nat /\ OrElse(d.down, 1200) \in Nat
      /\ OrElse(d.interval, 50) \in Nat /\ OrElse(d.interval, 50) >= 10
  BY TimesType
<1>5. \A service, host, mode :
        IsEnvironment(Environment(profiles, Truthy(ProfileThresholds(profiles, "queue")),
                                  Truthy(ProfileThresholds(profiles, "rate")),
                                  OrElse(d.up, 300), OrElse(d.down, 1200), OrElse(d.interval, 50),
                                  release.namespace, service, host, mode))
  BY <1>1, <1>3, <1>4, EnvironmentType
<1> DEFINE service == firstNonEmpty(d.service, "", "rabbitmq")
           host == rmqHost(d, release, service)
           mode == firstNonEmpty(d.mode, "", "auto")
<1>6. Render(d, release) =
        Environment(profiles, Truthy(ProfileThresholds(profiles, "queue")),
                    Truthy(ProfileThresholds(profiles, "rate")),
                    OrElse(d.up, 300), OrElse(d.down, 1200), OrElse(d.interval, 50),
                    release.namespace, service, host, mode)
  BY DEF Render, RenderWith, profiles
<1> HIDE DEF service, host, mode
<1> QED BY <1>5, <1>6

(* A process that loads such an environment can work with what it gets. *)
LEMMA LoadType ==
  ASSUME NEW e, IsEnvironment(e)
  PROVE  IsConfig(Load(e)) /\ IsInRange(Load(e))
<1> DEFINE c == Load(e)
           names == {e.names[i] : i \in DOMAIN e.names}
<1>1. c.names = e.names /\ ProfilesOf(c) = names
  BY DEF Load, ProfilesOf
<1>2. c.cpu \in [names -> STRING] /\ c.memory \in [names -> STRING]
  <2>1. \A values \in [DOMAIN e.names -> STRING] : ByName(e, values) \in [names -> STRING]
    BY DEF ByName
  <2>2. c.cpu = ByName(e, e.cpu) /\ c.memory = ByName(e, e.memory)
    BY DEF Load
  <2> HIDE DEF c, names
  <2> QED BY <2>1, <2>2 DEF IsEnvironment
<1>3. c.queueThresholds \in [names -> Nat] /\ c.rateThresholds \in [names -> Nat]
  <2>1. ASSUME NEW texts, AreTexts(texts), NEW default \in Nat
        PROVE  ThresholdsOf(e, texts, default) \in [names -> Nat]
    <3>1. \A name \in names : getint(texts, name, default) \in Nat
      BY <2>1, getintType
    <3> QED BY <3>1 DEF ThresholdsOf
  <2>2. c.queueThresholds = ThresholdsOf(e, e.queue, 1000)
        /\ c.rateThresholds = ThresholdsOf(e, e.rate, 100)
    BY DEF Load
  <2> HIDE DEF c, names
  <2> QED BY <2>1, <2>2 DEF IsEnvironment
<1>4. /\ c.scaleUpDebounce = getint(e.times, "up", 30)
      /\ c.scaleDownDebounce = getint(e.times, "down", 120)
      /\ c.checkInterval = getint(e.times, "interval", 5)
  BY DEF Load
<1> HIDE DEF c
<1>5. c.scaleUpDebounce \in Nat /\ c.scaleDownDebounce \in Nat
  BY <1>4, getintType DEF IsEnvironment
<1>6. c.checkInterval \in Nat /\ c.checkInterval >= 1
  BY <1>4 DEF IsEnvironment, AreTexts, Texts, getint
<1>7. IsInRange(c)
  BY <1>1, <1>3, <1>5, <1>6 DEF IsInRange
<1>8. IsConfig(c)
  BY <1>1, <1>2, <1>3, <1>5, <1>6 DEF IsConfig, IsEnvironment
<1> QED BY <1>7, <1>8 DEF c

LEMMA InUseType ==
  ASSUME PipelineInv, NEW c \in config
  PROVE  IsConfig(c) /\ IsInRange(c)
<1>1. c = Load(Deployed) /\ Validate(tool, document) /\ IsDocument(document)
  BY InUse, DocumentAssumption
<1>2. IsEnvironment(Deployed)
  <2>1. CASE tool = "chart"
    BY <1>1, <2>1, RenderType DEF Deployed
  <2>2. CASE tool = "generate"
    BY <1>1, <2>2, GenerateType DEF Deployed
  <2> QED BY <2>1, <2>2 DEF PipelineInv, Tools
<1> QED BY <1>1, <1>2, LoadType

(* Every process runs on a configuration the decision engine can work with,
   whatever document it was deployed from (TypeOK). *)
THEOREM ConfigsAreUsable == Spec => []TypeOK
<1>1. PipelineInv => TypeOK
  <2> SUFFICES ASSUME PipelineInv PROVE TypeOK
    OBVIOUS
  <2>1. \A c \in config : IsConfig(c)
    BY InUseType
  <2>2. IsDocument(document)
    BY DocumentAssumption DEF PipelineInv
  <2>3. IsOptional(env) /\ IsOptional(config)
    BY DEF PipelineInv, IsOptional, NoEnv, NoConfig
  <2> QED BY <2>1, <2>2, <2>3 DEF PipelineInv, TypeOK
<1> QED BY <1>1, PipelineCorrect, PTL

(* The bounds of the schema survive the conversions and the parser: no loop
   without a pause, no negative window or threshold (InRange). *)
THEOREM BoundsSurvive == Spec => []InRange
<1>1. PipelineInv => InRange
  BY InUseType DEF InRange, IsInRange
<1> QED BY <1>1, PipelineCorrect, PTL

-----------------------------------------------------------------------------
(* What was written arrives. *)

DeployedProfiles ==
  IF document.profiles # <<>> THEN document.profiles
  ELSE IF tool = "chart" THEN chartProfiles ELSE defaultProfiles

DeployedThresholds(kind) ==
  IF tool = "chart" THEN Truthy(ProfileThresholds(DeployedProfiles, kind))
                    ELSE extractThresholds(document, kind)

DeployedTimes ==
  [up       |-> OrElse(document.up, 300),
   down     |-> OrElse(document.down, 1200),
   interval |-> IF tool = "chart" THEN OrElse(document.interval, 50)
                ELSE resolveCheckInterval(document)]

LEMMA DeployedParts ==
  /\ Deployed.names = NamesOf(DeployedProfiles)
  /\ Deployed.cpu = [i \in DOMAIN DeployedProfiles |-> DeployedProfiles[i].cpu]
  /\ Deployed.memory = [i \in DOMAIN DeployedProfiles |-> DeployedProfiles[i].memory]
  /\ Deployed.queue = Formatted(DeployedThresholds("queue"))
  /\ Deployed.rate = Formatted(DeployedThresholds("rate"))
  /\ Deployed.times = Formatted(DeployedTimes)
<1>1. CASE tool = "chart"
  BY <1>1 DEF Deployed, Render, RenderWith, Environment, DeployedProfiles, DeployedThresholds,
              DeployedTimes
<1>2. CASE tool # "chart"
  BY <1>2 DEF Deployed, Generate, Environment, DeployedProfiles, DeployedThresholds,
              DeployedTimes, resolveProfiles
<1> QED BY <1>1, <1>2

(* What the parser makes of a readable number that was formatted. *)
LEMMA getintReads ==
  ASSUME NEW numbers, NEW name \in DOMAIN numbers, numbers[name] \in Nat,
         Readable(numbers[name]), NEW default
  PROVE  10 * getint(Formatted(numbers), name, default) = numbers[name]
<1> DEFINE n == numbers[name]
<1>1. Formatted(numbers)[name] = FormatNumber(n) /\ name \in DOMAIN Formatted(numbers)
  BY DEF Formatted
<1> HIDE DEF n
<1>2. FormatNumber(n).form = "integer" /\ FormatNumber(n).tenths = n
  BY DEF FormatNumber, Readable, Whole, Million, n
<1>3. getint(Formatted(numbers), name, default) = n \div 10
  BY <1>1, <1>2 DEF getint
<1>4. n \in Nat /\ n % 10 = 0
  BY DEF Readable, Whole, n
<1>5. 10 * (n \div 10) = n
  BY <1>4
<1> QED BY <1>3, <1>5 DEF n

(* A profile of the document, by its name. *)
LEMMA ResourcesArrive ==
  ASSUME PipelineInv, NEW c \in config, document.profiles # <<>>
  PROVE  /\ c.names = NamesOf(document.profiles)
         /\ \A i \in DOMAIN c.names :
              Resources(c.names[i], c) = [cpu    |-> document.profiles[i].cpu,
                                          memory |-> document.profiles[i].memory]
<1> DEFINE profiles == document.profiles
<1>1. c = Load(Deployed) /\ AreProfiles(profiles)
  BY InUse, DocumentAssumption, DocumentProfiles
<1>2. /\ Deployed.names = [i \in DOMAIN profiles |-> profiles[i].name]
      /\ Deployed.cpu = [i \in DOMAIN profiles |-> profiles[i].cpu]
      /\ Deployed.memory = [i \in DOMAIN profiles |-> profiles[i].memory]
  BY DeployedParts DEF DeployedProfiles, NamesOf
<1>3. /\ c.names = Deployed.names
      /\ c.cpu = ByName(Deployed, Deployed.cpu) /\ c.memory = ByName(Deployed, Deployed.memory)
  BY <1>1 DEF Load
<1> HIDE DEF profiles
<1>4. ASSUME NEW i \in DOMAIN profiles
      PROVE  \A values : ByName(Deployed, values)[Deployed.names[i]] = values[i]
  <2>1. \A j \in DOMAIN profiles : Deployed.names[j] = Deployed.names[i] => j = i
    BY <1>1, <1>2 DEF AreProfiles, Distinct, NamesOf
  <2>2. DOMAIN Deployed.names = DOMAIN profiles
    BY <1>2
  <2>3. (CHOOSE j \in DOMAIN Deployed.names : Deployed.names[j] = Deployed.names[i]) = i
    BY <2>1, <2>2
  <2> QED BY <2>2, <2>3 DEF ByName
<1>5. c.names = NamesOf(profiles)
  BY <1>2, <1>3 DEF NamesOf
<1>6. ASSUME NEW i \in DOMAIN c.names
      PROVE  Resources(c.names[i], c) = [cpu |-> profiles[i].cpu, memory |-> profiles[i].memory]
  <2>1. i \in DOMAIN profiles
    BY <1>2, <1>3
  <2>2. c.cpu[c.names[i]] = profiles[i].cpu /\ c.memory[c.names[i]] = profiles[i].memory
    BY <1>2, <1>3, <1>4, <2>1
  <2> QED BY <2>2 DEF Resources
<1> QED BY <1>5, <1>6 DEF profiles

(* A threshold that is given is deployed, but for a 0 in the chart. *)
LEMMA ThresholdsDeployed ==
  ASSUME PipelineInv, config # {}, NEW kind \in Kinds, NEW name \in DOMAIN WrittenThresholds(kind),
         ~(tool = "chart" /\ WrittenThresholds(kind)[name] = 0)
  PROVE  /\ name \in DOMAIN DeployedThresholds(kind)
         /\ DeployedThresholds(kind)[name] = WrittenThresholds(kind)[name]
         /\ DeployedThresholds(kind)[name] \in Nat
<1>1. IsDocument(document) /\ Validate(tool, document)
  BY InUse, DocumentAssumption
<1>2. CASE tool = "generate" /\ document.legacy # {}
  <2>1. DeployedThresholds(kind) = WrittenThresholds(kind)
    BY <1>2 DEF DeployedThresholds, WrittenThresholds, extractThresholds
  <2>2. AreCounts(extractThresholds(document, kind))
    BY <1>1, <1>2, extractThresholdsType
  <2> QED BY <1>2, <2>1, <2>2 DEF DeployedThresholds, AreCounts
<1>3. CASE ~(tool = "generate" /\ document.legacy # {})
  <2>1. WrittenThresholds(kind) = ProfileThresholds(document.profiles, kind)
    BY <1>3 DEF WrittenThresholds
  <2>2. document.profiles # <<>>
    BY <2>1 DEF ProfileThresholds
  <2>3. DeployedProfiles = document.profiles /\ resolveProfiles(document) = document.profiles
    BY <2>2 DEF DeployedProfiles, resolveProfiles
  <2>4. AreCounts(ProfileThresholds(document.profiles, kind))
    BY <1>1, <2>2, DocumentProfiles, ThresholdsOfProfiles
  <2>5. CASE tool = "chart"
    BY <2>1, <2>3, <2>4, <2>5 DEF DeployedThresholds, Truthy, AreCounts
  <2>6. CASE tool = "generate"
    <3>1. extractThresholds(document, kind) = ProfileThresholds(document.profiles, kind)
      BY <1>3, <2>1, <2>3, <2>6 DEF extractThresholds
    <3> QED BY <2>1, <2>4, <2>6, <3>1 DEF DeployedThresholds, AreCounts
  <2> QED BY <2>5, <2>6 DEF PipelineInv, Tools
<1> QED BY <1>2, <1>3

LEMMA ThresholdsArrive ==
  ASSUME PipelineInv, NEW c \in config, NEW kind \in Kinds,
         NEW name \in DOMAIN WrittenThresholds(kind) \cap (ProfilesOf(c) \ {Floor(c)}),
         Readable(WrittenThresholds(kind)[name]),
         ~(tool = "chart" /\ WrittenThresholds(kind)[name] = 0)
  PROVE  10 * KindOf(c)[kind][name] = WrittenThresholds(kind)[name]
<1> DEFINE numbers == DeployedThresholds(kind)
           default == IF kind = "queue" THEN 1000 ELSE 100
<1>1. /\ name \in DOMAIN numbers /\ numbers[name] \in Nat
      /\ numbers[name] = WrittenThresholds(kind)[name]
  BY ThresholdsDeployed
<1>2. c = Load(Deployed)
  BY InUse
<1>3. name \in {Deployed.names[i] : i \in DOMAIN Deployed.names} /\ name # Deployed.names[1]
  BY <1>2 DEF Load, ProfilesOf, Floor
<1>4. KindOf(c)[kind] = ThresholdsOf(Deployed, Formatted(numbers), default)
  BY <1>2, DeployedParts DEF KindOf, Load, Kinds
<1> HIDE DEF numbers, default
<1>5. KindOf(c)[kind][name] = getint(Formatted(numbers), name, default)
  BY <1>3, <1>4 DEF ThresholdsOf
<1> QED BY <1>1, <1>5, getintReads

LEMMA TimesArrive ==
  ASSUME PipelineInv, NEW c \in config
  PROVE  /\ \A given \in document.up : Readable(given) => 10 * c.scaleUpDebounce = given
         /\ \A given \in document.down : Readable(given) => 10 * c.scaleDownDebounce = given
         /\ \A given \in document.interval : Readable(given) => 10 * c.checkInterval = given
<1>1. c = Load(Deployed) /\ IsDocument(document) /\ Validate(tool, document)
  BY InUse, DocumentAssumption
<1>2. /\ c.scaleUpDebounce = getint(Formatted(DeployedTimes), "up", 30)
      /\ c.scaleDownDebounce = getint(Formatted(DeployedTimes), "down", 120)
      /\ c.checkInterval = getint(Formatted(DeployedTimes), "interval", 5)
  BY <1>1, DeployedParts DEF Load
<1>3. /\ \A given \in document.up : given = DeployedTimes["up"] /\ given \in Nat
      /\ \A given \in document.down : given = DeployedTimes["down"] /\ given \in Nat
      /\ \A given \in document.interval : given = DeployedTimes["interval"] /\ given \in Nat
  <2>1. /\ IsOptional(document.up) /\ document.up \subseteq Int /\ AtLeast(document.up, 0)
        /\ IsOptional(document.down) /\ document.down \subseteq Int /\ AtLeast(document.down, 0)
        /\ IsOptional(document.interval) /\ document.interval \subseteq Int
        /\ AtLeast(document.interval, 10)
    BY <1>1 DEF IsDocument, Validate
  <2>2. /\ \A given \in document.up : given = TheOne(document.up)
        /\ \A given \in document.down : given = TheOne(document.down)
        /\ \A given \in document.interval : given = TheOne(document.interval)
    BY <2>1, TheOneIsIn
  <2>3. \A given \in document.interval : OrElse(document.interval, 0) = given /\ given >= 10
    BY <2>1, <2>2 DEF OrElse, AtLeast
  <2> QED BY <2>1, <2>2, <2>3 DEF DeployedTimes, OrElse, AtLeast, resolveCheckInterval
<1>4. DOMAIN DeployedTimes = {"up", "down", "interval"}
  BY DEF DeployedTimes
<1> QED BY <1>2, <1>3, <1>4, getintReads

(* No conversion loses, replaces or rounds a readable number or a profile on
   its way from the file to the process, but for a threshold of 0 in the chart
   (WrittenArrives). *)
THEOREM NothingIsLost == Spec => []WrittenArrives
<1>1. PipelineInv => WrittenArrives
  <2> SUFFICES ASSUME PipelineInv PROVE WrittenArrives
    OBVIOUS
  <2>1. \A c \in config : document.profiles # <<>> =>
          /\ c.names = NamesOf(document.profiles)
          /\ \A i \in DOMAIN c.names :
               Resources(c.names[i], c) = [cpu    |-> document.profiles[i].cpu,
                                           memory |-> document.profiles[i].memory]
    BY ResourcesArrive
  <2>2. \A c \in config : \A kind \in Kinds :
          \A name \in DOMAIN WrittenThresholds(kind) \cap (ProfilesOf(c) \ {Floor(c)}) :
            Readable(WrittenThresholds(kind)[name])
              /\ ~(tool = "chart" /\ WrittenThresholds(kind)[name] = 0)
              => 10 * KindOf(c)[kind][name] = WrittenThresholds(kind)[name]
    BY ThresholdsArrive
  <2>3. \A c \in config :
          /\ \A given \in document.up : Readable(given) => 10 * c.scaleUpDebounce = given
          /\ \A given \in document.down : Readable(given) => 10 * c.scaleDownDebounce = given
          /\ \A given \in document.interval : Readable(given) => 10 * c.checkInterval = given
    BY TimesArrive
  <2> QED BY <2>1, <2>2, <2>3 DEF WrittenArrives
<1> QED BY <1>1, PipelineCorrect, PTL

-----------------------------------------------------------------------------
(* The two tools agree. *)

(* The chart's own profiles are the generator's, with the same thresholds. *)
LEMMA SameDefaults ==
  /\ DOMAIN chartProfiles = DOMAIN defaultProfiles
  /\ \A i \in DOMAIN defaultProfiles : /\ chartProfiles[i].name = defaultProfiles[i].name
                                       /\ chartProfiles[i].cpu = defaultProfiles[i].cpu
                                       /\ chartProfiles[i].memory = defaultProfiles[i].memory
  /\ \A kind \in Kinds : ProfileThresholds(chartProfiles, kind) = DefaultThresholds[kind]
<1>1. /\ DOMAIN defaultProfiles = 1..4 /\ DOMAIN chartProfiles = 1..4
      /\ defaultProfiles[1].name = "LOW" /\ defaultProfiles[2].name = "MEDIUM"
      /\ defaultProfiles[3].name = "HIGH" /\ defaultProfiles[4].name = "CRITICAL"
  BY DEF defaultProfiles, chartProfiles, Plain
<1>2. ASSUME NEW i \in 1..4
      PROVE  /\ chartProfiles[i].name = defaultProfiles[i].name
             /\ chartProfiles[i].cpu = defaultProfiles[i].cpu
             /\ chartProfiles[i].memory = defaultProfiles[i].memory
             /\ \A kind \in Kinds : chartProfiles[i][kind] =
                  IF i = 1 THEN {} ELSE {DefaultThresholds[kind][defaultProfiles[i].name]}
  <2> DEFINE p == defaultProfiles[i]
             queue == IF i = 1 THEN {} ELSE {DefaultThresholds["queue"][p.name]}
             rate == IF i = 1 THEN {} ELSE {DefaultThresholds["rate"][p.name]}
  <2>1. chartProfiles[i] = [p EXCEPT !.queue = queue, !.rate = rate]
    BY <1>1 DEF chartProfiles
  <2>2. p \in ProfileRecord
    BY <1>1, DefaultProfilesType DEF AreProfiles
  <2> HIDE DEF p, queue, rate
  <2>3. /\ chartProfiles[i].name = p.name
        /\ chartProfiles[i].cpu = p.cpu /\ chartProfiles[i].memory = p.memory
    BY <2>1, <2>2 DEF ProfileRecord
  <2>4. chartProfiles[i].queue = queue /\ chartProfiles[i].rate = rate
    BY <2>1, <2>2 DEF ProfileRecord
  <2> QED BY <2>3, <2>4 DEF p, queue, rate, Kinds
<1>3. ASSUME NEW kind \in Kinds
      PROVE  ProfileThresholds(chartProfiles, kind) = DefaultThresholds[kind]
  <2> DEFINE T == ProfileThresholds(chartProfiles, kind)
             D == DefaultThresholds[kind]
  <2>1. D = [name \in {"MEDIUM", "HIGH", "CRITICAL"} |-> D[name]]
    BY DEF DefaultThresholds, Kinds
  <2>2. ASSUME NEW i \in 1..4 PROVE (chartProfiles[i][kind] # {}) <=> (i # 1)
    <3>1. chartProfiles[i][kind] = IF i = 1 THEN {} ELSE {DefaultThresholds[kind][defaultProfiles[i].name]}
      BY <1>2
    <3>2. CASE i = 1
      BY <3>1, <3>2
    <3>3. CASE i # 1
      BY <3>1, <3>3
    <3> QED BY <3>2, <3>3
  <2>3. DOMAIN T = {"MEDIUM", "HIGH", "CRITICAL"}
    <3>1. DOMAIN T = {chartProfiles[i].name : i \in {j \in DOMAIN chartProfiles : chartProfiles[j][kind] # {}}}
      BY DEF ProfileThresholds
    <3>2. {j \in DOMAIN chartProfiles : chartProfiles[j][kind] # {}} = {2, 3, 4}
      BY <1>1, <2>2
    <3> HIDE DEF T
    <3>3. DOMAIN T = {chartProfiles[2].name, chartProfiles[3].name, chartProfiles[4].name}
      BY <3>1, <3>2
    <3> QED BY <1>1, <1>2, <3>3
  <2>4. ASSUME NEW i \in {2, 3, 4}
        PROVE  T[chartProfiles[i].name] = D[chartProfiles[i].name]
    <3>1. i \in DOMAIN chartProfiles /\ chartProfiles[i][kind] # {}
      BY <1>1, <2>2
    <3>2. T[chartProfiles[i].name] = TheOne(chartProfiles[i][kind])
      BY <3>1, ChartProfilesType, ThresholdsOfProfiles
    <3>3. chartProfiles[i][kind] = {D[chartProfiles[i].name]}
      BY <1>2
    <3> HIDE DEF T, D
    <3> QED BY <3>2, <3>3 DEF TheOne
  <2>5. \A name \in {"MEDIUM", "HIGH", "CRITICAL"} : T[name] = D[name]
    <3>1. /\ chartProfiles[2].name = "MEDIUM" /\ chartProfiles[3].name = "HIGH"
          /\ chartProfiles[4].name = "CRITICAL"
      BY <1>1, <1>2
    <3> HIDE DEF T, D
    <3> QED BY <2>4, <3>1
  <2>6. T = [name \in DOMAIN T |-> T[name]]
    BY DEF ProfileThresholds
  <2> HIDE DEF T, D
  <2>7. T = D
    BY <2>1, <2>3, <2>5, <2>6
  <2> QED BY <2>7 DEF T, D
<1> QED BY <1>1, <1>2, <1>3

(* Without a threshold of 0 the chart drops none. *)
LEMMA TruthyKeeps ==
  ASSUME NEW numbers, numbers = [name \in DOMAIN numbers |-> numbers[name]],
         \A name \in DOMAIN numbers : numbers[name] # 0
  PROVE  Truthy(numbers) = numbers
<1>1. {name \in DOMAIN numbers : numbers[name] # 0} = DOMAIN numbers
  OBVIOUS
<1> QED BY <1>1 DEF Truthy

(* From a file without the listed exceptions, the chart and the generator
   deploy the same scaler, defaults included (ChartAgrees). *)
THEOREM ToolsAgree == Spec => []ChartAgrees
<1>1. ASSUME PipelineInv, NEW c \in config, tool = "chart", SaidAlike(document)
      PROVE  c = Load(Generate(document, [flags EXCEPT !.service = document.service]))
  <2> DEFINE d == document
             f == [flags EXCEPT !.service = d.service]
             names == NamesOf(DeployedProfiles)
  <2>1. c = Load(Render(d, flags)) /\ IsDocument(d) /\ Validate(tool, d)
    BY <1>1, InUse, DocumentAssumption DEF Deployed
  <2>2. f.namespace = flags.namespace /\ f.service = d.service /\ flags.namespace # ""
    <3>1. flags \in [namespace: STRING, service: STRING] /\ flags.namespace # ""
      BY <1>1, FlagAssumption DEF PipelineInv
    <3> QED BY <3>1
  <2>3. ASSUME NEW kind \in Kinds
        PROVE  extractThresholds(d, kind) = Truthy(ProfileThresholds(DeployedProfiles, kind))
    <3>1. CASE d.profiles = <<>>
      <4>1. extractThresholds(d, kind) = DefaultThresholds[kind]
        <5>1. d.legacy = {} /\ resolveProfiles(d) = defaultProfiles
          BY <1>1, <3>1 DEF SaidAlike, resolveProfiles
        <5> QED BY <5>1, DefaultProfilesType DEF extractThresholds
      <4>2. ProfileThresholds(DeployedProfiles, kind) = DefaultThresholds[kind]
        BY <1>1, <3>1, SameDefaults DEF DeployedProfiles
      <4>3. Truthy(DefaultThresholds[kind]) = DefaultThresholds[kind]
        BY TruthyKeeps DEF DefaultThresholds, Kinds
      <4> QED BY <4>1, <4>2, <4>3
    <3>2. CASE d.profiles # <<>>
      <4>1. DeployedProfiles = d.profiles /\ resolveProfiles(d) = d.profiles /\ d.legacy = {}
        BY <1>1, <3>2 DEF DeployedProfiles, resolveProfiles, SaidAlike
      <4>2. extractThresholds(d, kind) = ProfileThresholds(d.profiles, kind)
        BY <1>1, <3>2, <4>1 DEF extractThresholds, SaidAlike
      <4>3. Truthy(ProfileThresholds(d.profiles, kind)) = ProfileThresholds(d.profiles, kind)
        <5>1. \A name \in DOMAIN ProfileThresholds(d.profiles, kind) :
                ProfileThresholds(d.profiles, kind)[name] # 0
          BY <1>1 DEF SaidAlike
        <5>2. ProfileThresholds(d.profiles, kind) =
                [name \in DOMAIN ProfileThresholds(d.profiles, kind) |->
                   ProfileThresholds(d.profiles, kind)[name]]
          BY DEF ProfileThresholds
        <5> QED BY <5>1, <5>2, TruthyKeeps
      <4> QED BY <4>1, <4>2, <4>3
    <3> QED BY <3>1, <3>2
  <2>4. /\ NamesOf(resolveProfiles(d)) = names
        /\ [i \in DOMAIN resolveProfiles(d) |-> resolveProfiles(d)[i].cpu]
             = [i \in DOMAIN DeployedProfiles |-> DeployedProfiles[i].cpu]
        /\ [i \in DOMAIN resolveProfiles(d) |-> resolveProfiles(d)[i].memory]
             = [i \in DOMAIN DeployedProfiles |-> DeployedProfiles[i].memory]
    <3>1. CASE d.profiles = <<>>
      BY <1>1, <3>1, SameDefaults DEF DeployedProfiles, resolveProfiles, NamesOf
    <3>2. CASE d.profiles # <<>>
      BY <3>2 DEF DeployedProfiles, resolveProfiles
    <3> QED BY <3>1, <3>2
  <2>5. resolveCheckInterval(d) = OrElse(d.interval, 50)
    <3>1. CASE d.interval = {}
      BY <3>1 DEF resolveCheckInterval, OrElse
    <3>2. CASE d.interval # {}
      <4>1. TheOne(d.interval) \in d.interval /\ AtLeast(d.interval, 10) /\ d.interval \subseteq Int
        BY <2>1, <3>2, TheOneIsIn DEF IsDocument, Validate
      <4> QED BY <3>2, <4>1 DEF resolveCheckInterval, OrElse, AtLeast
    <3> QED BY <3>1, <3>2
  <2>6. /\ firstNonEmpty(f.namespace, d.namespace, "default") = flags.namespace
        /\ firstNonEmpty(f.service, d.service, "rabbitmq") = firstNonEmpty(d.service, "", "rabbitmq")
        /\ resolveScaleMode(d) = firstNonEmpty(d.mode, "", "auto")
    BY <2>2 DEF firstNonEmpty, resolveScaleMode
  <2>7. \A service : resolveRMQ(d, service, flags.namespace) = rmqHost(d, flags, service)
    <3>1. CASE d.host = {}
      BY <3>1 DEF resolveRMQ, rmqHost, OrElse
    <3>2. CASE d.host # {}
      <4>1. TheOne(d.host) \in d.host /\ "" \notin d.host
        BY <1>1, <2>1, <3>2, TheOneIsIn DEF IsDocument, SaidAlike
      <4> QED BY <3>2, <4>1 DEF resolveRMQ, rmqHost, OrElse
    <3> QED BY <3>1, <3>2
  <2> DEFINE profiles == IF d.profiles = <<>> THEN chartProfiles ELSE d.profiles
             queue == Truthy(ProfileThresholds(profiles, "queue"))
             rate == Truthy(ProfileThresholds(profiles, "rate"))
             service == firstNonEmpty(d.service, "", "rabbitmq")
             host == rmqHost(d, flags, service)
             mode == firstNonEmpty(d.mode, "", "auto")
             Common(p) == Environment(p, queue, rate, OrElse(d.up, 300), OrElse(d.down, 1200),
                                      OrElse(d.interval, 50), flags.namespace, service, host, mode)
  <2>8. profiles = DeployedProfiles
    BY <1>1 DEF DeployedProfiles
  <2>9. Render(d, flags) = Common(profiles)
    BY DEF Render, RenderWith
  <2>10. Generate(d, f) = Common(resolveProfiles(d))
    <3>1. Generate(d, f) =
            Environment(resolveProfiles(d), extractThresholds(d, "queue"), extractThresholds(d, "rate"),
                        OrElse(d.up, 300), OrElse(d.down, 1200), resolveCheckInterval(d),
                        firstNonEmpty(f.namespace, d.namespace, "default"),
                        firstNonEmpty(f.service, d.service, "rabbitmq"),
                        resolveRMQ(d, firstNonEmpty(f.service, d.service, "rabbitmq"),
                                   firstNonEmpty(f.namespace, d.namespace, "default")),
                        resolveScaleMode(d))
      BY DEF Generate
    <3>2. extractThresholds(d, "queue") = queue /\ extractThresholds(d, "rate") = rate
      BY <2>3, <2>8 DEF Kinds
    <3>3. /\ firstNonEmpty(f.namespace, d.namespace, "default") = flags.namespace
          /\ firstNonEmpty(f.service, d.service, "rabbitmq") = service
          /\ resolveRMQ(d, service, flags.namespace) = host
          /\ resolveScaleMode(d) = mode
      BY <2>6, <2>7
    <3> HIDE DEF d, f, queue, rate, service, host, mode
    <3> QED BY <2>5, <3>1, <3>2, <3>3
  <2>11. /\ NamesOf(resolveProfiles(d)) = NamesOf(profiles)
         /\ [i \in DOMAIN resolveProfiles(d) |-> resolveProfiles(d)[i].cpu]
              = [i \in DOMAIN profiles |-> profiles[i].cpu]
         /\ [i \in DOMAIN resolveProfiles(d) |-> resolveProfiles(d)[i].memory]
              = [i \in DOMAIN profiles |-> profiles[i].memory]
    BY <2>4, <2>8
  <2> HIDE DEF profiles, queue, rate, service, host, mode, d, f
  <2>12. Common(profiles) = Common(resolveProfiles(d))
    BY <2>11 DEF Environment
  <2>13. Render(d, flags) = Generate(d, f)
    BY <2>9, <2>10, <2>12
  <2> QED BY <2>1, <2>13 DEF d, f
<1>2. PipelineInv => ChartAgrees
  BY <1>1 DEF ChartAgrees
<1> QED BY <1>2, PipelineCorrect, PTL
=============================================================================
