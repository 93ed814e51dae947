--------------------------- MODULE ConfigPipeline ---------------------------
(***************************************************************************)
(* How a configuration reaches the decision engine: the file an operator   *)
(* writes is checked against the JSON schema (schema), turned into the     *)
(* environment of a Deployment by `generate' (internal/manifests) or by    *)
(* the Helm chart (charts), and read back by the process when it starts    *)
(* (internal/config).  Four conversions, each of which may lose or replace *)
(* what was written.                                                       *)
(*                                                                         *)
(* An optional field is a set with at most one element.  A number is       *)
(* counted in tenths, which is enough to tell whole numbers from others.   *)
(* A document is a record                                                  *)
(*   profiles   a sequence of [name, cpu, memory, queue, rate], the last   *)
(*              two optional; the empty sequence if none are given         *)
(*   legacy     the optional v1 block [queue, rate] of thresholds by name  *)
(*   up, down, interval       optional numbers                             *)
(*   namespace, service       "" if not given                              *)
(*   host       the optional rmq.host                                      *)
(*   mode       scaling.mode, "" if not given                              *)
(* and flags carry the namespace and service of the command line (for the  *)
(* chart: of the release).  "Faulty:" marks bugs that the properties are   *)
(* tried against; nothing uses them.                                       *)
(***************************************************************************)
EXTENDS ScalingEngine

CONSTANTS
  Documents,   \* what an operator may write
  FlagSets     \* the command lines (releases) it is combined with

Tools == {"generate", "chart"}
Kinds == {"queue", "rate"}

Distinct(names) == \A i, j \in DOMAIN names : names[i] = names[j] => i = j

ProfileRecord == [name: STRING, cpu: STRING, memory: STRING, queue: SUBSET Int, rate: SUBSET Int]

IsOptional(field) == \A x, y \in field : x = y

(* The keys of a JSON object differ; the chart's list is written likewise. *)
IsDocument(d) ==
  /\ d.profiles \in Seq(ProfileRecord)
  /\ Distinct([i \in DOMAIN d.profiles |-> d.profiles[i].name])
  /\ \A i \in DOMAIN d.profiles : \A kind \in Kinds : IsOptional(d.profiles[i][kind])
  /\ IsOptional(d.legacy)
  /\ \A block \in d.legacy : \A kind \in Kinds : block[kind] \in [DOMAIN block[kind] -> Int]
  /\ \A field \in {d.up, d.down, d.interval} : field \subseteq Int /\ IsOptional(field)
  /\ d.namespace \in STRING /\ d.service \in STRING
  /\ d.host \subseteq STRING /\ IsOptional(d.host)
  /\ d.mode \in {"", "auto", "inplace", "rolling"}

ASSUME DocumentAssumption == \A d \in Documents : IsDocument(d)

ASSUME FlagAssumption == FlagSets \subseteq [namespace: STRING, service: STRING]

VARIABLES
  stage,      \* how far the configuration has come
  tool,       \* what turns it into a Deployment
  document,   \* what the operator wrote
  flags,      \* the command line
  env,        \* the environment of the Deployment: none or one
  config      \* what the running process works with: none or one

vars == <<stage, tool, document, flags, env, config>>

-----------------------------------------------------------------------------
(* The schema. *)

TheOne(field) == CHOOSE x \in field : TRUE

OrElse(field, default) == IF field = {} THEN default ELSE TheOne(field)

AtLeast(field, least) == \A n \in field : n >= least

(* Faulty: the bounds of the timing fields are not checked. *)
ValidateProfilesOnly(t, d) ==
  \A i \in DOMAIN d.profiles : \A kind \in Kinds : AtLeast(d.profiles[i][kind], 0)

(* What the two schemas say of values; a document that is no object of the
   right shape never gets this far.  The chart's has no legacy block: it neither
   refuses one nor looks into it. *)
Validate(t, d) ==
  /\ \A i \in DOMAIN d.profiles : \A kind \in Kinds : AtLeast(d.profiles[i][kind], 0)
  /\ t = "generate" => \A block \in d.legacy : \A kind \in Kinds :
       \A name \in DOMAIN block[kind] : block[kind][name] >= 0
  /\ AtLeast(d.up, 0) /\ AtLeast(d.down, 0) /\ AtLeast(d.interval, 10)

NoFile ==
  [profiles |-> <<>>, legacy |-> {}, up |-> {}, down |-> {}, interval |-> {},
   namespace |-> "", service |-> "", host |-> {}, mode |-> ""]

(* A file must have profiles; the chart has its own. *)
Accepts(t, d) ==
  /\ t = "generate" /\ d.profiles = <<>> => d = NoFile
  /\ Validate(t, d)

-----------------------------------------------------------------------------
(* generate *)

Whole(tenths) == tenths % 10 = 0

Million == 10000000   \* in tenths

(* strconv.FormatFloat(f, 'g', -1, 64), and what Helm's `quote' makes of a
   number that YAML has decoded: exponent form from a million on. *)
FormatNumber(tenths) ==
  [form   |-> IF tenths >= Million THEN "exponent"
              ELSE IF Whole(tenths) THEN "integer" ELSE "decimal",
   tenths |-> tenths]

Texts == [form: {"integer", "decimal", "exponent"}, tenths: Int]

Plain(name, cpu, memory) ==
  [name |-> name, cpu |-> cpu, memory |-> memory, queue |-> {}, rate |-> {}]

defaultProfiles ==
  << Plain("LOW", "330m", "2Gi"), Plain("MEDIUM", "800m", "3Gi"),
     Plain("HIGH", "1600m", "4Gi"), Plain("CRITICAL", "2400m", "8Gi") >>

(* Known to TLC, and to no prover without being told. *)
ASSUME LiteralAssumption ==
  {"LOW", "MEDIUM", "HIGH", "CRITICAL", "330m", "800m", "1600m", "2400m",
   "2Gi", "3Gi", "4Gi", "8Gi"} \subseteq STRING

DefaultThresholds ==
  [queue |-> [MEDIUM |-> 20000, HIGH |-> 100000, CRITICAL |-> 500000],
   rate  |-> [MEDIUM |-> 2000, HIGH |-> 10000, CRITICAL |-> 20000]]

resolveProfiles(d) == IF d.profiles = <<>> THEN defaultProfiles ELSE d.profiles

NamesOf(profiles) == [i \in DOMAIN profiles |-> profiles[i].name]

(* The profile of a name. *)
Named(profiles, name) == CHOOSE p \in {profiles[i] : i \in DOMAIN profiles} : p.name = name

(* The thresholds of one kind that the profiles carry, by name. *)
ProfileThresholds(profiles, kind) ==
  LET given == {i \in DOMAIN profiles : profiles[i][kind] # {}}
  IN  [name \in {profiles[i].name : i \in given} |-> TheOne(Named(profiles, name)[kind])]

(* Faulty: the profiles' own thresholds win over the legacy block. *)
extractProfilesFirst(d, kind) ==
  LET own == ProfileThresholds(resolveProfiles(d), kind)
  IN  IF DOMAIN own # {} \/ d.legacy = {} THEN own ELSE TheOne(d.legacy)[kind]

(* The legacy block wins; else what the profiles carry; else, if they carry
   nothing at all, the defaults, whatever the profiles are called. *)
extractThresholds(d, kind) ==
  LET own(k) == ProfileThresholds(resolveProfiles(d), k)
  IN  IF d.legacy # {} THEN TheOne(d.legacy)[kind]
      ELSE IF \A k \in Kinds : DOMAIN own(k) = {} THEN DefaultThresholds[kind]
      ELSE own(kind)

Formatted(numbers) == [name \in DOMAIN numbers |-> FormatNumber(numbers[name])]

firstNonEmpty(first, second, default) ==
  IF first # "" THEN first ELSE IF second # "" THEN second ELSE default

(* A management API address: the DNS name of a service in a namespace, or the
   host that was written. *)
ServiceHost(service, namespace) == <<service, namespace>>

(* Faulty: the host is built from the file's namespace, not the resolved one. *)
resolveRMQOfFile(d, service, namespace) ==
  IF d.host # {} THEN <<TheOne(d.host)>>
  ELSE ServiceHost(service, firstNonEmpty(d.namespace, "", "default"))

resolveRMQ(d, service, namespace) ==
  IF d.host # {} THEN <<TheOne(d.host)>> ELSE ServiceHost(service, namespace)

(* `config.checkInterval || 5' *)
resolveCheckInterval(d) == IF OrElse(d.interval, 0) = 0 THEN 50 ELSE TheOne(d.interval)

resolveScaleMode(d) == IF d.mode = "" THEN "auto" ELSE d.mode

Environment(profiles, queue, rate, up, down, interval, namespace, service, host, mode) ==
  [names |-> NamesOf(profiles),
   cpu |-> [i \in DOMAIN profiles |-> profiles[i].cpu],
   memory |-> [i \in DOMAIN profiles |-> profiles[i].memory],
   queue |-> Formatted(queue), rate |-> Formatted(rate),
   times |-> Formatted([up |-> up, down |-> down, interval |-> interval]),
   namespace |-> namespace, service |-> service, host |-> host, mode |-> mode]

Generate(d, f) ==
  LET namespace == firstNonEmpty(f.namespace, d.namespace, "default")
      service   == firstNonEmpty(f.service, d.service, "rabbitmq")
  IN  Environment(resolveProfiles(d), extractThresholds(d, "queue"), extractThresholds(d, "rate"),
                  OrElse(d.up, 300), OrElse(d.down, 1200), resolveCheckInterval(d),
                  namespace, service, resolveRMQ(d, service, namespace), resolveScaleMode(d))

-----------------------------------------------------------------------------
(* The Helm chart: the same environment from values that Helm has merged with
   the chart's own. *)

chartProfiles ==
  [i \in DOMAIN defaultProfiles |->
     LET p == defaultProfiles[i]
         default(kind) == IF i = 1 THEN {} ELSE {DefaultThresholds[kind][p.name]}
     IN  [p EXCEPT !.queue = default("queue"), !.rate = default("rate")]]

(* `{{ if .queue }}' is false of 0 as well as of no value. *)
Truthy(thresholds) ==
  [name \in {n \in DOMAIN thresholds : thresholds[n] # 0} |-> thresholds[name]]

rmqHost(values, release, service) ==
  IF OrElse(values.host, "") = "" THEN ServiceHost(service, release.namespace)
                                  ELSE <<TheOne(values.host)>>

(* The namespace is the release's: values have none. *)
RenderWith(values, release, down) ==
  LET profiles == IF values.profiles = <<>> THEN chartProfiles ELSE values.profiles
      service  == firstNonEmpty(values.service, "", "rabbitmq")
  IN  Environment(profiles, Truthy(ProfileThresholds(profiles, "queue")),
                  Truthy(ProfileThresholds(profiles, "rate")),
                  OrElse(values.up, 300), OrElse(values.down, down), OrElse(values.interval, 50),
                  release.namespace, service, rmqHost(values, release, service),
                  firstNonEmpty(values.mode, "", "auto"))

(* Faulty: the chart's default for scaleDownSeconds is the one for scaling up. *)
RenderQuickDown(values, release) == RenderWith(values, release, 300)

Render(values, release) == RenderWith(values, release, 1200)

-----------------------------------------------------------------------------
(* What the process makes of its environment. *)

(* strconv.Atoi knows the integer form only; anything else is the default. *)
getint(texts, key, default) ==
  IF key \in DOMAIN texts /\ texts[key].form = "integer"
  THEN texts[key].tenths \div 10 ELSE default

(* Faulty: only a threshold in the environment gets an entry. *)
ThresholdsGiven(e, texts, default) ==
  [name \in DOMAIN texts |-> getint(texts, name, default)]

(* The floor has no entry in the threshold maps, which Go reads as 0. *)
ThresholdsOf(e, texts, default) ==
  [name \in {e.names[i] : i \in DOMAIN e.names} |->
     IF name = e.names[1] THEN 0 ELSE getint(texts, name, default)]

ByName(e, values) ==
  [name \in {e.names[i] : i \in DOMAIN e.names} |->
     values[CHOOSE i \in DOMAIN e.names : e.names[i] = name]]

Load(e) ==
  [names |-> e.names, cpu |-> ByName(e, e.cpu), memory |-> ByName(e, e.memory),
   queueThresholds |-> ThresholdsOf(e, e.queue, 1000),
   rateThresholds |-> ThresholdsOf(e, e.rate, 100),
   scaleUpDebounce |-> getint(e.times, "up", 30),
   scaleDownDebounce |-> getint(e.times, "down", 120),
   checkInterval |-> getint(e.times, "interval", 5),
   namespace |-> e.namespace, service |-> e.service, host |-> e.host, mode |-> e.mode]

-----------------------------------------------------------------------------
NoEnv == {}
NoConfig == {}

Init ==
  /\ stage = "written"
  /\ tool \in Tools
  /\ document \in Documents
  /\ flags \in FlagSets
  /\ tool = "chart" => flags.namespace # ""
  /\ env = NoEnv
  /\ config = NoConfig

(* A file, or values, that the schema refuses: nothing is deployed. *)
Reject ==
  /\ stage = "written"
  /\ ~Accepts(tool, document)
  /\ stage' = "rejected"
  /\ UNCHANGED <<tool, document, flags, env, config>>

Deploy ==
  /\ stage = "written"
  /\ Accepts(tool, document)
  /\ stage' = "deployed"
  /\ env' = {IF tool = "chart" THEN Render(document, flags) ELSE Generate(document, flags)}
  /\ UNCHANGED <<tool, document, flags, config>>

Start ==
  /\ stage = "deployed"
  /\ stage' = "running"
  /\ config' = {Load(TheOne(env))}
  /\ UNCHANGED <<tool, document, flags, env>>

Next == Reject \/ Deploy \/ Start

Spec == Init /\ [][Next]_vars

-----------------------------------------------------------------------------
(***************************************************************************)
(* Properties.                                                             *)
(***************************************************************************)

(* Whatever is written, the process runs on a configuration the decision
   engine can work with (IsConfig, which ControlLoop assumes). *)
TypeOK ==
  /\ stage \in {"written", "rejected", "deployed", "running"}
  /\ tool \in Tools /\ IsDocument(document)
  /\ IsOptional(env) /\ IsOptional(config)
  /\ stage = "deployed" => env # {}
  /\ \A c \in config : IsConfig(c)

(* A number that survives the conversions: strconv.Atoi can read it back. *)
Readable(tenths) == Whole(tenths) /\ tenths < Million

(* The thresholds an operator has given, by name: in the file the legacy block
   goes before the profiles' own. *)
WrittenThresholds(kind) ==
  IF tool = "generate" /\ document.legacy # {} THEN TheOne(document.legacy)[kind]
  ELSE ProfileThresholds(document.profiles, kind)

KindOf(c) == [queue |-> c.queueThresholds, rate |-> c.rateThresholds]

(* Every readable number and every profile that was written is what the
   process works with, through the schema, the manifest or the chart, and the
   environment (Validate, Generate, Load); the chart takes a threshold of 0
   for none.  README: "a typo never silently becomes a default". *)
WrittenArrives ==
  \A c \in config :
    /\ document.profiles # <<>> =>
         /\ c.names = NamesOf(document.profiles)
         /\ \A i \in DOMAIN c.names :
              Resources(c.names[i], c) = [cpu    |-> document.profiles[i].cpu,
                                          memory |-> document.profiles[i].memory]
    /\ \A kind \in Kinds : \A name \in DOMAIN WrittenThresholds(kind) \cap (ProfilesOf(c) \ {Floor(c)}) :
         LET written == WrittenThresholds(kind)[name]
         IN  Readable(written) /\ ~(tool = "chart" /\ written = 0)
               => 10 * KindOf(c)[kind][name] = written
    /\ \A given \in document.up : Readable(given) => 10 * c.scaleUpDebounce = given
    /\ \A given \in document.down : Readable(given) => 10 * c.scaleDownDebounce = given
    /\ \A given \in document.interval : Readable(given) => 10 * c.checkInterval = given

(* No accepted configuration makes the loop fire without a pause, counts a
   recommendation as stable before it was made, or has a threshold that every
   sample exceeds. *)
InRange ==
  \A c \in config :
    /\ c.checkInterval >= 1 /\ c.scaleUpDebounce >= 0 /\ c.scaleDownDebounce >= 0
    /\ \A p \in ProfilesOf(c) : c.queueThresholds[p] >= 0 /\ c.rateThresholds[p] >= 0

(* Unless a host was written, the scaler listens to the broker it scales: its
   metrics come from the service and namespace whose resource it patches. *)
MetricsOfTheScaledCluster ==
  \A c \in config : document.host = {} => c.host = ServiceHost(c.service, c.namespace)

(* The chart and `generate' deploy the same scaler from the same file, with the
   same names, unless the file has a legacy block, a threshold of 0, an empty
   host, or profiles none of which has a threshold. *)
SaidAlike(d) ==
  /\ d.legacy = {} /\ "" \notin d.host
  /\ \A kind \in Kinds : \A name \in DOMAIN ProfileThresholds(d.profiles, kind) :
       ProfileThresholds(d.profiles, kind)[name] # 0
  /\ d.profiles # <<>> => \E kind \in Kinds : DOMAIN ProfileThresholds(d.profiles, kind) # {}

ChartAgrees ==
  \A c \in config :
    tool = "chart" /\ SaidAlike(document)
      => c = Load(Generate(document, [flags EXCEPT !.service = document.service]))
=============================================================================
