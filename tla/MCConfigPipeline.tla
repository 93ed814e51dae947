-------------------------- MODULE MCConfigPipeline --------------------------
(* Documents and command lines for ConfigPipeline: one family per group of
   fields that a conversion reads together. *)
EXTENDS ConfigPipeline

(* No value, a negative one, zero, a whole number, a fraction, and a number
   that is written in exponent form. *)
AnyNumber == {{}, {-10}, {0}, {70}, {15}, {Million}}

Profile(name, cpu, queue, rate) ==
  [name |-> name, cpu |-> cpu, memory |-> "2Gi", queue |-> queue, rate |-> rate]

Base ==
  [profiles |-> <<Profile("LOW", "330m", {}, {}), Profile("MEDIUM", "800m", {20}, {10}),
                  Profile("HIGH", "1600m", {50}, {30})>>,
   legacy |-> {}, up |-> {}, down |-> {}, interval |-> {},
   namespace |-> "", service |-> "", host |-> {}, mode |-> ""]

(* Thresholds of the floor, of a profile in the middle, and none at all, under
   the names of the defaults and under others; two profiles of the same CPU. *)
ThresholdDocuments ==
  {[Base EXCEPT !.profiles = <<Profile(names[1], "330m", floor, {}),
                               Profile(names[2], "800m", queue, rate),
                               Profile(names[3], cpu, top, {})>>] :
     names \in {<<"LOW", "MEDIUM", "HIGH">>, <<"SMALL", "BIG", "MEDIUM">>},
     floor \in {{}, {70}}, queue \in AnyNumber, rate \in AnyNumber,
     cpu \in {"1600m", "800m"}, top \in {{}, {90}}}

LegacyDocuments ==
  {[Base EXCEPT !.legacy = {[queue |-> queue, rate |-> rate]}, !.profiles[3].queue = own] :
     queue \in {<<>>, [HIGH |-> 70], [HIGH |-> 70, MEDIUM |-> 0], [HIGH |-> -10]},
     rate \in {<<>>, [MEDIUM |-> 15], [OTHER |-> 20]}, own \in {{}, {50}}}

TimeDocuments ==
  {[Base EXCEPT !.up = up, !.down = down, !.interval = interval] :
     up \in AnyNumber, down \in AnyNumber, interval \in AnyNumber}

TargetDocuments ==
  {[Base EXCEPT !.namespace = namespace, !.service = service, !.host = host, !.mode = mode,
                !.profiles = profiles] :
     namespace \in {"", "prod"}, service \in {"", "mq"}, host \in {{}, {""}, {"elsewhere"}},
     mode \in {"", "rolling"}, profiles \in {<<>>, Base.profiles}}

AllDocuments == ThresholdDocuments \cup LegacyDocuments \cup TimeDocuments \cup TargetDocuments

AllFlagSets == [namespace: {"", "staging"}, service: {"", "rabbit"}]
=============================================================================
