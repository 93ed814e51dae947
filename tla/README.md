# A TLA+ model of rmq-vertical-scaler

`rmq-vertical-scaler` watches a RabbitMQ cluster's queues and publish rate and
moves the `RabbitmqCluster` resource between resource profiles (LOW, MEDIUM, …).
It is one Go process without shared memory between goroutines; what is hard
about it happens between the process and the Kubernetes objects it shares with
operators, people, other copies of itself and its own next incarnation. The
specifications here model that: every API call is a step, every call may fail,
and anything may happen between two of them.

Paths below are relative to the repository's root.

## 1. Inventory

| Component | State it keeps | Operations | Hard about it |
|-|-|-|-|
| Decision engine, `internal/scaling` | none (pure) | `CalculateScaleProfile`, `GetProfilePriority`, `CheckProfileStability` | boundaries: threshold and window edges, unknown profiles, zero thresholds |
| Control loop, `internal/controller` | cached scale mode; locals of one evaluation; the ticker; the context | `Run`, `ApplyScale`, `applyResources`, `scaleMode` | decisions on values read earlier; restarts; a signal in the middle; two copies during a rollout |
| Kubernetes access, `internal/k8s` | none in memory; the `RabbitmqCluster`, its pods and a ConfigMap with `stable_profile`, `stable_since` | reads that answer a default on error, a write whose error is swallowed, access reviews, resize, strategy override, CR patch | partial failures, lost replies, stale pod conditions, revisions |
| Metrics, `internal/metrics` | none | `GetQueueMetrics`, `GetDetailedQueues`, `WaitForRabbitMQ` | two requests to a moving broker; an outage at startup or in between |
| Configuration, `internal/config` | the `Config` record | `Load`, `getint`, the CPU reverse map | lenient parsing: whatever cannot be read is a default |
| Manifest generator, `internal/manifests` | none at run time; rewrites the ConfigMap when applied again | `generate` | precedence of three sources, number formats, defaults |
| Helm chart, `charts/` | none at run time; `lookup`, then apply | install, `helm upgrade` | says the same as `generate` in another language; a stale record written back |
| Command line, JSON schema | none | `generate`, `init`, `run`; validation | what it lets through reaches the loop unchecked |

How they interact: an operator's file passes the schema, becomes the environment
of a Deployment through `generate` or the chart, and is read back by `Load`. The
process settles its scale mode, waits for the broker and starts its ticker. At
each tick the loop calls the collector, hands what it hears to the engine, reads
the cluster and the tracking record, asks the engine again, may write the record,
may change the cluster, and writes the record again. The record outlives the
process; nothing locks it. The RabbitMQ operator turns the `RabbitmqCluster` into
a StatefulSet, whose controller makes and rolls pods; the kubelet answers resizes
with a pod condition.

What makes each correct:

- engine: the recommendation is a configured profile, the highest whose
  threshold is exceeded, and monotone in the load; the reverse map inverts the
  profiles;
- loop: no change of the cluster before its debounce window, no two changes
  closer than a window, a steady load is followed in bounded time, and an outage
  of the metrics neither restarts a window nor ends in a change before it;
- process: it fails only where it is meant to, ends when told to, stops writing
  then, and serves for as long as the broker does;
- metrics: an outage must not move the cluster, and two requests that meet two
  different loads must not call for more than either;
- scale application: no restart while in-place; the override only with
  permission; a size is recorded once, last, and only when every pod has it; a
  fallback only when something really stands in the way of the resize; what fails
  is retried to the end;
- configuration: what is written is what the engine compares with, in range, for
  the broker that is scaled, from either tool.

`PROJECT.json` lists the hazards one by one with the line where each bites.

## 2. Modules

    ScalingEngine ─┬─ ControlLoop ────── MCControlLoop, ControlLoop_proofs ── ControlLoopTime_proofs
                   ├─ ScalerProcess ──── MCScalerProcess, ScalerProcess_proofs
                   ├─ ConfigPipeline ─── MCConfigPipeline, ConfigPipeline_proofs
                   └─ ScalingEngine_proofs
    InPlaceResize ── MCInPlaceResize, InPlaceResize_proofs
           └── implements ScaleAction

The three views of the loop divide the work. `ControlLoop` has the decisions and
the clock, with `applyResources` as one step; `InPlaceResize` has the inside of
`applyResources` and what it does to the cluster; `ScalerProcess` has the process
around them, every call of an evaluation and of `applyResources` included, with the
decisions as a choice. `ScaleAction` is what lets the first take for one step what
the second does in a dozen: `InPlaceResize` implements it.

**ScalingEngine**: the pure functions, with the configuration as a record.
Messages and memory are compared nowhere and stay opaque; rates are integers
(the code compares a float with an integer threshold, and only the comparison
matters).

**ControlLoop**: `Run` and `ApplyScale`. One evaluation is the sequence
`Evaluate` (metrics and profile), `ReadCurrent`, `ReadState` (and the debounce
decision), `ResetTracking` if the decision asks for it, `Apply`, `FinalReset`;
each stage is one API call of `ApplyScale`, with the early returns of the code as
shorter paths. `pc` and `eval` are the locals of the evaluation, `due` the ticker
(which buffers one tick and drops the others), `cluster` the requests of the
`RabbitmqCluster`, `configMap` the tracking record. Around it: `Stop` and `Crash`,
`EditCluster` (someone else writes the resource), `ReapplyManifest` (the generated
manifest resets the record), `RenderUpgrade` and `ApplyUpgrade` (the chart looks
the record up and writes it back later), and `Tick`. Several `Scalers` may run, as
in a rollout of the Deployment. A write can fail, land with its reply lost, or
succeed; a read can fail. `held`, `lastPatch`, `disturbed` and `troubled` are history
that only the properties read.

**InPlaceResize**: what happens inside `Apply`: `scaleMode` and
`EffectiveScaleMode` at startup (`Discover`, `ReviewResize`, `ReviewList`), and
`applyResources`: `Begin`, `EnsureOnDeleteStrategy`, `ListPods`, per pod
`ResizePod` and `CheckResizeFeasible`, `AfterResize`, then either `ApplyPatch`, or
`SetRollingUpdateStrategy` and `ApplyPatch` in a fallback. The cluster is the
resource (`cr`: size and strategy override), the StatefulSet the operator has last
derived from it (`sts`), and the pods, each with the template it came from, what it
requests, whether the kubelet has looked, and the Infeasible condition, which may
be that of an older request. `Reconcile`, `Kubelet`, `RollPod`, `CreatePod`,
`DeletePod`, `EditRBAC`, `Crash` and the API server's reasons to refuse a resize
(`Refusals`: a right, a quota, no room, no such pod) are not code of this repository;
they are modelled from how `client.go` relies on them and are marked external in the
map. What `ResizePods` makes of a reason is code (`Rejection`): any 403 that does not
speak of the node counts as a missing permission, a quota's too. Profiles are opaque
values and the recommendation is an input (`ChangeWant`), since `ControlLoop` is about
when it is acted on. `grounds` is history: what in the world has stood in the way of
the attempt under way, whatever the scaler has seen of it.

**ScaleAction**: the abstract specification of a scale. The scaler begins an attempt
at one size, and then either records exactly that size in a single last step or
abandons it. `InPlaceResize!ScalesAtomically` instantiates it: the attempt is the
`target` while `applyResources` has calls to make. A resource half written, a size
recorded before the end, or a size nobody asked for is a step the abstract
specification does not have.

**ScalerProcess**: `run`, `Run`, `WaitForRabbitMQ` and the collector. Every call is
`Send` and `Return`, so that the signal, an outage and the load come between. A call
under a cancelled context fails before it is sent, except discovery, which takes no
context (`ResizeSupported`); one that was sent may still be answered. `wait` and
`select` are the two places where the code waits: `WaitForRabbitMQ`'s backoff and
`Run`'s select. `sample` is what the evaluation has heard, `seen` the loads that
answered it. The calls of `applyResources` are here one by one (`override`, `list`,
`resize` and `verify` per pod, `revert`, `apply`), with `left` and `clean` as the locals
of `ResizePods` and `mode` as the cached scale mode, so that the signal may fall between
any two of them; which errors let auto mode fall back is a choice here.

**ConfigPipeline**: a document goes through `Validate` (`Reject` or `Deploy`), then
`Generate` or the chart's `Render` into an environment, then `Load` (`Start`). The
conversions are modelled by what they lose: a number becomes a text in integer,
decimal or exponent form (`FormatNumber`), of which `getint` reads the first; the
chart drops a threshold that is falsy; the floor has no thresholds; an absent
variable is a default. Documents are records of optional fields, numbers are counted
in tenths, names and quantities are opaque strings.

Definitions whose comment begins with "Faulty:" are plausible bugs. No
specification uses them; each property is tried against one of them.

## 3. Runs

| Run | Instance | Checks |
|-|-|-|
| `loop_reliable` | 1 scaler, 3 profiles, windows 1 s up and 3 s down, 7 s | `HeldBeforePatch` |
| `loop_faults` | 1 scaler, 2 profiles, windows 2 and 3, every call may fail, outages, crashes, foreign edits, 9 s | `TypeOK`, `SpacedPatches`, `ConvergesInTime`, `ActsThroughOutages` |
| `loop_overlap` | 2 scalers, windows 3 and 3, crashes, latency 1, 6 s | `SpacedPatches` |
| `loop_converges` | 2 scalers, lost tracking writes, helm upgrades, 7 s | `ConvergesInTime` |
| `resize_safety` | 2 pods, 2 profiles, all modes, with and without `pods/resize`, quotas, 1 fault, 3 outside changes | `TypeOK`, `RollsOnlyAfterFallback`, `OverrideNeedsPermission`, `RecordedAfterEveryPod`, `FallbackIsEarned`, `ScalesAtomically` (refinement) |
| `resize_retries` | 2 pods, `inplace`, 3 faults or crashes, 2 changes of recommendation | `RetryReachesEveryPod` (liveness) |
| `process` | 1 process, 2 pods, all modes, 3 profiles, 4 loads, outages, signals, kills | `TypeOK`, `NeverAboveTheLoads`, `OneLateWrite`, `EndsAsPromised`, `SignalEndsRun`, `ServesWhileUp` (liveness) |
| `config_pipeline` | four families of documents, both tools, 4 command lines | `TypeOK`, `WrittenArrives`, `InRange`, `MetricsOfTheScaledCluster`, `ChartAgrees` |
| `loop_unknown_current` | as `loop_reliable` with reads of the cluster failing | `HeldBeforePatch` is violated |
| `resize_partial` | one fault | `SourceOfTruth` is violated |
| `resize_stranded` | `auto` and `rolling`, a restart | `RollingModeRolls` is violated |
| `resize_stale` | `auto`, nodes that may be too small, no fault | `FallbackIsDue` is violated |

What the passing runs show. A change of the cluster has been recommended by every
evaluation for the whole window of that very change as long as the reads of the
cluster and the writes of the record succeed. Whatever fails, two changes to different
profiles are a window apart: the second needs a record written after the first. Two
overlapping copies lose at most twice the latency of an evaluation, and that bound is
tight. An outage of the metrics does not restart a window: when it has passed, the
first evaluation that has metrics again makes the change. Once faults stop, the
cluster follows a steady load within the longest window, two ticks and three latencies
(a tick comes an interval after the last, or later when the evaluation before it takes
longer). The in-place path never restarts a pod on its own account, never sets the
override without permission, never records a size some listed pod did not take, and
gives the override up only when a right, a quota or a node has stood in the way during
that very attempt, or a pod still carries the verdict on an earlier one; its dozen
calls implement the abstract scale. The process ends by itself only in the preflight
of an explicit `inplace`, and then always if that does not pass, ends whenever it is
told to, lets one write finish at most, also in the middle of `applyResources`, and
evaluates again and again while the broker is up, however long that took. What two
requests hear of a moving broker never calls for a higher profile than one of the two
loads does. A number that survives the number formats is what the engine compares
with, and the chart and `generate` start the same scaler from the same file, outside
the differences `SaidAlike` names.

What the violated ones show is in `findings`: the debounce is not kept when a read of
the cluster fails (UNKNOWN turns a scale-down into a scale-up); a half-done resize is
forgotten when the recommendation returns; a process in rolling mode that inherits the
OnDelete override patches in vain; and the verdict on an earlier resize, which the pod
still carries, makes auto roll for a resize nothing has refused. A further finding
needs no run (a quota's 403 is taken for a missing permission). Others need only
another constant. With `patchConfigMap` for `getCluster` in `loop_unknown_current` a
lost tracking write breaks the debounce too. With `Verdicts = {"Infeasible"}` and
`MaxFaults = 0` in `resize_partial`, `SourceOfTruth` fails without any lost call: the
roll of a fallback overlaps the next in-place action, or, in the behaviours with
`rolled = {}`, a fallback to the revision the pods were created from rolls nothing. It
also fails when a pod is recreated between the pod list and the final patch.

### Bounds

- Time (`MaxTime`): enough for a first window, a patch and a second window to
  pass after it; `loop_faults` has 9 s for windows of 2 and 3 so that the
  convergence bound itself (8 s) fits behind a disturbance. The loop runs stop at
  the horizon (`AtHorizon`) and nowhere else, so deadlock is checked on the way.
- Samples: an idle broker, a backlog of each size, a publish burst, a failed
  overview and an empty queue list: every branch of the profile choice.
- Two or three profiles: three are needed for an intermediate recommendation,
  the case a lost reset gets wrong, and for a torn sample between two levels; two
  suffice for the spacing of patches.
- Two pods are the fewest with a first, a last and a partial failure. One fault
  and three outside changes reach every fallback, the race of a roll with the
  next action and a restart in another mode. Profiles are only compared for equality
  there, so `resize_safety` takes them as symmetric (`AnyProfiles`).
- `process` has no counters to bound: two pods give `ResizePods` a first and a last,
  and four loads (no queues, idle, a backlog
  alone, a burst alone) make overview and queue list disagree in either direction.
- `config_pipeline` enumerates documents by families of fields that one conversion
  reads together: thresholds (each of two numbers absent, negative, zero, whole, a
  fraction or a million, two sets of names, two profiles of one CPU), the legacy
  block, the three times, and the target. The fields of different families meet in no
  conversion, and the theorems have no such limit.
- The resize and configuration runs do not check deadlock: with the recommendation
  where the cluster is and the budgets spent the program waits for its ticker, and
  the pipeline ends with a running process or a refused file.

### Fairness

`InPlaceResize!Spec`: weak fairness of the scaler's next step (between two calls it
only waits for an answer, client calls return, and the ticker fires for ever), of
the operator, the kubelet and the StatefulSet controller. Failures, crashes and
changes from outside are never assumed to happen, and their number is bounded, which
is what "once the failures stop" means.

`ScalerProcess!Spec`: weak fairness of `Start` (the Deployment restarts its
container), of sending and ending a call (the broker's calls have timeouts of 5 and
10 s; for the Kubernetes calls it is an assumption, as the code sets none), of the
backoff timer, the ticker and the evaluation it triggers. Strong fairness only of
`StopWaiting` and `StopLoop`: they are cases of a Go `select` that may be ready next
to another, and Go picks among ready cases at random, so one that is ready again and
again is taken. Nothing is assumed of signals, kills or the broker.

Convergence of the loop is a safety property over the clock (`ConvergesInTime`) and
needs no fairness: `Tick` cannot pass a tick that is due or an evaluation that has
used up its latency.

## 4. Proofs

All theorems hold for every value of the constants that satisfies the modules'
assumptions; none bounds profiles, scalers, pods, documents, time or failures.

Engine (`ScalingEngine_proofs`):

- `RecommendationIsAProfile`: what the engine recommends is configured.
  `MaxExists` carries it (the highest selected index exists).
- Lemma `RecommendsAtLeast`: a sample that is at least as deep and as fast never
  gets a lower profile.

Loop (`ControlLoop_proofs`):

- `TypeCorrect`: a scaler in the middle of an evaluation has a real recommendation.
- `Debounced`: `HeldBeforePatch` for one scaler whose profiles have distinct CPUs
  and whose tracking writes and cluster reads succeed (`OneScaler`, `DistinctCPUs`,
  `TrackingReliable`, `ClusterKnown`). The property is not inductive: the
  invariant `HeldInv` adds that a record naming the held recommendation is no
  older than it and that an evaluation at `apply` has seen the window pass, and
  `CurrentInv` that it still knows the cluster's profile.
- `NeverAtOnce`: what is left of it without `ClusterKnown`, when reads of the cluster
  fail or somebody else edits it. `HeldForShortestWindow` says that every profile
  written has been recommended by every evaluation for the shorter of the two windows;
  `HeldInv` does not need to know where the cluster is. It bounds what
  `loop_unknown_current` shows: an evaluation may take the other window, never less than
  either.

Loop, what happens when (`ControlLoopTime_proofs`), for any number of copies. One lemma
per stage says what it does in the terms of these proofs (`ReadStateEffect`,
`ApplyEffect`, …), and `TimeInv` holds what both theorems need of the clock: nothing is
dated in the future, an evaluation is over `MaxLatency` after it began, the next tick
comes within an interval, and an evaluation that began after `held.since` recommends
what is held.

- `PatchesSpaced`: `SpacedPatches` under all faults but helm upgrades, which may bring a
  record of any age back. `SpacedInv`: a record for another profile than the last one
  patched was written after that patch, less the slack. With several copies the record
  a copy read may have been replaced before it patches; then the replacement was
  written by an evaluation still in progress (`SpacedReads`), and two copies at `apply`
  for different profiles have seen the record change within their latencies, which is
  only possible when a whole window is no longer than the slack (`SpacedRaces`).
- `FollowsTheLoad`: `ConvergesInTime` under every fault, upgrades included.
  `QuietInv` counts in three stages from `QuietSince`: by `CleanFrom` every evaluation
  under way began in the quiet; by `TrackedBy` one of them has left a record of the
  profile that only the same profile can replace; from `ActsFrom` on its window has
  passed, and the next evaluation applies it. As long as a stage is not reached, every
  scaler that is up has begun its last evaluation before the stage's end, so `Tick`
  cannot pass. It assumes `CPUIdentifies`: a CPU request among the profiles' and the
  outside edits' resources belongs to one profile. The code looks at the CPU alone
  (`GetCurrentProfile`), so it takes a cluster that somebody gave a profile's CPU and
  another memory for settled and never repairs it: TLC finds that with
  `[cpu |-> "1600m", memory |-> "1Gi"]` for the edit of `loop_faults`.

- `OutagesOnlyDelay`: `ActsThroughOutages`, for one scaler (`OneScaler`) and under
  `CPUIdentifies`. `DueInv` holds while nothing but the metrics has failed since the
  recommendation was first made (`~troubled`): the cluster has the profile's resources,
  or the record names the profile and is at most a latency younger than the
  recommendation, or the evaluation that will leave such a record is under way.
  Evaluations without metrics leave all three alone, so one that begins when the window
  and that latency have passed finds the record old enough (`DueIsDone`).

Scale application (`InPlaceResize_proofs`):

- `TypeCorrect`, and `NoRestartInPlace`: `RollsOnlyAfterFallback`. The invariant
  `Untouched` holds until a rolling mode or a fallback is entered: either the
  resource carries the override, or the StatefulSet equals it and every pod is of
  its revision; so the StatefulSet controller has nothing to roll in any
  interleaving with the operator.
- `PermissionFirst`: `OverrideNeedsPermission`. The rights once granted only grow
  in the record, `reviewList` is reached only past the first review, and only an
  in-place mode reaches the override.
- `RecordedLast`: `RecordedAfterEveryPod`. The invariant `ReachedInv` follows the loop
  over the pods: as long as no error has been collected, a listed pod that is no
  longer to do requests the target, and with an error the patch is not reached in
  place.
- `FallbackEarned`: `FallbackIsEarned`. The scaler only has error kinds, the property is
  about the world. `GroundsInv`: while a resize is under way, whatever hinders it at
  that moment is on record (`Hindered`: a missing right, a pod with the Infeasible
  condition), and so is the cause of every error collected that makes auto roll
  (`Blames`). Each action that may put something in the way, and each call that may
  turn it into an error, is a case of its own; a call that fails for no reason adds an
  error that blames nothing.
- `AppliesAtomically`: the refinement of `ScaleAction`; only `ApplyPatch` touches
  the size, and it is the last call of either path.

Process (`ScalerProcess_proofs`):

- `TypeCorrect`: among the types, that an evaluation past the metrics has a
  configured profile, whatever was heard.
- `StopsWriting`: `OneLateWrite`. `LateInv`: with the context cancelled and a write
  counted, no write is on its way, and none can be sent, in `applyResources` neither.
- `EndsInPreflightOnly`: `EndsAsPromised`. `EndInv`: nothing is contacted before the
  preflight is passed, and past it the mode is the one that was asked for.
- `TornSamplesAreBounded`: `NeverAboveTheLoads`. Whichever threshold selected the
  profile, it came from one request, so the load that answered it calls for as much
  (lemma `TornSample`, by `RecommendsAtLeast`).

Configuration (`ConfigPipeline_proofs`): `PipelineInv` says that beyond the first
stage the document is valid and `env` and `config` are what the conversions make of
it; the rest is about the conversions.

- `ConfigsAreUsable`: `TypeOK`, in particular that `Load`'s result satisfies
  `IsConfig`, the assumption `ControlLoop` and `ScalerProcess` are built on.
- `NothingIsLost` (`WrittenArrives`), `BoundsSurvive` (`InRange`),
  `MetricsMatchTarget` (`MetricsOfTheScaledCluster`) and `ToolsAgree`
  (`ChartAgrees`).

Model-checked only: `RetryReachesEveryPod`, `SignalEndsRun` and `ServesWhileUp`
(liveness under fairness is out of the proof system's reach). Every other property of a
passing run is a theorem. `HeldForShortestWindow` has no run of its own: it is about
what is left when the property of `loop_unknown_current` fails.

## 5. Not modelled

- `init` (copies an embedded template into a file that must not exist), the summary
  and version printed, log messages; object names, image, RBAC, PDB and labels of the
  manifests: no state and no interaction.
- HTTP and JSON decoding, credentials, the port: a call is answered or it failed.
- A process that cannot build its Kubernetes client, which ends before `Run`.
- A Kubernetes call that is never answered (the client sets no timeout).
- A clock that steps: no window can be stated about one.
- ConfigMaps without the two keys or with an unreadable `stable_since`, and a
  `RabbitmqCluster` without requests: the replace operations then fail every time,
  which the model has only as calls that fail.
- A profile named like the answer to a failed read, `UNKNOWN`, which the schema's
  pattern allows; profile names given twice, in the chart's list or a JSON object.
- Profiles that share a CPU are in the reverse map and in the configuration runs, not
  in the loop's, whose properties recognise a profile by its CPU; nor are outside edits
  that leave a profile's CPU with another memory (see `CPUIdentifies`).
- Two overlapping copies inside `applyResources`. Pods are resized in list order; the
  StatefulSet controller's order of rolling is left open.

## 6. Plan

Done: the engine, the loop with its environment, the scale application, the process,
the configuration pipeline, the abstract scale with its refinement, and the theorems
above. Left:

1. Two scalers inside `applyResources`, whose overrides and patches cross during a
   rollout.
2. What is left of the debounce for two copies: a bound like that of `SpacedPatches`
   for `HeldForShortestWindow`.
