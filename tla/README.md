# A TLA+ model of kube-startup-cpu-boost

Kube Startup CPU Boost raises the CPU resources of pods when they are created
and puts them back once the workload is up. This directory specifies what it
does with a pod's resources, who tracks which pod, who reverts it, how the
process starts, and what happens when requests fail, events come late or the
process restarts. Paths below are relative to `src/`.

## 1. Inventory

| Part | Source | State | Operations |
|---|---|---|---|
| boost manager | `internal/boost/manager.go`, `util.go` | `regularBoosts`, `timedBoosts`, `orphanedPods`, a RWMutex | add, update, delete a boost; upsert, delete a pod; post-processing of a new boost (orphans, sync); time check |
| startup CPU boost | `internal/boost/startupcpuboost.go` | selector, policies, tracked pods, statistics, a RWMutex | upsert, delete, validate, revert (two patches, or one update in legacy mode), update from spec |
| pod patches | `internal/boost/pod/pod.go` | the label and annotation of a pod | revert labels, revert resources, merge patches |
| duration policies | `internal/boost/duration/` | none | `Valid` for a fixed duration and a pod condition |
| resource policies | `internal/boost/resource/` | none | `NewResources`, fixed and percentage |
| pod event handler | `internal/controller/boost_pod_handler.go` | none | create, update, delete |
| StartupCPUBoost controller | `internal/controller/boost_controller.go` | work queue, status subresource | event filter, reconcile |
| GlobalStartupCPUBoost controller | `internal/controller/globalboost_controller.go` | finalizer, one child boost per namespace, status | reconcile, deletion, mapping of events |
| pod admission webhook | `internal/webhook/podcpuboost_webhook.go`, `qos.go` | none | increases resources, writes label and annotation |
| validating webhooks | `internal/webhook/*startupcpuboost_webhook.go` | none | validate specifications |
| metrics | `internal/metrics/metrics.go` | gauges and counters | per boost and per namespace |
| start-up | `cmd/main.go`, `internal/config/`, `internal/util/` | configuration, ready channels | load the configuration, check feature gates, start the manager, set up webhooks and controllers, readiness |

How they interact. The webhook asks the manager for a boost that matches a new
pod and marks the pod with a label and an annotation. Pod events that carry the
label reach the manager, which hands the pod to the boost whose selector matches
or keeps it as an orphan. A boost reverts a pod in its own event handler when
the pod condition is met; a ticker reverts the pods whose fixed duration has
elapsed, in a pool of workers. Boost events register, change and remove boosts,
and every registration or change also takes over orphans and lists labelled
pods. Statistics are written to the status of the boost object, and this write
comes back as a boost event.

The time check runs from the moment the boost manager has the lease, the
controllers are set up by another goroutine once certificates are there, and the
process is ready when both are done. In a rolling update the Deployment removes
the old replica only then.

What makes it hard: handlers, workers, the reconciler and the webhook run
concurrently under two levels of locks; pods are shared by pointer with the
informer cache and are mutated before the request that may fail; patches name a
pod and not its UID; the informer is behind the API server; nothing but the
label survives a restart. `PROJECT.json` lists the hazards line by line.

## 2. Modules

| Module | Models |
|---|---|
| `PodBoost` | a pod as the controller sees it, the operators of `pod.go`, the merge patch, the duration policies |
| `Cluster` | what is outside: API server, informer with watch, cache and events, users, kubelet, time |
| `BoostManager` | manager, boosts, both event handlers, reconciler, time check, admission; extends `Cluster` |
| `GlobalBoost` | the GlobalStartupCPUBoost controller with its informers, users and namespaces; stands alone |
| `PodResources` | quantities: QoS class (`qos.go`), fixed and percentage policies, annotation, reversion of containers |
| `Admission` | the mutating webhook container by container, the validating webhook, the mapping of a specification to a boost object; extends `PodResources` |
| `TimeCheck` | what a time check promises, without goroutines |
| `RevertPipeline` | the goroutines and channels of `validateTimePolicyBoosts`; its time check instantiates `TimeCheck` under a refinement mapping |
| `StartUp` | `main`, configuration, feature gates, `setupControllers`, readiness, leader election and the rolling update |
| `Operator` | the composition of `StartUp` and `RevertPipeline`: one process from its start to its time checks |
| `BoostManagerTypes` | the parts of the type invariant of `BoostManager` and what keeps each part |
| `BoostManagerSteps` | the lemmas that each action keeps the type invariant |
| `BoostRegistry` | the invariants of the registry and of the timed boosts |
| `BoostReverts` | the invariants of reversions: label and resources, no early reversion |
| `BoostManagerProofs`, `GlobalBoostProofs`, `AdmissionProofs` | the theorems about the modules they are named after |
| `OperatorProofs` | the theorems about `RevertPipeline` and `Operator` |
| `MCBoostManager`, `MCGlobalBoost`, `MCAdmission`, `MCOperator` | constants for the runs; one `MC<run>.cfg` per run |

The same pod is seen at three grains. `Admission` has its quantities and one
pod; `BoostManager` has many pods, their versions and events, and only tells
original from boosted resources, which `Admission` justifies: the annotation
undoes the increase exactly. `RevertPipeline` has the workers of a time check and
abstracts a reversion to its outcome, which `BoostManager` details.

### State and actions of `BoostManager`

- `mem` is the heap of in-memory pods, and a pointer is an index into it (0 is
  nil). Event objects are the cached objects themselves; a list makes copies.
  This is what exposes in-place mutation: a reversion changes `mem[ptr]` before
  the request, and the answer is decoded into it only on success.
- `boost` is the heap of `StartupCPUBoostImpl`; `regularBoosts` and
  `timedBoosts` point into it, so that an object that was replaced can be told
  from the one that is registered.
- `handler` is the event handler that holds the manager's lock, with what is
  left of its loops. `reverts` are the reversions asked for or in progress, of
  the handler or of a worker. `tick` is the time check. `queue` is the work
  queue. `configurations` is the metrics gauge.
- `api`, `watch`, `cache` and `podEvents` are the four places a version of a
  pod passes; `boostApi`, `status` and `boostEvents` the same for boosts.

| Action | Code |
|---|---|
| `AdmitPod` | `podCPUBoostHandler.Handle` |
| `UpsertPod`, `DeletePod`, `IgnorePodEvent` | `boostPodHandler` with its label predicate, `managerImpl.UpsertPod`, `DeletePod` |
| `AddRegularCPUBoost`, `UpdateRegularCPUBoost`, `DeleteRegularCPUBoost` | the event filter of `StartupCPUBoostReconciler` and the manager's functions of these names |
| `MapOrphanedPod`, `ListBoostPods`, `SyncBoostPod`, `HandlerReturn` | the loops of `postProcessNewBoost`, one iteration a step |
| `RevertResources`, `RevertLabels` | the two requests of `updateBoostPod` |
| `RevertLegacy` | `updateBoostPodLegacy` |
| `StartTick`, `ValidatePolicy`, `EndTick`, `ReconcileAfterTick` | `validateTimePolicyBoosts` |
| `Reconcile` | `StartupCPUBoostReconciler.Reconcile` |
| `Restart` | the process dies; informers replay what exists, in any order |
| `ClusterStep`, `Receive` | users, kubelet, time, informer |

Locks are guards: an event handler starts only when no other holds the manager's
lock (`HandlerFree`), and nothing touches a boost whose lock a reversion holds
(`Locked`). A handler that waits for a boost's lock is modelled as not having
taken the manager's lock yet; this allows every order the locks allow.

### `GlobalBoost`

It has one worker, `rec`, at one point of `reconcile` or
`handleDeletion`:

| Action | Code |
|---|---|
| `ReconcileNothing`, `AddFinalizer` | the early returns of `Reconcile` |
| `ListNamespaces`, `CheckNamespace`, `ensureChild` | `reconcile`, one namespace a step, with `hasUnmanagedBoosts`, `deleteChildIfExists` and `ensureChild` |
| `ListStaleChildren`, `DeleteStaleChild` | `cleanupStaleChildren` |
| `UpdateStatus` | `updateStatus` |
| `StartDeletion`, `DeleteChild`, `RemoveFinalizer` | `handleDeletion`, `deleteAllChildren` |
| `ReceiveGlobal`, `ReceiveNamespace`, `ReceiveBoost` | the three watches of `SetupWithManager` with their map functions |
| the actions of users, `EmptyNamespace`, `Restart` | the cluster |

Each kind of object has its own watch, so changes of different kinds overtake
each other. Reads go to the caches and writes to the API server. `stale` says
that the copy being reconciled is not the latest version, so that an update
conflicts; a version number would grow without bound, because the controller
can keep itself busy (see `StaleUnselected` in section 3). `environment` is chosen
once: what users do, and what may go wrong, in this behaviour.

### `Admission`

`objects` are the boost objects made so far and `registered` is the one the
manager has; `req` is the pod being admitted, with the index of the next container
and the object the webhook holds, and later the admitted or reverted pod;
`handler` has the two settings of the webhook; `crash` is the specification that
ended the process.

| Action | Code |
|---|---|
| `AdmitPod`, `BoostContainer`, `FinishAdmission` | `podCPUBoostHandler.Handle` and `boostContainerResources`, one container a step |
| `CreateBoost`, `UpdateBoost`, `DeleteBoost` | `validate`, then the event filter with `NewStartupCPUBoost` and `UpdateFromSpec` |
| `RevertPod` | `RevertResourceBoost` on every container, refused by the API server when it changes the QoS class |
| `WebhookTimeout`, `DeletePod`, `Restart` | the API server goes on without the webhook (`failurePolicy=ignore`), the cluster |

`MatchCPUBoost` returns a pointer and `ResourcePolicy` takes no lock, so an
update can fall between two containers and a delete leaves the object in use.

### `RevertPipeline`, `StartUp` and `Operator`

| Action | Code |
|---|---|
| `StartCheck` | the tick, the channels and the goroutines of `validateTimePolicyBoosts` |
| `Producer` (`AskBoost`, `SendTask`, `CloseTasks`) | the goroutine that ranges over the timed boosts and sends tasks |
| `Work` (`TakeTask`, `Revert`, `SendRequest`, `SendError`, `FinishWorker`) | a worker; sends wait for room in a channel of capacity `MaxGoroutines` |
| `CloseResults`, `LogError` | the goroutine after `wg.Wait`, the one that logs errors |
| `Caller` (`CollectRequest`, `FinishCollecting`, `ReconcileBoost`, `FinishCheck`) | `dedupeReconcileRequests` and the reconcile loop |
| `Load`, `GetClusterVersion`, `CheckFeatureGates`, `StartManager` | `main` |
| `SetUpWebhooks`, `SetReconciler`, `SetUpBoostController`, `SetUpGlobalController` | the goroutine `setupControllers` |
| `RotateCerts`, `Elect`, `StartBoostManager`, `FinishRollout`, `EvictOld`, `RestartContainer`, `Crash` | the rotator, the lease, the runnables of the manager, the Deployment and the kubelet |

`Operator` joins the two: `SetReconciler` also sets the reconciler of the pipeline,
ticks come as soon as the boost manager is started, boosts exist only when the
boost controller is set up and leads, and an exit loses the pipeline.

### Abstractions

- In `BoostManager`: one namespace. A selector is the set of pods it matches. CPU quantities are
  `"init"` or `"boosted"`, and every boosted pod has one boosted container.
- The label and the annotation are written and removed together: one field.
- Pod conditions are pending, scheduled and ready; the condition policy waits
  for Ready=True. Time is the set `due` of pods whose duration has elapsed.
- A specification has exactly one duration policy, as the validating webhook
  demands, and is otherwise valid.
- A patch that changes nothing is no write. A request on an existing pod may be
  answered, may fail, or may take effect and lose its answer (`Faults`).
- The boost informer's cache is folded into `boostEvents`; a status update that
  conflicts is requeued by the work queue, hence is only a delay, but the time
  check drops it (second disjunct of `ReconcileAfterTick`).
- In `BoostManager` every overdue pod has a worker of its own; the pool, its
  channels and their bounds are `RevertPipeline`.
- In `GlobalBoost` a namespace has one label, a selector is a set of labels, a
  template is a number. A cache and the handlers of its events are updated in
  one step. Reads from a cache do not fail.
- In `Admission` resources are CPU in millicores and memory in any unit, one pod
  is admitted at a time, and the annotation reads back as it was written. Init
  containers count for the QoS class and are never boosted, as in the code.
- In `RevertPipeline` the tasks of a check differ, so their channel is a set; of
  the errors only the number matters. Goroutines that outlive the caller of a
  check hold nothing but their own channels.
- In `StartUp` a variable is true, false or malformed. Addresses, ports, TLS and
  logging are left out. A leader that is gone loses the lease at once.

## 3. Runs

The runs named `global_...` use `MCGlobalBoost`, `admission` uses `MCAdmission`,
`operator` uses `MCOperator`, the others `MCBoostManager`. "Versions" bounds the
writes of users and kubelets to one pod, "edits" those to boost objects.

| Run | Instance | Checks | Shows |
|---|---|---|---|
| `boost_changes` | 1 pod, 1 boost, 3 specifications, 3 edits, 1 restart | `TypeOK`, `TimedBoostsRegistered`, `RegistryAgrees`, `NoPodLeftBehind` | the registry follows any sequence of three edits, and no boosted pod is lost |
| `faults_restart` | fair; 1 pod, 3 versions, 2 faults, 1 restart | `UnlabelledPodsRestored`, `NoPodLeftBehind`, `NoEarlyRevert`, `EventuallyRestored` | label requests may fail and answers get lost without harm, and a pod past its duration is restored |
| `legacy` | 1 pod name used twice, legacy mode, any fault, 1 restart | `UnlabelledPodsRestored`, `NoEarlyRevert` | the conditional update protects a pod created again |
| `two_pods` | 2 pods, 1 boost, symmetry | `NoPodLeftBehind`, `ActiveWithinTotal` | concurrent pods of one boost do not disturb each other |
| `two_boosts` | 1 pod, 2 boosts with moving, overlapping selectors, fixed durations, 1 restart | `TimedBoostsRegistered`, `UnlabelledPodsRestored`, `RegistryAgrees`, `OrphansUnmatched`, `NoEarlyRevert` | what holds whichever boost the iteration meets first; orphans are taken over by the boost that selects them |
| `status` | 1 pod, 1 boost, 4 status writes | `StatusReported` | the status converges although it triggers updates |
| `condition_liveness` | fair; 1 restart | `ConditionRestored` | a ready pod is restored when no request fails |
| `resize_retry` | 1 pod, 1 boost, 1 failing resize | `UnlabelledPodsRestored` | violated, see below |
| `global_children` | 1 global boost, 1 namespace, 2 templates, 2 selectors, two environments, 4 steps of users, 1 restart | `GlobalTypeOK`, `ChildrenPresent`, `NoStaleChildren`, `StatusAgrees` | without failures a selected namespace gets its child however labels change; while they stay, children and status are right at rest |
| `global_deletion` | fair; 2 faults, 1 restart | `DeletionFinishes` | a deleted global boost goes away |
| `admission` | 110 pods, 8 specifications, 3 boost events, both settings of the webhook | `AdmissionTypeOK`, `RevertRestores`, `BoostedPodsLabelled`, `QosKept`, `RequestsWithinLimits`, `NothingLowered`, `AcceptedPoliciesMap`, `BoostsEnd` | increase and reversion fit together whatever happens to the boost in between |
| `operator` | fair; 5 rollouts, 2 boosts, 3 pods, 2 workers, channels of capacity 2, 1 fault | `NoSendOnClosed`, `NoReconcileLost`, `OneActive`, `GatesRespected`, `ImplementsTimeCheck`, `CheckEnds`, `RolloutCompletes` | start-up and time checks end, in the right order, whatever fails once |

Bounds. One pod and one boost suffice for the races between a handler, a worker
and the cluster about one pod; the runs with two pods or two boosts add sharing.
Two versions let a pod be created and scheduled, three also let it become ready
or be written while it is reverted. Three edits let a boost be created, deleted
and created again, or have its policy changed and changed back. One restart can
fall between any two steps. Two faults let a retry fail too. Four status writes
are more than one pod needs, so the last is not cut off; with a bound of 0 or 1
(runs that are not about the status) a status write beyond the bound does not
happen, which removes the boost updates it would cause. Faults of the resize
request before it takes effect are left out of `faults_restart` because they
break its properties: see `resize_retry`.

Some properties hold only under a restriction. `OrphansUnmatched` and
`StatusReported` leave out the boosts that wait for a pod condition: `UpsertPod`
returns an error when it fails to revert such a pod, and its callers then neither
drop the orphan nor ask for a reconcile. `NoEarlyRevert` outside legacy mode is
checked for pod names used once, and `ConditionRestored` without failing requests.
Section "Where code and documentation disagree" has the instances that violate
them otherwise.

Larger instances that take too long to be kept as runs gave the same answers: the
properties of `boost_changes` with three versions (11,239,683 states), those of
`two_boosts` with three edits (4,183,470 states), and `OrphansUnmatched` with one
boost and four versions (3,456,131 states).

In the global runs four steps of users let a global boost be created and three
more changes meet its reconciliations; one namespace is enough, because nothing
but the order of the loop relates two namespaces. The worker, its requests and
the three watches are interleaved without bound. `NoStaleChildren` and
`StatusAgrees` state that labels and selectors stay, and so speak of one of the
two environments; `ChildrenPresent` speaks of both.

In `admission` quantities are chosen so that rounding, a target below the current
quantity, a zero request, every QoS class, init containers and resources of the
pod itself occur; three events let a boost be created and updated twice, or
replaced, within one admission. `WordBits` is 12 and a second is 10, so that three
seconds fit into a duration and four minutes do not. In `operator` the five rollouts
cover both values of leader election, a cluster without in-place resizes, and
malformed variables that the start notices and does not notice; two pods of one
boost and one of another make the deduplication matter, and three tasks are one
more than a channel holds, so that sends have to wait. Deadlock is not checked there: a
rollout in which both revisions elect a leader stops, as explained below.

Symmetry in `two_pods` is sound: no operator chooses among pods, and the run
checks invariants only.

Fairness (`FairSpec`): weak fairness of the informer, the event handlers, the
loops of a handler, the requests of a reversion, the time check and the
reconciler. These are goroutines fed by channels, queues and a ticker, which the
runtime always schedules again. Nothing is assumed of users, kubelets, faults or
restarts. Faults are bounded, so a request that is retried succeeds in the end.
`FairSpec` of `GlobalBoost` is fair to the worker, to each watch and to the
namespace controller, for the same reasons. `Operator` is fair to `main`, to
`setupControllers`, to each goroutine of a check and to each worker, and to the
kubelet, the Deployment, the lease and the rotator as far as they are part of
`Main`; no tick, crash or eviction ever has to come. That the global controller always
comes to rest is not claimed: with this fairness it is false, since the cache may
lag at the same point in every round.

Every property of a passing run has a mutant: an operator next to the
definition it replaces, marked `Mutant:`, that changes the code the way a
plausible mistake would and makes the property fail.

### Where code and documentation disagree

The run `resize_retry` checks `UnlabelledPodsRestored`, and TLC finds it violated:
a failed resize leaves the tracked pod reverted in memory, the retry sends an
empty patch and then strips the label, so that the pod stays boosted and nobody
finds it again. The finding in `PROJECT.json` quotes the documentation.

The properties below are violated as well; they are not kept as runs. Constants
not named are, for `MCBoostManager`, `Pods = {p1}`, `Boosts = {b1}`, `MaxUid = 1`,
`LegacyRevertMode = FALSE`, `Faults <- NoFaults`, `MaxFaults = 0`,
`MaxRestarts = 0`, `MaxStatusWrites = 0`; "v" is `MaxVersion`, "e" is `MaxEdits`.
The temporal ones use `FairSpec`.

| Property | Instance | What happens | Contradicts |
|---|---|---|---|
| `EventuallyRestored` | `FixedSpecs`, v 3, e 1, `LegacyRevertMode = TRUE`, `MaxStatusWrites = 4` | A conflicting update has already removed the annotation in memory; every retry fails (`startupcpuboost.go:313`). | README.md:210-211 |
| `NoEarlyRevert` | `FixedSpecs`, v 2, e 1, `MaxUid = 2` | A pod created again under the same name is reverted for its predecessor (`manager.go:401`). | README.md:210-211 |
| `ConditionRestored` | `ConditionSpecs`, v 3, e 1, `ResizeFaults`, `MaxFaults = 1`, `MaxStatusWrites = 4` | A failed reversion on a met condition is never repeated (`startupcpuboost.go:185`). | README.md:223 |
| `OrphansUnmatched`, of every boost | `ConditionSpecs`, v 3, e 3 | A pod that a boost could not revert stays an orphan although the boost selects and tracks it (`manager.go:221`). | comment, `manager.go:125` |
| `TotalWithinBoosted` | `FixedSpecs`, v 3, e 1, `MaxStatusWrites = 2` | A sync caused by a status update tracks a pod again that a worker has just reverted, and counts it twice (`manager.go:325`). | comment, `startupcpuboost.go:86-87` |
| `TrackedPodsExist` | `MovingSpecs`, v 1, e 2 | A pod deleted after its boost's selector moved stays tracked (`manager.go:237`). | comment, `manager.go:231` |

For `MCGlobalBoost` the rest is `Globals = {g1}`, `Namespaces = {n1}`,
`Labels = {"on", "off"}`, `GlobalSpecs <- OneSpec`, `UserNames = {Own}`, no faults
and no restarts; the one environment is given. `ChildrenPresent`,
`NoStaleChildren` and `StatusAgrees` are meant without the conditions on failures,
labels and selectors. Lines are of `globalboost_controller.go`.

| Property | Instance | What happens | Contradicts |
|---|---|---|---|
| `ChildrenPresent` | `{"create", "relabel", "fail"}`, e 2, `MaxFaults = 1` | A child whose creation failed is not tried again if the status is unchanged (137). | README.md:274-275 |
| `NoStaleChildren` | `{"create", "relabel"}`, e 2 | A child whose event arrives after its namespace lost the label is never removed (442). | README.md:274-275 |
| `StatusAgrees` | `{"create", "relabel"}`, e 2 | The status lists that child's namespace no more, although the child is there (353). | comment, `globalstartupcpuboost_types.go:63-64` |
| `ChildrenGone` | `{"create", "delete"}`, e 2 | A child the cache did not know when its global boost was deleted is left behind (315). | README.md:276-277 |
| `StaleUnselected` | `{"create"}`, e 1 | Cleanup deletes a child in a namespace that matches, because creating it again failed with "already exists" (298). | comment, line 278 |
| `SkippedForUsers` | `Globals = {g1, g2}`, `{"create"}`, e 2 | A namespace is reported as skipped for user-created boosts although it only has the child of another global boost (187). | comment, `globalstartupcpuboost_types.go:67-68` |
| `OwnBoostsKept` | `UserNames = {g1}`, `{"create", "own", "disown", "relabel"}`, e 4 | A user's boost created under the name of a listed child is deleted by name (300). | README.md:271-273 |

`StaleUnselected` also shows that the controller need not come to rest: a child
that is created, found existing, deleted by the cleanup and created again keeps
it busy for as long as the cache lags in the same way.

Five properties of `admission` and `operator` carry a condition. Without it TLC
reports them violated:

- `QosKept` is about pods whose CPU limits come with a CPU request. A container
  with a CPU limit and a CPU request of zero passes the comparison of classes,
  and then its limit is removed (`podcpuboost_webhook.go:98-110`): with no other
  resources the pod becomes BestEffort, and the API server refuses to resize it
  back.
- `RequestsWithinLimits` is about `REMOVE_LIMITS=true` and pods without resources
  of their own. Otherwise a fixed target for the request alone can exceed the
  limit that stays, and the API server refuses the pod.
- `AcceptedPoliciesMap` says that only the selector of an accepted boost can fail
  to be mapped. It can: `validate` does not parse it, as `validateGlobal` does,
  and `Create` then registers a nil boost, which panics
  (`boost_controller.go:137`). An update to such a selector is refused by the
  running process and ends the next one when it starts.
- `BoostsEnd` is about durations that fit into 64 bits. A larger value becomes
  a duration that may be zero or negative, and the pod is reverted at the first
  check (`startupcpuboost.go:394`).
- `RolloutCompletes` is about rollouts in which not both revisions elect a leader.
  If both do, the new replica is ready only once its boost manager runs, which
  needs the lease, and the old one keeps the lease until the new one is ready
  (`main.go:210`): the rollout is stuck until the old replica goes for another
  reason. The shipped manifests and the chart configure this
  (`config/default/manager_config_patch.yaml:33`,
  `config/manager/manager.yaml:31` and `:73`); README.md:290 documents the default
  as false. TLC finds it with the first of `SmallRollouts` and `MaxFaults = 0`.

`GatesRespected` is about one setting because most malformed settings go unnoticed:
a loader without an error of its own drops those before it
(`env_provider.go:85`), so only an error of the last one, `VALIDATE_FEATURE_ENABLED`,
stops the start. A malformed `REMOVE_LIMITS` loads as false although its default is
true. `MGR_CHECK_INTERVAL` is loaded and not used: the ticker of the manager has a
constant interval. If the feature gates cannot be read the process goes on as if
`PodLevelResources` were off.

## 4. Proofs

`BoostManagerProofs` proves, for any finite sets of pods and boosts, any
specifications and any bounds (assumptions `NoneAssumption`,
`ClusterAssumption`, `ManagerAssumption`):

- `TypeCorrect`: `Spec => []TypeOK`. The types alone are not inductive: a step
  dereferences pointers, so `PointersOK` is part of `TypeOK`. Besides the range of
  each pointer it needs that an idle handler has nothing left to do, that its
  remaining orphans are still orphans, and that the handler reverts one pod at a
  time, which is why returning from one reversion cannot leave another without
  its handler. The invariant is cut into six parts (`ApiOK`, `BoostApiOK`,
  `HeapOK`, `RegistryOK`, `ThreadsOK`, `CountersOK`), and each action has a lemma
  saying that it keeps them.
- `TimedBoostsCorrect`: `Spec => []TimedBoostsRegistered`. The invariant is
  inductive with `TypeOK`. The argument is that pods, workers and reversions
  never change the registry nor a boost's policies (`RegistryKept`), and each
  boost event changes both registries together.
- `RegistryCorrect`: `Spec => []RegistryAgrees`. The property speaks of the moment
  when no event waits. The strengthening `RegistryInv` speaks of every state: for
  each boost the events that wait lead from what the registry has to what the API
  server has (`Leads`): the first one creates the boost iff it is not registered,
  each later one creates it iff the one before deleted it, and the last one leaves
  what exists; the gauge counts the registered boosts. So no handler ever takes
  its early return, which is what keeps the gauge right. Two lemmas about
  sequences (`LeadsAppend`, `LeadsTail`) carry the argument for writes and for
  handlers; a restart needs that an order of the existing boosts repeats none.
- `LegacyUnlabelledCorrect`: in legacy mode, `Spec => []UnlabelledPodsRestored`.
  The strengthening `SingleRequest` says that no reversion is at its second
  request; the only request left restores resources and label at once. In the
  other mode the property is false, as `resize_retry` shows.
- `OrphansCorrect`: `Spec => []OrphansUnmatched`. The property speaks of the moment
  when no handler works. `OrphansInv` speaks of every state: an orphan that a
  registered boost selects is one that the handler of this boost has yet to come
  to. It needs that orphans are only made where no boost matches, and that the
  registry does not change while a handler works.
- `StatusCorrect`: `Spec => []StatusReported`. The strengthening `StatusLed` says that
  the status of a boost is what `Reconcile` would write, or something is left that
  leads to a reconcile: the boost is queued, an event of it waits, or a time check
  has it among the boosts to reconcile at its end (`Reported`). `LoopsQueued` is
  needed for reversions: the boost that a handler's loops work for is in the queue
  meanwhile, and a worker reverts only during a time check, so whoever changes the
  statistics also leaves a reconcile behind.
- `NoEarlyRevertCorrect`: `Spec => NoEarlyRevert` in legacy mode, and otherwise if no
  pod name is used again and no boost waits for a condition. `Justified` says that
  each reversion that has yet to restore resources has a reason in the object it
  points to: its duration has elapsed, or it is ready. `Undisturbed` says why the
  request then meets that very pod. In legacy mode the API server compares the
  version. The patches of the other mode carry the name only, so names must not be
  used again (`OneUid`), and the answer of one patch is decoded into the object
  another reversion may point to, which may take the ready condition from it. With
  a name used twice the property is false, see section 3; with condition policies
  and names used once it is model-checked in `faults_restart` and `two_boosts`.

`GlobalBoostProofs`, for any global boosts, namespaces, edits, faults and restarts
(`GlobalAssumption`):

- `GlobalTypes`: `Spec => []GlobalTypeOK`.
- `ChildrenArePresent`: `Spec => []ChildrenPresent`. The property speaks of rest.
  `ChildrenDue` speaks of every state: as long as no request has failed, a child
  that is due, and missing or made from an old template, is not forgotten. Its
  global boost is queued, or an event that will queue it is on its way, or the
  worker still has the namespace before it with the current specification. This
  needs `Follow`: what a cache has, with the events on their way to it, leads to
  what the API server has.

`AdmissionProofs`, for any pods, any boosts and any number of events.
`AdmissionAssumption` and `BoostAssumption` state what the API server enforces before
the webhooks are asked (container names differ, requests are within limits,
percentages and durations are positive numbers) and the arithmetic of the word size.

- `RevertRestoresCorrect`: `Spec => []RevertRestores`, and
  `BoostedPodsLabelledCorrect`: `Spec => []BoostedPodsLabelled`. The strengthening
  `AdmissionInv` says that each container can be restored one by one, that those
  the loop has not reached are as they were submitted and are not in the
  annotation, and that a pod without the label has an empty annotation. That
  container names differ is needed: a second container of the same name would
  overwrite the entry of the first.

- `AdmissionTypes`, `AcceptedPoliciesMapCorrect` and `BoostsEndCorrect`: `Spec =>` the
  always of `AdmissionTypeOK`, `AcceptedPoliciesMap` and `BoostsEnd`. `ObjectsInv` says that
  every boost object was made from an accepted specification, and a crash came from
  an accepted one that cannot be mapped.
- `NothingLoweredCorrect`: `Spec => []NothingLowered`. `RaisedInv` says so for each
  container, including that its lists stay lists of quantities; rounding up to
  hundredths of a core never goes below, nor does a fixed target.
- `QosKeptCorrect` and `RequestsWithinLimitsCorrect`: `Spec => []QosKept` and
  `Spec => []RequestsWithinLimits`. The two are one invariant, `QosInv`. The webhook
  compares classes before it removes the limit, so it is not its check alone that
  keeps the class: a limit is removed only from a pod that is not Guaranteed; the
  container keeps a request, so the pod does not become BestEffort; and to see that
  it does not become Guaranteed either, the sums over all containers have to be
  compared. That a request stays within a limit in turn needs the class: a limit
  stays only in a Guaranteed pod, where the sums of requests and limits are equal,
  and so are those of each container since none exceeds its limit. Sums are folds
  over sets of containers; what they compute is proved by induction, taking the least
  size of a set for which a fact about the sum fails (`LeastNatural`).

`OperatorProofs`, for a time check on its own, with any boosts, tasks and workers and
any capacity of the channels (`PipelineAssumption`):

- `NoSendOnClosedCorrect`: `PipelineSpec => []NoSendOnClosed`.
- `TimeCheckImplemented`: `PipelineSpec => ImplementsTimeCheck`, that is, under the
  mapping of `Check` every step of the goroutines is a step of `TimeCheck` or
  changes nothing it can see. Asking a boost is `Find`, a worker's reversion is
  `Revert`, the end of the collection is `Collect`; sends, receives and closes are
  stutters. The invariant `PipelineInv` is needed for three of them: a task is in
  one place only (`OnePlace`), so none is reverted twice; results are closed only
  when all workers are done (`Closing`), so `Collect` comes after the last
  reversion; and each boost with a success is with the caller, in the channel or
  in a worker's hands (`OnTheWay`), so what is collected is exactly those boosts.

and for the whole process, with any rollouts as well (`StartUpAssumption`: a variable
is true, false or malformed):

- `OperatorImplementsTimeCheck`: `Spec => ImplementsTimeCheck`. A step of the process
  is a step of the pipeline or leaves it alone, so the theorem above applies.
  `OperatorSendsOpen`: `Spec => []NoSendOnClosed`, likewise.
- `NoReconcileLostCorrect`: `Spec => []NoReconcileLost`. The strengthening
  `HasReconciler` says that a check has tasks only after the reconciler was set.
- `OneActiveCorrect`: `Spec => []OneActive`. An electing boost manager runs only
  with the lease, which the old replica keeps while it is there.
- `GatesRespectedCorrect`: `Spec => []GatesRespected`. The invariant `Validated` says at
  which points of the start the gates are known and have been compared. It rests on
  two facts about recursion over lists: an error of the last loader is never dropped
  (`LastErrorKept`), and the search through the samples finds a gate at any stage
  (`GateEnabled`).

Only model-checked:

- the liveness properties `EventuallyRestored`, `ConditionRestored`,
  `DeletionFinishes`, `CheckEnds` and `RolloutCompletes`: fairness and `ENABLED` are
  out of the prover's reach;
- `NoPodLeftBehind` and `ActiveWithinTotal`: they hold in the instances of their runs
  and not for all constants (the first fails with two overlapping boosts, see
  `PROJECT.json`), so there is no theorem of the same generality to prove;
- `NoStaleChildren` and `StatusAgrees`, which are about one namespace and one
  environment: they say nothing where labels or selectors change, and a proof
  would have to rule out every other way in which a child becomes stale, such as a
  user's boost that comes and goes while another is being deleted;
- `NoEarlyRevert` with condition policies outside legacy mode, and
  `UnlabelledPodsRestored` there without faults of the resize request.

## 5. Not modelled

- `validateGlobal`: it calls the two validations of `Admission` and parses two
  selectors.
- A list request of `syncBoostPods` that fails, and several namespaces in
  `BoostManager`; the fields keyed by namespace are independent of each other.
- The choice of the revert mode from the server version: `LegacyRevertMode` is a
  constant, and both values are checked.
- A leader that has lost the lease but still runs, and what the Go memory model
  says about the unsynchronised write of the reconciler.
- Torn reads of the two statistics of a boost.
- Reads from a cache that fail and selectors that do not parse, in `GlobalBoost`.
- Malformed annotations: only the webhook writes the annotation.
- Registration with Prometheus.
- Addresses, ports, TLS, logging, generated code and mocks.
