# Verification of the YuniKorn Kubernetes shim

TLA+ models of `src/pkg`, the shim that connects the YuniKorn scheduler core to
Kubernetes; TLC runs on small instances; TLAPS proofs of what holds for
instances of any size. `PROJECT.json` lists components, runs, mutants, the map
from definitions to source lines, findings, hazards and theorems.

## 1. The system

The shim watches pods and nodes through informers, presents them to the core as
applications, asks, allocations and nodes, and carries out what the core decides
by binding and deleting pods. The parts and the state they own:

| Part | State | Operations | Talks to |
|---|---|---|---|
| Scheduler cache (`cache/external`) | nodes, pods, assigned, assumed and orphaned pods, claim counts, derived node lists | Update/Remove Pod and Node, AssumePod, ForgetPod | called by Context and callbacks, one RWMutex |
| Dispatcher (`dispatcher`) | event channel, handlers, running flag, stop channel, async count | Dispatch, async send, loop, Start, Stop | every other part |
| Task (`task.go`, `task_state.go`) | state machine, pod, node, allocation key | events of the state machine, bind goroutine, rollback | core, API server, cache |
| Application (`application.go`, `application_state.go`) | state machine, task map, releaseable tasks | submit, reserve, resume, run, fail, schedule | core, tasks, placeholder manager |
| Placeholder manager | orphan pods | create, clean up, retry loop | API server, application |
| Context (`context.go`) | applications, config maps, `ctx.lock` | informer handlers, start-up, registration of nodes | all |
| Core callbacks (`scheduler_callback.go`) | none | UpdateAllocation, UpdateApplication, UpdateNode | called by the core |
| Shim life cycle (`shim/scheduler.go`) | none of its own | Run, Stop, scheduling pass | context, dispatcher |
| Configuration (`conf`, `client/bootstrap.go`, handlers in `context.go` and `am_conf.go`) | two config maps as each process holds them, settings in force | bootstrap, register, reload, review of a change | API server, core, both processes |
| Resource arithmetic (`common/resource.go`) | none | size of a pod | tasks |
| Admission controller (`admission`) | configuration, namespace and priority class caches | reviews of pods, pod updates, workloads and config maps | API server |
| Webhook manager (`webhook_manager.go`, `pki`, `cmd/admissioncontroller`) | CA certificates in a secret, two webhook configurations, the server certificate of each replica | load, renew, save, install, restart the server | API server, other replicas |
| Predicate manager, API clients, logging | see section 8 | | |

What is hard here is that none of these parts sees the others' steps: informers
(one goroutine per kind of object), the dispatcher loop, the core's callbacks,
the scheduling interval and one goroutine per bind run at the same time. Locks
are given up in the middle of operations (registration of nodes, completion of a
task), some operations run without the lock that would protect them
(`finalizeNodes`, removal of an application by the dispatcher), API calls fail or
lose their replies, and after a restart everything is rebuilt from the API
server. Replicas of the admission controller are coordinated by nothing but the
API server's refusal of outdated writes. `hazards` in `PROJECT.json` lists these places line by line.

## 2. Modules

| Module | Models | Actors |
|---|---|---|
| `SchedulerCache` | the scheduler cache, every call a step | callers in any order |
| `SchedulerCacheProofs` | theorems about it | |
| `Dispatcher` | channel, async senders, loop, handlers, Start/Stop | callers, senders, loop, controller |
| `DispatcherProofs` | theorems about it | |
| `EventBus` | abstract specification of the dispatcher: events are accepted, in flight, taken once, or dropped | |
| `TaskLifecycle` | one pod and its task | informer, scheduling pass, dispatcher, callback, bind goroutines, core, API server |
| `Application` | one application with regular pods and placeholders | informer, dispatcher, reserver, cleaners, scheduling pass, callback, core |
| `ContextNodes` | nodes and foreign pods, start-up | `InitializeState`, node informer, pod informer, dispatcher, core |
| `NodesTypeProofs`, `NodesAgreeProofs`, `NodesProofs` | theorems about it: the first two hold the steps of its invariants | |
| `TaskLocks` | the locks of one task, its application, the context and the task's state machine, as the goroutines take them | dispatcher, informer, scheduling pass, bind goroutine, callback |
| `PodResources` | the size of a pod | kubelet that starts and resizes containers, user |
| `WebhookManager` | certificates and webhooks | any number of replicas, API server, administrator, clock |
| `WebhookProofs` | theorems about it | |
| `ConfigMaps` | how two config maps reach shim, core and admission controller | the two processes, informers, users |
| `ConfigProofs` | theorems about it | |
| `Admission` | reviews | submitters, workload controllers, reviews in steps, informers of the caches, reloads |
| `AdmissionProofs` | theorems about it | |
| `GoValues` | values the modules share | |
| `MCMachines` | one instance of `SchedulerCache`, `PodResources`, `WebhookManager`, `ConfigMaps` and `Admission`, which share no state | |
| other `MC*` | instances for TLC | |

Names follow the source: an action has the name of its function, and where a
function gives up a lock or waits it is several actions. Each module's header
says what it leaves out. An operator marked as a mutant, or placed before the
definition it varies, is used by no specification; it is a plausible slip in the
code that the property named in `PROJECT.json` detects.

The modules share no variables: each models its own component in full and the
neighbours as far as it meets them. `Dispatcher` implements `EventBus`
(`ImplementsEventBus`); the other modules use the dispatcher as a FIFO queue,
which `DirectInOrder` shows it to be while the channel has room, and *only* then.

Correspondence of state:

* `SchedulerCache`: `nodesMap`, `podsMap`, `assignedPods`, `assumedPods`,
  `orphanedPods`, `pvcRefCounts` and the three derived lists. A pod is reduced to
  node name, phase and whether it mounts a claim or has affinity.
* `Dispatcher`: `eventChan`, `running`, `stopChan` (numbered, `closed` holds the
  closed ones), `asyncDispatchCount`, and a program counter for each caller,
  sender and loop. `outcome`, `sent`, `direct` and `handled` are history.
* `TaskLifecycle`: `task.sm`, `task.pod`, `task.nodeName`, `task.allocationKey`,
  membership in `taskMap`, the cache entry, `task.lock` where it is held across
  API calls, and the queues to and from the core. `hook` says where the
  dispatcher is in a transition whose hook gives `task.lock` up
  (`shouldAppRelease`): in the window, in the window with the task removed
  meanwhile, or hung.
* `Application`: `app.sm`, a state per task, `releaseableTasks`, `orphanPods`, and
  the counters of `createAppPlaceholders`. `conf` fixes gang size, style,
  recovered pods, and the faults and user actions (deletion, resize) of a
  behaviour.
* `ContextNodes`: informer queues and stores (a lister reads `apiNode`, `apiPod`),
  nodes and foreign pods in the cache, `pendingNodes` and `acceptedNodes` of the
  registration in progress, `ctx.lock` where it is held across steps.
* `TaskLocks`: each goroutine is the sequence of lock operations of its function,
  with the calls it makes unfolded; locks are Go's `RWMutex`, in which a waiting
  writer stops new readers, and the two mutexes of `looplab/fsm`. `Case` selects
  the state of the task and so the functions that can meet.
* `PodResources`: one resource of one pod; a container has its request in the spec
  and the two values of its status.
* `WebhookManager`: time is in months; a certificate is its expiry date, a CA
  bundle a pair of them. `read` says whether the object a replica read before its
  write is still current, which is what the resource version tells the API server.
  `overruns` counts months that begin during an update, `edits` the changes by an
  administrator.
* `ConfigMaps`: a boolean setting that can be reloaded (the reload switch
  itself), one that needs a restart (the policy group), and the queue
  configuration per group; `held` is what a process keeps, `known` what its
  handlers were told last, `missed` the deletions they were never told of.
* `Admission`: the request under review with the patch made so far, and what was
  admitted before it. `vouched` records that the user info was under the
  controller's eyes at every stage; it is history. An update changes annotations
  and labels of the pod together, and `processPodUpdate` goes by the labels the
  pod has afterwards.

## 3. Runs that pass

| Run | Shows | Bounds and why they are enough |
|---|---|---|
| `machines` | five machines, see below | below |
| `dispatcher` | events are neither lost nor doubled, one loop, Stop quiesces, direct events stay in order, `EventBus` is implemented, events settle, a closed stop channel ends the loop | 3 events, capacity 1: the channel fills, a handler on the loop fills it itself, the sender overtakes, checks again once, and hits its limit, a second Start meets the first loop |
| `task` | one bind goroutine at a time; core, cache and task agree when nothing is in flight; nothing is leaked or forgotten; release in the end, unless the dispatcher hangs | 2 nodes, 2 allocations (a rollback and a new allocation elsewhere), 1 update; regular and placeholder, and a regular pod with a lost bind reply, a failing assumption of a bound pod, or a resize |
| `app` | gang barrier, number of placeholders, no leak, deferred releases are replayed, a soft reservation is always decided | 1 regular pod, 2 placeholders; soft with creations that fail, hard with all faults, restart of a gang that has one placeholder, with faults or with a user who deletes pods, and soft with one resize of the regular pod |
| `nodes` | cache and core agree on nodes and cordons, running foreign pods are accounted, and before the core schedules on their node, nodes converge | 1 node, 1 pod, 3 changes: enough for delete and re-create, or cordon, with a rejection or a pod event in the middle |

The `machines` run explores, one per behaviour, up to a permutation of replicas
and of nodes, none of which is named anywhere:

* the scheduler cache: maps, counts and lists agree after any calls
  (`IndexesAgree`, `ClaimsCounted`, `ListsFresh`), assignments are justified,
  deleted pods are gone, an assumption is not erased by a late update. 2 pods, 2
  nodes: a pod can move, be orphaned and be adopted while another shares its node;
  the state space is closed;
* pod sizes: the ask covers what runs at any moment of any start and through two
  resizes, and is no larger than the peak without them (`SizeIsPeak`). Up to two
  init containers and two containers, of two sizes, each a sidecar or not: every
  order of a sidecar and another init container;
* webhooks: a server is trusted while it serves (`ServingTrusted`), attempts
  suffice (`RetriesSuffice`). 2 replicas, lengths 6, 3, 2 and 1 in place of 12, 6, 3
  and 1 months, 7 months, one overrun or edit: enough for the first renewal of
  each slot with the other replica at any point of its own update. Both are proved
  for all values;
* config maps: processes that are up to date work with the maps there are
  (`Converges`), reviewed changes leave queues that a shim can load when it starts
  (`RestartLoads`; of the queues only, see section 5),
  what needs a restart is kept (`KeptUntilRestart`). Two groups, contents that
  switch reloads off, are malformed, select another group or override by a
  compressed entry; two changes, placed anywhere in the start of either process. All three are
  proved for all values;
* reviews: a pod runs for its submitter (`HonestUser`), patches do not undo each
  other (`PatchesAddUp`), replica sets are recognised (`NoReplicaSetLoop`). One
  workload, one change of configuration, namespace or class, between or within
  reviews; priority classes that forbid preemption or are not there (one that
  allows it reads like none). An update sets the user info or not, and leaves the
  labels, makes the pod one of YuniKorn, or takes away every label a review looks
  at. The controller is a system user of every configuration; a reload that takes
  it off the list of `systemUsers` is not explored.

Rare faults are switched per behaviour. In `TaskLifecycle` the properties say in
their first conjunct which of them they tolerate: `OneBinder`, `NothingLeaked` and
`GoneIsReleased` all but a resize, `CoreKnowsNode`, `AssumptionsBacked` and
`NotForgotten` none. In `Application`, `GangBarrier` and the second half of
`NothingLeaked` leave out a resize, `ReservationSettles` every fault but a failing
creation. The faults they leave out do break them, some only with more
allocations than the run has (section 5).

Liveness holds up to the deadlock of `task_locks`. `GoneIsReleased` says so: it has
the window of `shouldAppRelease` and ends in a release or a hung dispatcher.
`ReservationSettles` and `NodesConverge` use a dispatcher that comes back from every
handler.

Deadlock is checked in `machines`. It is not where the system may stop: when
pods are gone and the bounded changes are used up nothing is left to do. That
nobody waits for ever is checked by the liveness properties instead.

## 4. Fairness

Weak fairness of each goroutine that is ready: informers, dispatcher, callbacks,
bind goroutines, reserver, scheduling interval, and the core working through its
requests. The Go scheduler and the core's event loops give that. Nothing is
assumed of users, the API server's changes or failures, except that kubelets
keep sending heartbeats (`ContextNodes`). No strong fairness is used: in
`ContextNodes` `ctx.lock` is held across steps only while pods are adopted, which
happens finitely often for finitely many changes.

## 5. Runs that find a disagreement

Each checks one statement of a comment in the code against what the code does;
`findings` quotes the comment.

* `cache_bound`: a pod the API server has bound is still marked assumed while it
  is Pending, and `RemoveNode` or `ForgetPod` then treats it as never bound.
* `task_completed`: a Completed task is moved back to Scheduling by a bind that
  fails late, or to Bound by the callback's fix-up.
* `app_restart`: recovered tasks are New, so a running gang application reserves
  again after a restart.
* `app_resume`: one event decides the end of Resuming, and a placeholder that is
  added or moved back after it leaves the application there for ever.
* `nodes_finalize`: `finalizeNodes` works on a stale list without `ctx.lock`; a
  node that comes back meanwhile stays in the cache and is lost to the core. The
  `nodes` run is the same model with `Recreates = FALSE`.
* `config_tombstone`: a config map deleted while the watch was down reaches
  `deleteConfigMaps` as a `DeletedFinalStateUnknown`, is converted to nil and
  dereferenced: the scheduler panics where it should reload.
* `task_locks`: completing a task gives up `task.lock` inside a transition of its
  state machine. The scheduling pass (task New), a failing bind (Allocated) or
  the callback that marks a recovered task as bound (Recovered) can then wait for
  the dispatcher, which waits for it. Each case deadlocks by itself. With
  `task.lock` kept, the first two are gone; in the third a writer of the state
  queues between two nested read locks of the transition, so that it remains.

Met while modelling, most with a TLC trace at the time, and not kept as runs:

* Events of one caller overtake each other through an async sender
  (`dispatcher.go:138` says they are dispatched in order); `DirectInOrder` is what
  remains true.
* After a lost bind reply the pod can be allocated again elsewhere, and
  `MarkPreviouslyAllocated` records the node of the new allocation.
* A resize sends an ask for a task that is still New; allocated early, its
  `TaskAllocated` event is refused and the later ask changes nothing, so the pod
  is never bound. If the core rejects the early ask, the rejection can reach the
  task after the core accepted the later one; the pod is then deleted, the task is
  Rejected and no longer released, and the later ask stays in the core. Each
  resize is another ask, so that an allocation can arrive while the last one is
  still being bound.
* The ask of a resize is sent in any state of the application as well: while it
  is reserving its gang the core gets to know a regular pod (`context.go:358`), and
  the ask for a task that has failed is taken back by nobody.
* `processPodUpdate` looks at the labels after the update. One that makes the pod a
  pod of YuniKorn, or takes it out of the labels a review looks for, may change
  the user info with it; `HonestUser` speaks of pods without such an update.
* The dispatcher removes an application without `ctx.lock` between the informer's
  look-up and `addTask`: a live pod without a task.
* `cleanUp` misses placeholders that are still on their way through the informer.
* `RunApplication` and a release lead from Reserving to Running with placeholders
  missing; a pod deleted while Accepted makes the reservation be skipped.
* A foreign pod that ends while the node informer waits for the core's answer is
  adopted afterwards and accounted for ever.
* `addNodesWithoutRegistering` enables nodes before their pods are registered,
  against the comment at `context.go:1421`; the later `enableNodes` is redundant.
* `deletePriorityClass` and the caches of the admission controller
  (`namespace_cache.go:135`, `priority_class_cache.go:106`, `am_conf.go:246`)
  ignore a tombstone, and keep what was deleted.
* A config map deleted between a Get of the start-up and the registration of the
  handlers leaves no event; the process keeps it until the next change
  (`missed`).
* `setConfigMap` keeps a map whose values were refused. Reloads that are switched
  off cannot be switched on again without a restart. One malformed value makes
  the scheduler refuse a whole update, while the admission controller takes the
  default for that key only, so that the two can run with different settings.
* The review of a config map validates the queues only. A malformed value of
  another setting passes it and stops the shim in its next bootstrap.
* The admission controller validates the queues of the group that a restart would
  select; those of the group in force are not validated, and an update of them
  that the core refuses is only logged.
* A month that begins while a replica is between load and server start (an update
  of seconds at the very moment a certificate falls due) can leave it with a CA
  that is no longer in the bundle until its next renewal; `ServingTrusted`
  excludes such overruns. A pair that has lost its stagger, because both
  certificates were renewed close together after a long downtime, is excluded too.
* After an infeasible resize the size is the actual value, also when a larger
  allocation is still to be applied to a container; the ask then grows only with
  the actuation.

## 6. Proofs

`SchedulerCacheProofs` proves, for any sets of pods, nodes and claims, every
property of the scheduler cache in the `machines` run:

* `TypeCorrect`, `CacheConsistent`: `TypeOK /\ IndexesAgree` is inductive. All
  operations go through `updatePod`, so the proof rests on one lemma
  (`UpdatePodAgrees`): it takes any *detachable* entry, one counted exactly where
  it is assigned, to a consistent one. Detachable is weaker than consistent
  because `UpdateNode` adopts orphans of a node that has just been added.
* `ClaimCountsExact`, `NodeListsFresh`: the counts and lists are touched on every
  path that changes what they are derived from (`StepCounts`).
* `AssignmentsJustified`, `DeletedPodsStayDeleted`: by their own step lemmas from
  `IndexesAgree`.
* `AssumedPodsKeepNode`, the action property: an assumed pod that the informer has
  not placed is assigned (from `AssignmentJustified` and `Delivered`, the cache
  knows no pod the informer has not delivered), so `updatePod` finds a node to keep.

`DispatcherProofs` proves, for any number of events, callers and starts, any
capacity and any limit, that one event loop is active at a time
(`OneLoopAlways`) and that a Stop that saw the loop end leaves nothing running
(`StopIsQuiet`), and that the types hold (`DispatcherTyped`). None is inductive
alone. `InHands` says who holds an event, and `LoopInv` what links the stop
channels to the loops: loops above `stopChan` are unborn, an active loop belongs to the
current stop channel, `running` is only true while it is active, and between
spawning a loop and `setRunning(true)` its channel is open.

It also proves that no event is lost or doubled (`NothingLostOrDoubled`) and that
the dispatcher implements `EventBus` (`DispatcherIsBus`). `PlaceInv`, the
statement of `EventsConserved` with the finiteness of the async senders, is
inductive once the types are known: each action takes an event out of one place
and puts it into the next, and a lemma per place (`CallGiven`, `ChanSent`,
`AsyncBegun`, `LoopTakes`, ...) says what becomes of that place. The refinement
maps the bus's hand to the event of the active loop; `OneLoop` makes that event
unique (`HandIs`). Events that go straight into the channel keep the order of their
caller (`DirectAlwaysInOrder`).

`NodesProofs`, with `NodesTypeProofs` and `NodesAgreeProofs`, proves for any finite
cluster and any number of changes and rejections that the types hold
(`NodesTypeSafety`) and, provided no node comes back while `finalizeNodes` works
through its list (`~Recreates`; section 5 shows what happens otherwise), that cache
and core agree on the nodes (`NodesAlwaysAgree`) and that running foreign pods are
accounted (`LivePodsAlwaysAccounted`). Both speak of states with nothing in
flight; their invariants say what is in flight otherwise, by what the queues hold
and in which order:

* `Sound`: types, and a pod is an orphan exactly while the cache lacks its node;
* `Told`: a registration has one request and one answer (`RegInv`), and a node that
  only one of cache and core has is about to be dropped there, because its deletion
  is in the informer's queue, its registration was rejected, or the core's
  decommission is under way (`NodeOK`);
* `AccountInv`: the cache hears of every running pod, and one it has on a node is
  about to be adopted, or the core is told of it after the node, or has it, unless
  the node is going (`Counting`).

`AdmissionProofs` proves, for any submissions, users, configurations and
namespaces, and any changes of them between the steps of a review, that patches add
up (`PatchesAddUpAlways`), and, where the system users are the controllers' accounts
(`SystemUsersAreControllers`, the default), that pods run for an honest user
(`HonestUserAlways`) and no replica set is created twice (`NoReplicaSetLoopEver`).
`PatchInv` adds what the patch under way holds at each stage of `processPod`.
`ReviewInv` follows who vouches for a template from the deployment over its replica
set to the pod, which is the copy of it that a controller submits.

`WebhookProofs` proves `ServingTrusted` (`ServersStayTrusted`) and
`RetriesSuffice` (`ConflictsCostOneAttempt`) for any number of replicas and
attempts, and any lengths with `0 < RenewLead < Cutoff` and
`Cutoff + Stagger <= Lifetime`. The inductive invariant `WebhookInv` speaks of one
month, that is of runs without overruns:

* a draft that can still be saved is the renewal of the secret as it is, and the
  secret needs it; so nobody who is installing webhooks, for whom the secret is
  valid, sees it change under them (`SaveStep`);
* who installs works with the pair in the secret, so a webhook that is overwritten
  by another replica is overwritten by the same bundle (`WriteStep`);
* a certificate in use is before its renewal time, so the later certificate of a
  staggered pair is beyond the cut-off (`BestOutlives`) and a renewal keeps it
  (`RenewedPair`);
* a refused write means that the object is in order by now, or that an edit came
  in between (`RetryInv`).

`ConfigProofs` proves, for any contents of the two maps, any policy groups and any
number of changes and restarts, that processes converge (`ProcessesConverge`),
that reviewed maps can be loaded (`ReviewedMapsLoad`) and that settings are kept
(`SettingsKept`). `Converges` speaks of processes that are up to date only; its
invariant `ConfigInv` speaks of the others too:

* a process holds, of each map, what its handler was told last (`HeldAsTold`), and
  its settings are those of what it holds;
* the core has the queues of the maps the shim holds once the shim was told of
  every map (`CoreFollows`). Before that it need not: the shim reads the maps
  twice while it starts, for its settings and for its registration, and the first
  event about a map it has read repairs the difference (`AddHandlersStep`,
  `NotifyStep`);
* the core's group is the shim's (`ShimInv`), from which `SettingsKept` follows.

Assumptions are the named ASSUMEs of the modules (types of constants, `None` is
none of the values, a value that cannot be parsed is not the empty one); the
passing runs evaluate them. Leaves without arithmetic cite `ZenonT(60)`, because
the translation of the larger ones to SMT takes longer than the prover waits.

Only model-checked: all liveness (fairness and ENABLED are out of the prover's
reach), `AccountedBeforeEnabled` of `ContextNodes`, and the safety of
`TaskLifecycle`, `Application` and `PodResources` (whose folds over containers are
induction over data).

## 7. Abstractions to keep in mind

* The core, the API server, kubelets, the volume binder and Go channels are
  external: modelled from what the code sends and expects. The core rejects a
  node it has, ignores allocations on nodes it does not have, and drops the
  allocations of a decommissioned node.
* Calls of the core's API do not fail; node capacity does not change.
* A state machine event is one step. The exceptions are the events of a task
  whose hook gives up `task.lock`: in `TaskLifecycle` they are two, with every step
  of the others in between, and what another goroutine then does to the state
  machine hangs the dispatcher. `Application` has these events in one step.
  `TaskLocks` has the locks in detail, without the data.
* `ContextNodes` uses the dispatcher as a queue that loses nothing. A `NodeAccepted`
  that is dropped after its async timeout stops the node informer for good, since
  `wg.Wait` (`context.go:1642`) has no timeout.
* The scheduler that reviews a config map is assumed to parse as the core does.
* Reviews of workloads are those of deployments and replica sets; the other kinds
  are extracted in the same way. The texts of the regular expressions are left
  out: a namespace or user matches a list or does not.
* `TaskLifecycle` has one pod, so a response of the core that covers several pods
  is split.
* Quantities are integers without width: `resource.go` adds `int64` values that
  come from Kubernetes quantities, far from its limits.

## 8. Not modelled

| Part | Why |
|---|---|
| Predicate manager | it calls Kubernetes plugins one after the other and keeps no state between calls; the victim search of preemption depends on what the plugins answer for removed pods, that is on Kubernetes code |
| Responses for several pods | `TaskLifecycle` follows one pod; that `UpdateAllocation` drops the rest of a response when an assumption fails (`scheduler_callback.go:85`) needs two |
| Node resources, node capacity changes | reports to the core that change no decision of the shim |
| State dumps, events, pod conditions, the PVC sanity check | nothing in the shim depends on them |
| Events without a sender (`CompleteApplication`, Kill events) | no behaviour of the program contains them |
| Keys, certificates' encodings, HTTP | library code |
| API clients, logging, constants, commands | thin wrappers or no state |
