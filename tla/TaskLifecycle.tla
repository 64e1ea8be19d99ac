---------------------------- MODULE TaskLifecycle ----------------------------
(***************************************************************************)
(* One pod managed by YuniKorn and its Task (pkg/cache/task.go, task_state  *)
(* .go), with everything that races for it: the pod informer (context.go),  *)
(* the scheduling loop, the dispatcher that feeds the task's state machine, *)
(* the core's callbacks (scheduler_callback.go), and the goroutine          *)
(* postTaskAllocated starts to bind the pod.  The core, the API server and  *)
(* the volume binder are external and modelled from what the shim sends and *)
(* expects.                                                                 *)
(*                                                                         *)
(* The application is accepted and running; the event channel has room, so  *)
(* events arrive in order (Dispatcher says when they do not).  A state      *)
(* machine event is one step, but for the before hooks that release the     *)
(* allocation: they give task.lock up inside the transition, and the        *)
(* dispatcher may not come back from there (TaskLocks has the details).     *)
(***************************************************************************)
EXTENDS Integers, Sequences, FiniteSets

CONSTANTS
  Node,
  Cases,         \* the kinds of task and the rare events to consider, [placeholder, faults]:
                 \* "lostReply", a Bind that was applied is reported as failed; "assumeBound",
                 \* AssumePod fails for a bound pod; "resize", the pod's resources change
  MaxAllocs,     \* bound on the allocations the core makes
  MaxUpdates,    \* bound on pod updates that change neither node nor phase
  None

ASSUME TaskAssumption ==
  /\ None \notin Node
  /\ Cases \subseteq [placeholder : BOOLEAN, faults : SUBSET {"lostReply", "assumeBound", "resize"}]
  /\ MaxAllocs \in Nat /\ MaxUpdates \in Nat

VARIABLES
  placeholder,      \* is the task a placeholder; fixed
  faults,           \* the rare events of this behaviour; fixed
  phase, node,      \* the pod in the API server: "pending", "running", "terminated" or "gone"; its node
  updates,          \* updates made so far
  watch,            \* pod events on their way to the informer
  state,            \* task.sm
  podNode,          \* task.pod.Spec.NodeName
  nodeName,         \* task.nodeName
  allocationKey,    \* is task.allocationKey set
  taskMap,          \* is the task in app.taskMap
  cached,           \* the pod in the scheduler cache: None, or its node and if it is assumed
  events,           \* dispatcher: events for this task
  ask, coreNode,    \* the core: "none", "ask" or "alloc"; node of the allocation
  toCore, toShim,   \* requests to and responses from the core
  allocs,           \* allocations the core has made
  callback,         \* progress of the UpdateAllocation callback
  binder,           \* bind goroutines, by the allocation they were started for
  lock,             \* bind goroutine that holds task.lock across API calls, 0 if none
  hook              \* the dispatcher in a before hook that releases: "none"; "unlocked", it has
                    \* given up task.lock; "removed", and the task has left its application
                    \* since; "hung", for ever

podVars  == <<phase, node, updates, watch>>
taskVars == <<state, podNode, nodeName, allocationKey, taskMap>>
coreVars == <<ask, coreNode, toCore, toShim, allocs>>
locks    == <<lock, hook>>
vars == <<podVars, taskVars, cached, events, coreVars, callback, binder, locks>>

Id == 1 .. MaxAllocs
TaskStates == {"New", "Pending", "Scheduling", "Allocated", "Rejected", "Bound", "Failed", "Completed"}
Terminated == {"Rejected", "Failed", "Completed"}
(* The pod object an informer event carries; resized: compared with the     *)
(* previous one, its resources are different.                               *)
Pod(ph, n, resized) == [phase |-> ph, node |-> n, resized |-> resized]
Live(ph) == ph \in {"pending", "running"}
InCache(n, assumed) == [node |-> n, assumed |-> assumed]
Idle == [at |-> "idle", node |-> None]
(* A hung dispatcher, or the goroutine it waits for, keeps task.lock.       *)
Free == lock = 0 /\ hook # "hung"
-----------------------------------------------------------------------------
(* A new pod, or after a restart one that is already bound: the informer's  *)
(* first event creates the task.                                            *)
Init ==
  /\ \E c \in Cases : placeholder = c.placeholder /\ faults = c.faults
  /\ phase \in {"pending", "running"} /\ node \in Node \cup {None} /\ updates = 0
  /\ phase = "running" => node # None
  /\ watch = <<Pod(phase, node, FALSE)>>
  /\ state = "New" /\ podNode = None /\ nodeName = None /\ allocationKey = FALSE
  /\ taskMap = FALSE
  /\ cached = None
  /\ events = <<>>
  /\ ask = "none" /\ coreNode = None /\ toCore = <<>> /\ toShim = <<>> /\ allocs = 0
  /\ callback = Idle
  /\ binder = [i \in Id |-> Idle]
  /\ lock = 0 /\ hook = "none"

(* API server (external): every change of the pod reaches the informer.     *)
PodChange(ph, n, resized) ==
  /\ phase' = ph /\ node' = n
  /\ watch' = Append(watch, Pod(ph, n, resized))
PodRuns ==
  /\ phase = "pending" /\ node # None
  /\ PodChange("running", node, FALSE)
  /\ UNCHANGED <<updates, taskVars, cached, events, coreVars, callback, binder, locks>>
PodTerminates ==
  /\ Live(phase) /\ node # None
  /\ PodChange("terminated", node, FALSE)
  /\ UNCHANGED <<updates, taskVars, cached, events, coreVars, callback, binder, locks>>
PodDeleted ==
  /\ phase # "gone"
  /\ PodChange("gone", node, FALSE)
  /\ UNCHANGED <<updates, taskVars, cached, events, coreVars, callback, binder, locks>>
PodUpdated ==
  /\ Live(phase) /\ updates < MaxUpdates
  /\ updates' = updates + 1
  /\ \E resized \in BOOLEAN : (resized => "resize" \in faults) /\ PodChange(phase, node, resized)
  /\ UNCHANGED <<taskVars, cached, events, coreVars, callback, binder, locks>>

(* The core (external).  A known key is updated, an unknown one becomes an  *)
(* ask, or at once an allocation when the pod already has a node.           *)
CoreReceives ==
  /\ toCore # <<>>
  /\ toCore' = Tail(toCore)
  /\ LET m == Head(toCore) IN
     \/ /\ m.type = "ask" /\ ask = "none" /\ m.node = None
        /\ ask' = "ask"
        /\ UNCHANGED <<coreNode, toShim>>
     \/ /\ m.type = "ask" /\ ask = "none" /\ m.node # None
        /\ ask' = "alloc" /\ coreNode' = m.node
        /\ toShim' = Append(toShim, [type |-> "New", node |-> m.node])
     \/ /\ m.type = "ask" /\ ask = "none"
        /\ toShim' = Append(toShim, [type |-> "Rejected", node |-> None])
        /\ UNCHANGED <<ask, coreNode>>
     \/ /\ m.type = "release" /\ ask # "none"
        /\ ask' = "none" /\ coreNode' = None
        /\ toShim' = IF ask = "alloc" THEN Append(toShim, [type |-> "Released", node |-> None])
                                      ELSE toShim
     \/ /\ m.type = "rollback" /\ ask = "alloc"
        /\ ask' = "ask" /\ coreNode' = None
        /\ UNCHANGED toShim
     \/ /\ \/ m.type = "ask" /\ ask # "none"
           \/ m.type = "release" /\ ask = "none"
           \/ m.type = "rollback" /\ ask # "alloc"
        /\ UNCHANGED <<ask, coreNode, toShim>>
  /\ UNCHANGED <<allocs, podVars, taskVars, cached, events, callback, binder, locks>>
CoreAllocates(n) ==
  /\ ask = "ask" /\ allocs < MaxAllocs
  /\ ask' = "alloc" /\ coreNode' = n /\ allocs' = allocs + 1
  /\ toShim' = Append(toShim, [type |-> "New", node |-> n])
  /\ UNCHANGED <<toCore, podVars, taskVars, cached, events, callback, binder, locks>>
(* At most one preemption is in flight at a time. *)
CorePreempts ==
  /\ ask = "alloc"
  /\ \A i \in DOMAIN toShim : toShim[i].type # "Preempted"
  /\ \A i \in DOMAIN events : events[i].name # "ReleaseAppAllocation"
  /\ toShim' = Append(toShim, [type |-> "Preempted", node |-> None])
  /\ UNCHANGED <<ask, coreNode, toCore, allocs, podVars, taskVars, cached, events, callback, binder, locks>>
-----------------------------------------------------------------------------
Event(name) == [name |-> name, node |-> None]
Request(type, n) == [type |-> type, node |-> n]

(* notifyTaskComplete; a task event for a task that is not in the map is    *)
(* dropped by TaskEventHandler.                                             *)
notifyTaskComplete == events' = Append(events, Event("CompleteTask"))

(* SchedulerCache.UpdatePod and ForgetPod for this pod (all nodes exist).   *)
CacheUpdate(pod) ==
  cached' = IF cached # None /\ cached.assumed /\ pod.node = None
            THEN InCache(cached.node, TRUE)
            ELSE InCache(pod.node, cached # None /\ cached.assumed /\ pod.phase # "running")
(* Mutant: the assumption is kept. *)
KeepAssumption(c) == c
CacheForget(c) == IF c = None THEN None
                  ELSE InCache(IF c.assumed THEN None ELSE c.node, FALSE)

(* SetTaskPod: new resources are sent to the core, whatever the state.      *)
SetTaskPod(pod) ==
  /\ Free
  /\ podNode' = pod.node
  /\ toCore' = IF pod.resized THEN Append(toCore, Request("ask", pod.node)) ELSE toCore

(* Context.UpdatePod for a YuniKorn pod: a terminated pod is treated as a   *)
(* removal, and a live pod without a task gets one.                         *)
UpdatePod ==
  /\ watch # <<>> /\ Head(watch).phase # "gone"
  /\ watch' = Tail(watch)
  /\ LET pod == Head(watch) IN
     /\ IF taskMap
        THEN SetTaskPod(pod) /\ UNCHANGED <<state, nodeName, allocationKey, taskMap>>
        ELSE /\ IF Live(pod.phase)
                THEN /\ taskMap' = TRUE /\ podNode' = pod.node
                     /\ state' = "New" /\ nodeName' = None /\ allocationKey' = FALSE
                ELSE UNCHANGED taskVars
             /\ UNCHANGED toCore
     /\ IF Live(pod.phase)
        THEN CacheUpdate(pod) /\ UNCHANGED events
        ELSE cached' = None /\ notifyTaskComplete
  /\ UNCHANGED <<phase, node, updates, ask, coreNode, toShim, allocs, callback, binder, locks>>

(* Context.DeletePod for a YuniKorn pod. *)
DeletePod ==
  /\ watch # <<>> /\ Head(watch).phase = "gone"
  /\ watch' = Tail(watch)
  /\ notifyTaskComplete
  /\ cached' = None
  /\ UNCHANGED <<phase, node, updates, taskVars, coreVars, callback, binder, locks>>
-----------------------------------------------------------------------------
(* Application.Schedule, in the state that schedules this kind of task:     *)
(* scheduleTasks moves a New task to Pending (nothing happens while the     *)
(* check of its PVCs fails) and postTaskPending dispatches SubmitTask;      *)
(* removeCompletedTasks forgets a terminated one.                           *)
Schedule ==
  /\ taskMap
  /\ \/ /\ state = "New" /\ Free /\ hook # "unlocked"
        /\ state' = "Pending"
        /\ events' = Append(events, Event("SubmitTask"))
        /\ UNCHANGED <<taskMap, hook>>
     \/ /\ state \in Terminated /\ hook # "hung"
        /\ taskMap' = FALSE
        /\ hook' = IF hook = "unlocked" THEN "removed" ELSE hook
        /\ UNCHANGED <<state, events>>
  /\ UNCHANGED <<podNode, nodeName, allocationKey, podVars, cached, coreVars, callback, binder, lock>>
-----------------------------------------------------------------------------
(* Callback UpdateAllocation, one response at a time.                       *)
(* New: getTask and setAllocationKey ...                                    *)
CallbackNew ==
  /\ callback = Idle /\ toShim # <<>> /\ Head(toShim).type = "New"
  /\ toShim' = Tail(toShim)
  /\ IF taskMap THEN /\ Free
                     /\ allocationKey' = TRUE
                     /\ callback' = [at |-> "assume", node |-> Head(toShim).node]
                ELSE UNCHANGED <<allocationKey, callback>>
  /\ UNCHANGED <<ask, coreNode, toCore, allocs, podVars, state, podNode, nodeName, taskMap,
                 cached, events, binder, locks>>
(* ... AssumePod, which is silent about an unknown pod ... *)
AssumePod ==
  /\ callback.at = "assume"
  /\ cached' = IF cached = None THEN None ELSE InCache(callback.node, TRUE)
  /\ callback' = [callback EXCEPT !.at = "assumed"]
  /\ UNCHANGED <<podVars, taskVars, events, coreVars, binder, locks>>
(* ... then the allocation goes to the task, or the task is found to be     *)
(* bound already: SetState(Bound) does not look at the state it replaces.   *)
AssumedPod ==
  /\ callback.at = "assumed" /\ Free
  /\ callback' = Idle
  /\ IF podNode # None
     THEN /\ hook = "none"
          /\ state' = "Bound" /\ nodeName' = callback.node /\ allocationKey' = TRUE
          /\ UNCHANGED events
     ELSE /\ events' = Append(events, [name |-> "TaskAllocated", node |-> callback.node])
          /\ UNCHANGED <<state, nodeName, allocationKey>>
  /\ UNCHANGED <<podNode, taskMap, podVars, cached, coreVars, binder, locks>>
(* Mutant: after the rollback the allocation is handed to the task as well. *)
AssumePodFailsContinues ==
  /\ callback.at = "assume" /\ cached # None /\ Free
  /\ nodeName' = None /\ allocationKey' = FALSE
  /\ callback' = [callback EXCEPT !.at = "rollback"]
  /\ events' = Append(events, [name |-> "TaskAllocated", node |-> callback.node])
  /\ UNCHANGED <<state, podNode, taskMap, podVars, cached, coreVars, binder, locks>>
(* AssumePod fails for good: a placeholder fails, any other task is rolled  *)
(* back by rollbackOnAssumePodFailure.                                      *)
AssumePodFails ==
  /\ callback.at = "assume" /\ cached # None /\ Free
  /\ cached.node = None \/ cached.assumed \/ "assumeBound" \in faults
  /\ IF placeholder
     THEN /\ events' = Append(events, Event("TaskFail"))
          /\ callback' = Idle
          /\ UNCHANGED <<nodeName, allocationKey>>
     ELSE /\ nodeName' = None /\ allocationKey' = FALSE
          /\ callback' = [callback EXCEPT !.at = "rollback"]
          /\ UNCHANGED events
  /\ UNCHANGED <<state, podNode, taskMap, podVars, cached, coreVars, binder, locks>>
(* rollbackAllocation: forget the pod, then tell the core. *)
CallbackRollback ==
  /\ callback.at = "rollback"
  /\ callback' = Idle
  /\ cached' = CacheForget(cached)
  /\ toCore' = Append(toCore, Request("rollback", None))
  /\ UNCHANGED <<ask, coreNode, toShim, allocs, podVars, taskVars, events, binder, locks>>
CallbackRejected ==
  /\ callback = Idle /\ toShim # <<>> /\ Head(toShim).type = "Rejected"
  /\ toShim' = Tail(toShim)
  /\ events' = Append(events, Event("TaskRejected"))
  /\ UNCHANGED <<ask, coreNode, toCore, allocs, podVars, taskVars, cached, callback, binder, locks>>
(* Released: forget the pod; any other type than STOPPED_BY_RM also makes   *)
(* the application delete the pod.                                          *)
CallbackReleased ==
  /\ callback = Idle /\ toShim # <<>> /\ Head(toShim).type \in {"Released", "Preempted"}
  /\ toShim' = Tail(toShim)
  /\ cached' = CacheForget(cached)
  /\ events' = IF Head(toShim).type = "Preempted"
               THEN Append(events, Event("ReleaseAppAllocation")) ELSE events
  /\ UNCHANGED <<ask, coreNode, toCore, allocs, podVars, taskVars, callback, binder, locks>>
-----------------------------------------------------------------------------
(* TaskEventHandler: the event at the head of the channel is dropped when   *)
(* the task is not in the map or its state has no transition for it;        *)
(* canHandle and handle wait for task.lock.                                 *)
Src == [SubmitTask    |-> {"Pending"},
        TaskAllocated |-> {"Scheduling", "Completed"},
        TaskBound     |-> {"Allocated"},
        CompleteTask  |-> TaskStates,
        TaskRejected  |-> {"New", "Pending", "Scheduling"},
        TaskFail      |-> {"New", "Pending", "Scheduling", "Rejected", "Allocated"}]
canHandle(e) == state \in Src[e.name]
Handle(name) ==
  /\ hook = "none" /\ events # <<>> /\ Head(events).name = name
  /\ taskMap /\ Free /\ canHandle(Head(events))
releaseAllocation == toCore' = Append(toCore, Request("release", None))

DropEvent ==
  /\ hook = "none" /\ events # <<>> /\ Head(events).name \in DOMAIN Src
  /\ ~taskMap \/ (Free /\ ~canHandle(Head(events)))
  /\ events' = Tail(events)
  /\ UNCHANGED <<podVars, taskVars, cached, coreVars, callback, binder, locks>>
(* handleSubmitTaskEvent sends the ask. *)
HandleSubmitTask ==
  /\ Handle("SubmitTask")
  /\ events' = Tail(events)
  /\ state' = "Scheduling"
  /\ toCore' = Append(toCore, Request("ask", podNode))
  /\ UNCHANGED <<podNode, nodeName, allocationKey, taskMap, podVars, cached, ask, coreNode, toShim, allocs, callback, binder, locks>>
(* The before hooks of CompleteTask and TaskFail release the allocation, as *)
(* does the one of TaskAllocated, which has stored it first, for a task     *)
(* that is Completed.  releaseAllocation begins with shouldAppRelease,      *)
(* which gives task.lock up to ask the application, and takes it again.     *)
shouldAppRelease ==
  /\ \/ /\ Handle("CompleteTask") \/ Handle("TaskFail")
        /\ UNCHANGED <<nodeName, allocationKey>>
     \/ /\ Handle("TaskAllocated") /\ state = "Completed"
        /\ nodeName' = Head(events).node /\ allocationKey' = TRUE
  /\ hook' = "unlocked"
  /\ UNCHANGED <<state, podNode, taskMap, podVars, cached, events, coreVars, callback, binder, lock>>
(* The end of such a transition: the request is sent and the state changes. *)
AfterRelease(name, dst) ==
  /\ hook \in {"unlocked", "removed"} /\ Head(events).name = name /\ Free
  /\ hook' = "none"
  /\ events' = Tail(events)
  /\ state' = IF hook = "removed" THEN state ELSE dst
  /\ UNCHANGED <<podNode, nodeName, allocationKey, taskMap, podVars, cached, ask, coreNode, toShim, allocs, callback, binder, lock>>
(* The dispatcher hangs in the hook when another goroutine comes for the    *)
(* state machine, which is inside the transition: scheduleTasks and         *)
(* rescheduleOnBindFailure wait for it with task.lock held, and after the   *)
(* SetState of MarkPreviouslyAllocated the hook cannot read the state.      *)
DispatcherHangs ==
  /\ hook \in {"unlocked", "removed"}
  /\ \/ hook = "unlocked" /\ taskMap /\ state = "New" /\ Free
     \/ callback.at = "assumed" /\ podNode # None
     \/ \E i \in Id : binder[i].at = "failed" /\ state # "Scheduling" /\ Free
  /\ hook' = "hung"
  /\ UNCHANGED <<podVars, taskVars, cached, events, coreVars, callback, binder, lock>>

(* beforeTaskAllocated stores the allocation; postTaskAllocated starts the  *)
(* bind goroutine.  For a task that is Completed nothing else happens once  *)
(* the allocation is released.                                              *)
HandleTaskAllocated ==
  \/ /\ Handle("TaskAllocated") /\ state # "Completed"
     /\ events' = Tail(events)
     /\ nodeName' = Head(events).node /\ allocationKey' = TRUE
     /\ state' = "Allocated"
     /\ \E i \in Id :
          /\ binder[i] = Idle /\ \A j \in Id : j < i => binder[j] # Idle
          /\ binder' = [binder EXCEPT ![i] = [at |-> "start", node |-> Head(events).node]]
     /\ UNCHANGED <<podNode, taskMap, podVars, cached, coreVars, callback, locks>>
  \/ AfterRelease("TaskAllocated", "Completed") /\ releaseAllocation
HandleTaskBound ==
  /\ Handle("TaskBound")
  /\ events' = Tail(events)
  /\ state' = "Bound"
  /\ UNCHANGED <<podNode, nodeName, allocationKey, taskMap, podVars, cached, coreVars, callback, binder, locks>>
(* Mutant: only a task that holds an allocation is released, not one that   *)
(* has an ask.                                                              *)
HandleCompleteAllocated ==
  /\ AfterRelease("CompleteTask", "Completed")
  /\ IF allocationKey THEN releaseAllocation ELSE UNCHANGED toCore
HandleCompleteTask == AfterRelease("CompleteTask", "Completed") /\ releaseAllocation
HandleTaskFail == AfterRelease("TaskFail", "Failed") /\ releaseAllocation
HandleTaskRejected ==
  /\ Handle("TaskRejected")
  /\ events' = Append(Tail(events), Event("TaskFail"))
  /\ state' = "Rejected"
  /\ UNCHANGED <<podNode, nodeName, allocationKey, taskMap, podVars, cached, coreVars, callback, binder, locks>>
(* handleReleaseAppAllocationEvent deletes the pod of a task it knows; the  *)
(* API call may fail.                                                       *)
HandleReleaseAppAllocation ==
  /\ hook = "none" /\ events # <<>> /\ Head(events).name = "ReleaseAppAllocation"
  /\ events' = Tail(events)
  /\ \/ taskMap /\ Free /\ phase # "gone" /\ PodChange("gone", node, FALSE)
     \/ (taskMap => Free) /\ UNCHANGED <<phase, node, watch>>
  /\ UNCHANGED <<updates, taskVars, cached, coreVars, callback, binder, locks>>
-----------------------------------------------------------------------------
(* The goroutine of postTaskAllocated holds task.lock while it binds the    *)
(* volumes and the pod, with all retries.                                   *)
SetStateFree == Free /\ (hook = "none" \/ state = "Scheduling")
Binds(i, from, to) ==
  /\ binder[i].at = from
  /\ binder' = [binder EXCEPT ![i].at = to]
BindLock(i) ==
  /\ Binds(i, "start", "binding") /\ Free
  /\ lock' = i
  /\ UNCHANGED <<podVars, taskVars, cached, events, coreVars, callback, hook>>
(* KubeClient.Bind; the API server refuses a pod that is gone or has a node. *)
BindPod(i) ==
  /\ Binds(i, "binding", "bound")
  /\ phase = "pending" /\ node = None
  /\ PodChange("pending", binder[i].node, FALSE)
  /\ UNCHANGED <<updates, taskVars, cached, events, coreVars, callback, locks>>
(* Mutant: task.lock is not released. *)
BindSucceedsLocked(i) ==
  /\ Binds(i, "bound", "done")
  /\ events' = Append(events, Event("TaskBound"))
  /\ UNCHANGED <<podVars, taskVars, cached, coreVars, callback, locks>>
BindSucceeds(i) ==
  /\ Binds(i, "bound", "done")
  /\ events' = Append(events, Event("TaskBound"))
  /\ lock' = 0
  /\ UNCHANGED <<podVars, taskVars, cached, coreVars, callback, hook>>
(* Mutant: task.lock is not released before rescheduleOnBindFailure. *)
BindFailsLocked(i) ==
  /\ Binds(i, "binding", "failed")
  /\ UNCHANGED <<podVars, taskVars, cached, events, coreVars, callback, locks>>
(* The retries are used up: for the volumes, for the pod, or because the    *)
(* reply to a Bind that was applied is lost and its retry finds a conflict. *)
BindFails(i) ==
  /\ \/ Binds(i, "binding", "failed")
     \/ "lostReply" \in faults /\ Binds(i, "bound", "failed")
  /\ lock' = 0
  /\ UNCHANGED <<podVars, taskVars, cached, events, coreVars, callback, hook>>
(* Mutants: the core is told before the rest of the rollback is done; the   *)
(* task stays Allocated.                                                    *)
RescheduleTellsCore(i) ==
  /\ Binds(i, "failed", "rollback") /\ SetStateFree
  /\ state' = "Scheduling" /\ nodeName' = None /\ allocationKey' = FALSE
  /\ toCore' = Append(toCore, Request("rollback", None))
  /\ UNCHANGED <<podNode, taskMap, podVars, cached, events, ask, coreNode, toShim, allocs, callback, locks>>
RescheduleKeepsState(i) ==
  /\ Binds(i, "failed", "rollback") /\ SetStateFree
  /\ nodeName' = None /\ allocationKey' = FALSE
  /\ UNCHANGED <<state, podNode, taskMap, podVars, cached, events, coreVars, callback, locks>>
(* rescheduleOnBindFailure moves the task back to Scheduling ... *)
rescheduleOnBindFailure(i) ==
  /\ Binds(i, "failed", "rollback") /\ SetStateFree
  /\ state' = "Scheduling" /\ nodeName' = None /\ allocationKey' = FALSE
  /\ UNCHANGED <<podNode, taskMap, podVars, cached, events, coreVars, callback, locks>>
(* ... and rollbackAllocation forgets the pod and tells the core. *)
rollbackAllocation(i) ==
  /\ Binds(i, "rollback", "done")
  /\ cached' = CacheForget(cached)
  /\ toCore' = Append(toCore, Request("rollback", None))
  /\ UNCHANGED <<podVars, taskVars, events, ask, coreNode, toShim, allocs, callback, locks>>
-----------------------------------------------------------------------------
ApiStep      == PodRuns \/ PodTerminates \/ PodDeleted \/ PodUpdated
CoreStep     == CoreReceives \/ CorePreempts \/ \E n \in Node : CoreAllocates(n)
InformerStep == UpdatePod \/ DeletePod
CallbackStep == CallbackNew \/ AssumePod \/ AssumedPod \/ AssumePodFails
                \/ CallbackRollback \/ CallbackRejected \/ CallbackReleased
DispatcherStep == DropEvent \/ shouldAppRelease \/ HandleSubmitTask \/ HandleTaskAllocated \/ HandleTaskBound
                  \/ HandleCompleteTask \/ HandleTaskFail \/ HandleTaskRejected
                  \/ HandleReleaseAppAllocation
BinderStep(i) == BindLock(i) \/ BindPod(i) \/ BindSucceeds(i) \/ BindFails(i)
                 \/ rescheduleOnBindFailure(i) \/ rollbackAllocation(i)

Next ==
  \/ ApiStep \/ CoreStep \/ InformerStep \/ CallbackStep \/ DispatcherStep
  \/ Schedule \/ DispatcherHangs
  \/ \E i \in Id : BinderStep(i)
Spec == Init /\ [][Next /\ UNCHANGED <<placeholder, faults>>]_<<vars, placeholder, faults>>

(* Every goroutine that can take a step takes one: the informer, the        *)
(* dispatcher, the callback, the bind goroutines, the scheduling interval,  *)
(* and the core working through its requests and allocating.                *)
Fairness ==
  /\ WF_vars(InformerStep) /\ WF_vars(DispatcherStep) /\ WF_vars(CallbackStep)
  /\ WF_vars(CoreReceives) /\ WF_vars(\E n \in Node : CoreAllocates(n))
  /\ WF_vars(Schedule)
  /\ \A i \in Id : WF_vars(BinderStep(i))
FairSpec == Spec /\ Fairness
-----------------------------------------------------------------------------
Requests  == [type : {"ask", "release", "rollback"}, node : Node \cup {None}]
Responses == [type : {"New", "Rejected", "Released", "Preempted"}, node : Node \cup {None}]

(* Types; the binding goroutines and the locks are consistent: only a       *)
(* goroutine between BindLock and its unlock holds task.lock.               *)
TypeOK ==
  /\ phase \in {"pending", "running", "terminated", "gone"} /\ node \in Node \cup {None} /\ updates \in 0 .. MaxUpdates
  /\ state \in TaskStates /\ podNode \in Node \cup {None} /\ nodeName \in Node \cup {None}
  /\ allocationKey \in BOOLEAN /\ taskMap \in BOOLEAN
  /\ cached \in {None} \cup [node : Node \cup {None}, assumed : BOOLEAN]
  /\ ask \in {"none", "ask", "alloc"} /\ coreNode \in Node \cup {None}
  /\ toCore \in Seq(Requests) /\ toShim \in Seq(Responses) /\ allocs \in 0 .. MaxAllocs
  /\ lock \in {0} \cup {i \in Id : binder[i].at \in {"binding", "bound", "failed"}}
  /\ hook \in {"none", "unlocked", "removed", "hung"}

(* At most one goroutine binds the pod: a new allocation reaches the task   *)
(* only after the previous goroutine has told the core about its failure.   *)
(* Not so when the resources of the pod change: SetTaskPod sends another    *)
(* ask whatever the state of the task.                                      *)
OneBinder ==
  "resize" \notin faults =>
    \A i, j \in Id : binder[i].at \notin {"idle", "done"} /\ binder[j].at \notin {"idle", "done"} => i = j

(* Without the rare events the core never accounts a live pod on another    *)
(* node than the one it is bound to.                                        *)
CoreKnowsNode == faults = {} /\ ask = "alloc" /\ Live(phase) /\ node # None => coreNode = node

Quiet ==
  /\ watch = <<>> /\ events = <<>> /\ toCore = <<>> /\ toShim = <<>> /\ callback = Idle
  /\ \A i \in Id : binder[i].at \in {"idle", "done"}

(* When nothing is in flight any more, a pod the cache assumes on a node    *)
(* has an allocation on that node in the core: no assumption is left over   *)
(* from a rollback, a rejection, a release or a deletion.                   *)
AssumptionsBacked ==
  faults = {} /\ Quiet /\ cached # None /\ cached.assumed => ask = "alloc" /\ coreNode = cached.node

(* When nothing is in flight any more, the core and the cache hold nothing  *)
(* for a pod that is gone: every deletion ends in a release that reaches    *)
(* the core after whatever it still allocated, lost replies and failing     *)
(* assumptions included.                                                    *)
NothingLeaked == "resize" \notin faults /\ Quiet /\ ~Live(phase) => ask = "none" /\ cached = None

(* No pod is forgotten: when nothing is in flight any more, a live pod      *)
(* whose task was submitted and has not failed waits as an ask in the core, *)
(* or is bound with its task Bound and its allocation on the same node.     *)
NotForgotten ==
  faults = {} /\ Quiet /\ Live(phase) /\ taskMap /\ state \notin Terminated \cup {"New"} =>
    IF node = None THEN ask = "ask" /\ state = "Scheduling"
                   ELSE ask = "alloc" /\ state = "Bound" /\ nodeName = node /\ coreNode = node

(* A pod that is gone is settled: its ask or allocation is taken back from  *)
(* the core for good, unless the dispatcher hangs while it completes or     *)
(* fails the task, which nothing ends (run task_locks shows how).           *)
GoneIsReleased ==
  "resize" \notin faults /\ ~Live(phase) ~> [](ask = "none" \/ hook = "hung")

(* task.go:434 "Those task will already be in the Completed state": once    *)
(* CompleteTask is handled the task stays Completed until it is removed.    *)
CompletedStays == [][taskMap /\ state = "Completed" => state' = "Completed"]_vars
=============================================================================
