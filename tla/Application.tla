----------------------------- MODULE Application -----------------------------
(***************************************************************************)
(* One application (pkg/cache/application.go, application_state.go) with    *)
(* its regular pods and the placeholders of its one task group: submission, *)
(* the gang reservation, the fall back when it fails, deferred releases,    *)
(* and removal.  Actors: the pod informer, the dispatcher, the scheduling   *)
(* loop (shim/scheduler.go), the core's callbacks (scheduler_callback.go),  *)
(* the goroutine of onReserving, and the placeholder manager.  What happens *)
(* to one task between Scheduling and Bound is in TaskLifecycle; here a     *)
(* bind succeeds unless the pod is gone.                                    *)
(***************************************************************************)
EXTENDS Integers, SequencesExt

CONSTANTS
  Regular, Placeholder,   \* pods; placeholders are named here before they are created
  Configs,                \* the applications and environments considered, see Config
  None

Pod == Regular \cup Placeholder

(* The task group's size, whether the application defines the task group,   *)
(* its gang scheduling style, the pods that are bound when the shim starts, *)
(* and what the environment may do.                                         *)
Config == [minMember : 0 .. Cardinality(Placeholder), gang : BOOLEAN, hard : BOOLEAN, recovered : SUBSET Pod,
           may : SUBSET {"reject", "submitError", "createError", "apiError", "elapsed", "preempt", "userDelete", "resize"}]

ASSUME ApplicationAssumption ==
  /\ Regular \cap Placeholder = {} /\ None \notin Pod /\ IsFiniteSet(Pod)
  /\ Configs \subseteq Config

VARIABLES
  conf,             \* member of Configs; fixed
  app,              \* state of the application, "absent" when it is not in ctx.applications
  task,             \* state of each task, "none" when it is not in app.taskMap
  releaseableTasks, \* pods of the tasks whose release waits for the application to be accepted
  pods,             \* API server: "none", "live", "resized" (live, its resources changed),
                    \* "failed" or "gone"
  watch,            \* informer events on their way: [pod, what], "added", "resized" or "gone"
  adding,           \* the pod for which the informer, holding ctx.lock, is adding a task
  events,           \* dispatcher queue: [name, pod]
  fetched,          \* has the dispatcher looked up the application for the event at its head
  reserver, missing,\* goroutine of onReserving: its next step; placeholders left to create
  cleaning,         \* number of cleanUp goroutines of handleFailApplicationEvent about to run
  orphanPods,       \* of the placeholder manager
  binding,          \* pods a bind goroutine works on
  coreApp,          \* the core: "none", "accepted", "resuming", "running" or "failing"
  asks,             \* the core: "none", "ask", "alloc" or "releasing", for each pod
  toCore, toShim,   \* messages: [name, pod]
  removedBefore     \* history: has ctx.applications lost the application before

shimVars == <<app, task, releaseableTasks>>
podVars  == <<pods, watch, orphanPods>>
coreVars == <<coreApp, asks, toCore, toShim>>
goVars   == <<reserver, missing, cleaning, binding>>
vars == <<shimVars, podVars, adding, events, fetched, goVars, coreVars>>

MinMember == conf.minMember
Gang      == conf.gang
Hard      == conf.hard
Recovered == conf.recovered
May       == conf.may
TaskStates == {"New", "Pending", "Scheduling", "Allocated", "Rejected", "Bound", "Failed", "Completed"}
Terminated == {"Rejected", "Failed", "Completed"}
AppStates  == {"New", "Submitted", "Accepted", "Reserving", "Running", "Resuming", "Rejected", "Failing", "Failed"}
Live(p) == pods[p] \in {"live", "resized"}
Msg(name, p) == [name |-> name, pod |-> p]
Msgs(name, S) == LET q == SetToSeq(S) IN [i \in DOMAIN q |-> Msg(name, q[i])]
Tasks(S)     == {p \in Pod : task[p] \in S}
PlaceHolderTasks == {p \in Placeholder : task[p] # "none"}
AllTasksTerminated == \A p \in Pod : task[p] \in {"none"} \cup Terminated
TaskOf(p) == IF app = "absent" THEN "none" ELSE task[p]
Unlocked == adding = None      \* ctx.lock is free
Dispatched(name, p) == events' = Append(events, Msg(name, p))
-----------------------------------------------------------------------------
(* The shim starts scheduling after InitializeState has added every pod.    *)
Init ==
  /\ conf \in Configs
  /\ app = IF Recovered = {} THEN "absent" ELSE "New"
  /\ task = [p \in Pod |-> IF p \in Recovered THEN "New" ELSE "none"]
  /\ releaseableTasks = {}
  /\ pods = [p \in Pod |-> IF p \in Recovered THEN "live" ELSE "none"]
  /\ watch = <<>> /\ adding = None /\ events = <<>> /\ fetched = FALSE
  /\ reserver = "idle" /\ missing = 0 /\ cleaning = 0 /\ orphanPods = {} /\ binding = {}
  /\ coreApp = "none" /\ asks = [p \in Pod |-> "none"] /\ toCore = <<>> /\ toShim = <<>>
  /\ removedBefore = FALSE

(* API server (external). *)
PodsGo(S, how) ==
  LET live == {p \in S : Live(p) \/ (pods[p] = "failed" /\ how = "gone")}
      q == SetToSeq(live) IN
  /\ pods' = [p \in Pod |-> IF p \in live THEN how ELSE pods[p]]
  /\ watch' = watch \o [i \in DOMAIN q |-> [pod |-> q[i], what |-> "gone"]]
PodCreated(p) ==
  /\ pods[p] = "none"
  /\ pods' = [pods EXCEPT ![p] = "live"]
  /\ watch' = Append(watch, [pod |-> p, what |-> "added"])
UserCreates(p) ==
  /\ PodCreated(p)
  /\ UNCHANGED <<shimVars, orphanPods, adding, events, fetched, goVars, coreVars>>
UserDeletes(p) ==
  /\ Live(p)
  /\ p \in Regular \/ "userDelete" \in May
  /\ PodsGo({p}, "gone")
  /\ UNCHANGED <<shimVars, orphanPods, adding, events, fetched, goVars, coreVars>>
(* The resources of a regular pod change (bound: once). *)
UserResizes(p) ==
  /\ pods[p] = "live" /\ "resize" \in May
  /\ pods' = [pods EXCEPT ![p] = "resized"]
  /\ watch' = Append(watch, [pod |-> p, what |-> "resized"])
  /\ UNCHANGED <<shimVars, orphanPods, adding, events, fetched, goVars, coreVars>>
-----------------------------------------------------------------------------
(* SetTaskPod of a task that exists, in whatever state: new resources are   *)
(* sent to the core, as an ask.                                             *)
SetTaskPod(e) ==
  toCore' = IF e.what = "resized" /\ TaskOf(e.pod) # "none" THEN Append(toCore, Msg("ask", e.pod)) ELSE toCore
(* updateYuniKornPod under ctx.lock: SetTaskPod, then look up or add the    *)
(* application ... (bound: a removed application comes back only after the  *)
(* goroutines that still work on its old task map have ended).              *)
UpdatePod ==
  /\ Unlocked /\ watch # <<>> /\ Head(watch).what # "gone"
  /\ watch' = Tail(watch)
  /\ SetTaskPod(Head(watch))
  /\ IF app = "absent"
     THEN /\ reserver = "idle" /\ cleaning = 0 /\ binding = {}
          /\ app' = "New" /\ task' = [p \in Pod |-> "none"]
     ELSE UNCHANGED <<app, task>>
  /\ adding' = Head(watch).pod
  /\ UNCHANGED <<releaseableTasks, pods, orphanPods, events, fetched, goVars, coreApp, asks, toShim>>
(* ... and add the task; addTask finds no application and does nothing if   *)
(* it was removed in between.                                               *)
addTask ==
  /\ adding # None
  /\ task' = [task EXCEPT ![adding] = IF app = "absent" \/ @ # "none" THEN @ ELSE "New"]
  /\ adding' = None
  /\ UNCHANGED <<app, releaseableTasks, podVars, events, fetched, goVars, coreVars>>
(* A deleted or terminated pod: notifyTaskComplete. *)
DeletePod ==
  /\ Unlocked /\ watch # <<>> /\ Head(watch).what = "gone"
  /\ watch' = Tail(watch)
  /\ events' = events \o (IF app = "absent" THEN <<>> ELSE <<Msg("CompleteTask", Head(watch).pod)>>)
                      \o (IF app = "Resuming" THEN <<Msg("AppTaskCompleted", None)>> ELSE <<>>)
  /\ UNCHANGED <<shimVars, pods, orphanPods, adding, fetched, goVars, coreVars>>
-----------------------------------------------------------------------------
(* KubernetesShim.schedule and Application.Schedule, one pass over the      *)
(* application.  New: submit it to the core.                                *)
SubmitApplication ==
  /\ Unlocked /\ app = "New"
  /\ app' = "Submitted"
  /\ \/ toCore' = Append(toCore, Msg("addApp", None)) /\ UNCHANGED events
     \/ "submitError" \in May /\ Dispatched("FailOther", None) /\ UNCHANGED toCore
  /\ UNCHANGED <<task, releaseableTasks, podVars, adding, fetched, goVars, coreApp, asks, toShim>>
(* Accepted: reserve first, unless there is no gang or a regular task has   *)
(* left New.  Dispatched again in every pass until the state changes; the   *)
(* copies that queue up behind the first one are not kept.                  *)
skipReservationStage == ~Gang \/ \E p \in Regular : task[p] \notin {"none", "New"}
postAppAccepted ==
  /\ Unlocked /\ app = "Accepted"
  /\ LET ev == Msg(IF skipReservationStage THEN "RunApplication" ELSE "TryReserve", None) IN
     /\ \A i \in DOMAIN events : events[i] # ev
     /\ events' = Append(events, ev)
  /\ UNCHANGED <<shimVars, podVars, adding, fetched, goVars, coreVars>>
(* Reserving and Running: new tasks of the right kind become Pending and    *)
(* are submitted, terminated tasks are removed.                             *)
EveryTask == Pod      \* Mutant: the condition on placeholders is dropped.
Schedulable == IF app = "Reserving" THEN Placeholder ELSE Regular
scheduleTasks ==
  /\ Unlocked /\ app \in {"Reserving", "Running"}
  /\ LET new == {p \in Schedulable : task[p] = "New"} IN
     /\ new \cup Tasks(Terminated) # {}
     /\ task' = [p \in Pod |-> IF p \in new THEN "Pending"
                               ELSE IF task[p] \in Terminated THEN "none" ELSE task[p]]
     /\ events' = events \o Msgs("SubmitTask", new)
  /\ UNCHANGED <<app, releaseableTasks, podVars, adding, fetched, goVars, coreVars>>
(* Failed: forget the application once its tasks are terminated. *)
Removed == /\ app' = "absent" /\ releaseableTasks' = {} /\ UNCHANGED task
RemoveFailed ==
  /\ Unlocked /\ app = "Failed" /\ AllTasksTerminated
  /\ Removed
  /\ UNCHANGED <<podVars, adding, events, fetched, goVars, coreVars>>
-----------------------------------------------------------------------------
(* The core (external), from what the shim sends and what its callbacks     *)
(* expect.  It knows a pod as an ask, an allocation, or one it asked the    *)
(* shim to release.                                                         *)
Allocated(p) ==
  /\ asks' = [asks EXCEPT ![p] = "alloc"]
  /\ coreApp' = IF p \in Regular THEN "running" ELSE coreApp
  /\ toShim' = Append(toShim, Msg("New", p))
CoreReceives ==
  /\ toCore # <<>>
  /\ toCore' = Tail(toCore)
  /\ LET m == Head(toCore) IN
     \/ /\ m.name = "addApp" /\ coreApp = "none"
        /\ coreApp' = "accepted"
        /\ toShim' = Append(toShim, Msg("Accepted", None))
        /\ UNCHANGED asks
     \/ /\ m.name = "addApp" /\ (coreApp # "none" \/ "reject" \in May)
        /\ toShim' = Append(toShim, Msg("Rejected", None))
        /\ UNCHANGED <<coreApp, asks>>
     \/ /\ m.name = "removeApp"
        /\ coreApp' = "none" /\ asks' = [p \in Pod |-> "none"]
        /\ UNCHANGED toShim
     \/ /\ m.name = "ask" /\ coreApp # "none"
        /\ IF m.pod \in Recovered /\ asks[m.pod] = "none"
           THEN Allocated(m.pod)
           ELSE /\ asks' = [asks EXCEPT ![m.pod] = IF @ = "none" THEN "ask" ELSE @]
                /\ UNCHANGED <<coreApp, toShim>>
     \/ /\ m.name = "ask" /\ coreApp = "none"
        /\ toShim' = Append(toShim, Msg("RejectedAsk", m.pod))
        /\ UNCHANGED <<coreApp, asks>>
     \/ /\ m.name \in {"release", "rollback"}
        /\ asks' = [asks EXCEPT ![m.pod] = IF m.name = "release" THEN "none"
                                            ELSE IF @ = "alloc" THEN "ask" ELSE @]
        /\ UNCHANGED <<coreApp, toShim>>
  /\ UNCHANGED <<shimVars, podVars, adding, events, fetched, goVars>>
CoreAllocates(p) ==
  /\ asks[p] = "ask" /\ coreApp # "failing"
  /\ Allocated(p)
  /\ UNCHANGED <<toCore, shimVars, podVars, adding, events, fetched, goVars>>
(* A placeholder is replaced by a regular task, or preempted. *)
CoreReleases(p) ==
  /\ asks[p] = "alloc" /\ p \in Placeholder
  /\ "preempt" \in May \/ \E r \in Regular : asks[r] = "ask"
  /\ asks' = [asks EXCEPT ![p] = "releasing"]
  /\ toShim' = Append(toShim, Msg("Released", p))
  /\ UNCHANGED <<coreApp, toCore, shimVars, podVars, adding, events, fetched, goVars>>
(* The placeholder timeout, which runs from the first allocated placeholder *)
(* on: the state change is reported first, then the placeholders are        *)
(* released.                                                                *)
CoreTimesOut ==
  /\ coreApp = "accepted"
  /\ (\E p \in Placeholder : asks[p] = "alloc") /\ \A r \in Regular : asks[r] = "none"
  /\ LET held == {p \in Placeholder : asks[p] \in {"ask", "alloc"}} IN
     /\ coreApp' = IF Hard THEN "failing" ELSE "resuming"
     /\ asks' = [p \in Pod |-> IF p \in held THEN "releasing" ELSE asks[p]]
     /\ toShim' = Append(toShim, Msg(IF Hard THEN "Failing" ELSE "Resuming", None)) \o Msgs("Released", held)
  /\ UNCHANGED <<toCore, shimVars, podVars, adding, events, fetched, goVars>>
(* Nothing left to do: the application is completed, or failed for good. *)
CoreEnds ==
  /\ coreApp \in {"running", "failing"} /\ \A p \in Pod : asks[p] = "none"
  /\ coreApp' = "none"
  /\ toShim' = Append(toShim, Msg(IF coreApp = "failing" THEN "Failed" ELSE "Completed", None))
  /\ UNCHANGED <<asks, toCore, shimVars, podVars, adding, events, fetched, goVars>>
-----------------------------------------------------------------------------
(* The callbacks UpdateApplication and UpdateAllocation look the            *)
(* application or the task up under ctx.lock, and dispatch an event.  A pod *)
(* that was bound before is marked as such without one.                     *)
MarksBound(m) == m.name = "New" /\ TaskOf(m.pod) # "none" /\ m.pod \in Recovered
CallbackEvent(m) ==
  CASE m.name = "Accepted" /\ app # "absent"    -> <<Msg("AcceptApplication", None)>>
    [] m.name = "Rejected" /\ app # "absent"    -> <<Msg("RejectApplication", None)>>
    [] m.name = "Resuming" /\ app = "Reserving" -> <<Msg("ResumingApplication", None)>>
    [] m.name \in {"Failing", "Failed"}         -> <<Msg("FailTimeout", None)>>
    [] MarksBound(m)                            -> IF m.pod \in Placeholder THEN <<Msg("UpdateReservation", None)>> ELSE <<>>
    [] m.name = "New" /\ TaskOf(m.pod) # "none" /\ ~MarksBound(m) -> <<Msg("TaskAllocated", m.pod)>>
    [] m.name = "RejectedAsk"                   -> <<Msg("TaskRejected", m.pod)>>
    [] m.name = "Released"                      -> <<Msg("ReleaseAppAllocation", m.pod)>>
    [] OTHER                                    -> <<>>
Callback ==
  /\ Unlocked /\ toShim # <<>>
  /\ LET m == Head(toShim) IN
     /\ toShim' = Tail(toShim)
     /\ events' = events \o CallbackEvent(m)
     /\ IF m.name = "Completed"
        THEN Removed
        ELSE /\ task' = IF MarksBound(m) THEN [task EXCEPT ![m.pod] = "Bound"] ELSE task
             /\ UNCHANGED <<app, releaseableTasks>>
  /\ UNCHANGED <<podVars, adding, fetched, goVars, coreApp, asks, toCore>>
-----------------------------------------------------------------------------
(* The dispatcher: look the application up under ctx.lock, then handle the  *)
(* event, without ctx.lock, if its state machine has a transition.          *)
FailEvents == {"FailTimeout", "FailRejected", "FailOther"}
AppSrc == [AcceptApplication    |-> {"Submitted"},
           RejectApplication    |-> {"Submitted"},
           TryReserve           |-> {"Accepted"},
           UpdateReservation    |-> {"Reserving"},
           ResumingApplication  |-> {"Reserving"},
           AppTaskCompleted     |-> {"Resuming"},
           RunApplication       |-> {"Accepted", "Reserving", "Resuming", "Running"},
           ReleaseAppAllocation |-> {"Running", "Accepted", "Reserving", "Failing", "Resuming"},
           FailTimeout          |-> {"Submitted", "Accepted", "Running", "Reserving", "Failing", "Rejected"},
           FailRejected         |-> {"Submitted", "Accepted", "Running", "Reserving", "Failing", "Rejected"},
           FailOther            |-> {"Submitted", "Accepted", "Running", "Reserving", "Failing", "Rejected"}]
TaskSrc == [SubmitTask    |-> {"Pending"},
            TaskAllocated |-> {"Scheduling", "Completed"},
            TaskBound     |-> {"Allocated"},
            TaskRejected  |-> {"New", "Pending", "Scheduling"},
            TaskFail      |-> {"New", "Pending", "Scheduling", "Rejected", "Allocated"},
            CompleteTask  |-> TaskStates]
FetchApplication ==
  /\ Unlocked /\ ~fetched /\ events # <<>>
  /\ fetched' = TRUE
  /\ UNCHANGED <<shimVars, podVars, adding, events, goVars, coreVars>>
CanHandle(m) == IF m.name \in DOMAIN AppSrc THEN app \in AppSrc[m.name] ELSE TaskOf(m.pod) \in TaskSrc[m.name]
Handled == fetched' = FALSE /\ events' = Tail(events)
HandledThen(more) == fetched' = FALSE /\ events' = Tail(events) \o more
AppHandles(name) == fetched /\ Head(events).name = name /\ CanHandle(Head(events))
DropEvent ==
  /\ fetched /\ ~CanHandle(Head(events))
  /\ Handled
  /\ UNCHANGED <<shimVars, podVars, adding, goVars, coreVars>>
(* flushReleaseableTasks: with every task terminated the application goes   *)
(* away, from the core and, without taking ctx.lock, from the context.      *)
HandleAccept ==
  /\ AppHandles("AcceptApplication") /\ Handled
  /\ IF releaseableTasks # {} /\ AllTasksTerminated
     THEN Removed /\ toCore' = Append(toCore, Msg("removeApp", None))
     ELSE /\ app' = "Accepted" /\ releaseableTasks' = {}
          /\ toCore' = toCore \o Msgs("release", releaseableTasks)
          /\ UNCHANGED task
  /\ UNCHANGED <<podVars, adding, goVars, coreApp, asks, toShim>>
HandleReject ==
  /\ AppHandles("RejectApplication") /\ HandledThen(<<Msg("FailRejected", None)>>)
  /\ app' = "Rejected" /\ releaseableTasks' = {}
  /\ UNCHANGED <<task, podVars, adding, goVars, coreVars>>
(* onReserving: with a timeout that has already elapsed no placeholder is   *)
(* created; otherwise a goroutine creates the missing ones.                 *)
HandleTryReserve ==
  /\ AppHandles("TryReserve")
  /\ app' = "Reserving"
  /\ \/ HandledThen(IF PlaceHolderTasks = {} THEN <<>> ELSE <<Msg("UpdateReservation", None)>>) /\ reserver' = "count"
     \/ /\ "elapsed" \in May /\ PlaceHolderTasks = {}
        /\ HandledThen(<<Msg(IF Hard THEN "FailTimeout" ELSE "RunApplication", None)>>)
        /\ UNCHANGED reserver
  /\ UNCHANGED <<task, releaseableTasks, podVars, adding, missing, cleaning, binding, coreVars>>
(* onReservationStateChange *)
Reserved == Cardinality({p \in Placeholder : task[p] = "Bound"}) >= MinMember
HandleUpdateReservation ==
  /\ AppHandles("UpdateReservation")
  /\ HandledThen(IF Reserved THEN <<Msg("RunApplication", None)>> ELSE <<>>)
  /\ UNCHANGED <<shimVars, podVars, adding, goVars, coreVars>>
HandleResuming ==
  /\ AppHandles("ResumingApplication") /\ Handled
  /\ app' = "Resuming"
  /\ UNCHANGED <<task, releaseableTasks, podVars, adding, goVars, coreVars>>
HandleAppTaskCompleted ==
  /\ AppHandles("AppTaskCompleted")
  /\ HandledThen(IF \A p \in PlaceHolderTasks : task[p] = "Completed" THEN <<Msg("RunApplication", None)>> ELSE <<>>)
  /\ UNCHANGED <<shimVars, podVars, adding, goVars, coreVars>>
HandleRun ==
  /\ AppHandles("RunApplication") /\ Handled
  /\ app' = "Running"
  /\ UNCHANGED <<task, releaseableTasks, podVars, adding, goVars, coreVars>>
(* The pod of the released allocation is deleted; in the first three states *)
(* the application becomes, or stays, Running.                              *)
HandleReleaseAppAllocation ==
  /\ AppHandles("ReleaseAppAllocation") /\ Handled
  /\ app' = IF app \in {"Running", "Accepted", "Reserving"} THEN "Running" ELSE app
  /\ LET p == Head(events).pod IN
     \/ task[p] # "none" /\ PodsGo({p}, "gone")
     \/ (task[p] = "none" \/ "apiError" \in May) /\ UNCHANGED <<pods, watch>>
  /\ UNCHANGED <<task, releaseableTasks, orphanPods, adding, goVars, coreVars>>
(* handleFailApplicationEvent fails the pods of the unallocated tasks when  *)
(* the reason is a timeout or a rejection; a status update may be refused.  *)
HandleFail ==
  /\ \E name \in FailEvents :
       /\ AppHandles(name)
       /\ LET unalloc == IF name = "FailOther" THEN {} ELSE Tasks({"New", "Pending", "Scheduling"}) IN
          \E S \in SUBSET unalloc : (S = unalloc \/ "apiError" \in May) /\ PodsGo(S, "failed")
  /\ Handled
  /\ app' = IF app \in {"Failing", "Rejected"} THEN "Failed" ELSE "Failing"
  /\ releaseableTasks' = {} /\ cleaning' = cleaning + 1
  /\ UNCHANGED <<task, orphanPods, adding, reserver, missing, binding, coreVars>>
-----------------------------------------------------------------------------
(* Events of one task.  SubmitTask sends the ask; TaskAllocated starts the  *)
(* bind goroutine, or gives the allocation of a Completed task back; a      *)
(* bound placeholder may complete the reservation.                          *)
TaskTo(p, s) == task' = [task EXCEPT ![p] = s]
HandleSubmitTask ==
  /\ AppHandles("SubmitTask") /\ Handled
  /\ TaskTo(Head(events).pod, "Scheduling")
  /\ toCore' = Append(toCore, Msg("ask", Head(events).pod))
  /\ UNCHANGED <<app, releaseableTasks, podVars, adding, goVars, coreApp, asks, toShim>>
(* releaseAllocation waits for the application to be accepted; mutant: it   *)
(* takes an application that is not running for one the core does not know. *)
releaseWhenRunning(p) ==
  IF app # "Running"
  THEN UNCHANGED <<toCore, releaseableTasks>>
  ELSE toCore' = Append(toCore, Msg("release", p)) /\ UNCHANGED releaseableTasks
releaseAllocation(p) ==
  IF app \in {"New", "Submitted"}
  THEN releaseableTasks' = releaseableTasks \cup {p} /\ UNCHANGED toCore
  ELSE toCore' = Append(toCore, Msg("release", p)) /\ UNCHANGED releaseableTasks
HandleTaskAllocated ==
  /\ AppHandles("TaskAllocated") /\ Handled
  /\ LET p == Head(events).pod IN
     IF task[p] = "Completed"
     THEN releaseAllocation(p) /\ UNCHANGED <<task, binding>>
     ELSE TaskTo(p, "Allocated") /\ binding' = binding \cup {p} /\ UNCHANGED <<toCore, releaseableTasks>>
  /\ UNCHANGED <<app, podVars, adding, reserver, missing, cleaning, coreApp, asks, toShim>>
HandleTaskBound ==
  /\ AppHandles("TaskBound")
  /\ LET p == Head(events).pod IN
     /\ TaskTo(p, "Bound")
     /\ HandledThen(IF p \in Placeholder THEN <<Msg("UpdateReservation", None)>> ELSE <<>>)
  /\ UNCHANGED <<app, releaseableTasks, podVars, adding, goVars, coreVars>>
HandleTaskRejected ==
  /\ AppHandles("TaskRejected") /\ HandledThen(<<Msg("TaskFail", Head(events).pod)>>)
  /\ TaskTo(Head(events).pod, "Rejected")
  /\ UNCHANGED <<app, releaseableTasks, podVars, adding, goVars, coreVars>>
(* CompleteTask and TaskFail release what the core holds. *)
HandleTaskEnds ==
  /\ \/ AppHandles("CompleteTask") /\ TaskTo(Head(events).pod, "Completed")
     \/ AppHandles("TaskFail") /\ TaskTo(Head(events).pod, "Failed")
  /\ Handled
  /\ releaseAllocation(Head(events).pod)
  /\ UNCHANGED <<app, podVars, adding, goVars, coreApp, asks, toShim>>
(* The goroutine of postTaskAllocated; rescheduleOnBindFailure after a      *)
(* failure, which changes nothing in app.taskMap when the task has been     *)
(* removed from it meanwhile.                                               *)
Bind(p) ==
  /\ p \in binding
  /\ binding' = binding \ {p}
  /\ IF Live(p)
     THEN Dispatched("TaskBound", p) /\ UNCHANGED <<task, toCore>>
     ELSE /\ TaskTo(p, IF task[p] = "none" THEN "none" ELSE "Scheduling")
          /\ toCore' = Append(toCore, Msg("rollback", p)) /\ UNCHANGED events
  /\ UNCHANGED <<app, releaseableTasks, podVars, adding, fetched, reserver, missing, cleaning, coreApp, asks, toShim>>
-----------------------------------------------------------------------------
(* createAppPlaceholders, holding the manager's lock: count the placeholder *)
(* tasks, then create the missing pods one by one.                          *)
CountNothing ==      \* Mutant: placeholders that exist already are not counted.
  /\ reserver = "count"
  /\ reserver' = "create" /\ missing' = MinMember
  /\ UNCHANGED <<shimVars, podVars, adding, events, fetched, cleaning, binding, coreVars>>
CountPlaceholders ==
  /\ reserver = "count"
  /\ LET n == MinMember - Cardinality(PlaceHolderTasks) IN
     IF n > 0 THEN reserver' = "create" /\ missing' = n ELSE reserver' = "idle" /\ missing' = 0
  /\ UNCHANGED <<shimVars, podVars, adding, events, fetched, cleaning, binding, coreVars>>
CreateOneMore ==      \* Mutant: off by one.
  /\ reserver = "create"
  /\ \E p \in Placeholder : PodCreated(p)
  /\ missing' = missing - 1
  /\ reserver' = IF missing = 0 THEN "idle" ELSE "create"
  /\ UNCHANGED <<shimVars, orphanPods, adding, events, fetched, cleaning, binding, coreVars>>
CreatePlaceholder ==
  /\ reserver = "create"
  /\ \/ /\ \E p \in Placeholder : PodCreated(p)
        /\ missing' = missing - 1
        /\ reserver' = IF missing = 1 THEN "idle" ELSE "create"
     \/ /\ "createError" \in May \/ \A p \in Placeholder : pods[p] # "none"
        /\ reserver' = "clean" /\ missing' = 0
        /\ UNCHANGED <<pods, watch>>
  /\ UNCHANGED <<shimVars, orphanPods, adding, events, fetched, cleaning, binding, coreVars>>
(* cleanUp deletes the pods of the placeholder tasks; what it cannot delete *)
(* is left to cleanOrphanPlaceholders.                                      *)
cleanUp ==
  /\ reserver # "create"
  /\ \E S \in SUBSET {p \in PlaceHolderTasks : pods[p] # "gone"} :
       /\ S # {} => "apiError" \in May
       /\ orphanPods' = orphanPods \cup S
       /\ PodsGo(PlaceHolderTasks \ S, "gone")
CleanUpFailed ==
  /\ cleaning > 0 /\ cleanUp
  /\ cleaning' = cleaning - 1
  /\ UNCHANGED <<shimVars, adding, events, fetched, reserver, missing, binding, coreVars>>
CleanUpReserver ==
  /\ reserver = "clean" /\ cleanUp
  /\ reserver' = "run"
  /\ UNCHANGED <<shimVars, adding, events, fetched, missing, cleaning, binding, coreVars>>
StayReserving ==      \* Mutant: the application is left to itself.
  /\ reserver = "run"
  /\ reserver' = "idle"
  /\ UNCHANGED <<shimVars, podVars, adding, events, fetched, missing, cleaning, binding, coreVars>>
RunWithoutGang ==
  /\ reserver = "run"
  /\ reserver' = "idle"
  /\ Dispatched("RunApplication", None)
  /\ UNCHANGED <<shimVars, podVars, adding, fetched, missing, cleaning, binding, coreVars>>
(* Every 5 seconds; a pod that is not found any more is kept as well.       *)
cleanOrphanPlaceholders ==
  /\ reserver # "create"
  /\ \E S \in SUBSET {p \in orphanPods : pods[p] # "gone"} :
       /\ S # {}
       /\ orphanPods' = orphanPods \ S
       /\ PodsGo(S, "gone")
  /\ UNCHANGED <<shimVars, adding, events, fetched, goVars, coreVars>>
-----------------------------------------------------------------------------
ApiStep        == \/ \E p \in Regular : UserCreates(p) \/ UserResizes(p)
                  \/ \E p \in Pod : UserDeletes(p)
InformerStep   == UpdatePod \/ addTask \/ DeletePod
ScheduleStep   == SubmitApplication \/ postAppAccepted \/ scheduleTasks \/ RemoveFailed
CoreStep       == CoreReceives \/ CoreTimesOut \/ CoreEnds \/ \E p \in Pod : CoreAllocates(p) \/ CoreReleases(p)
DispatcherStep == \/ FetchApplication \/ DropEvent \/ HandleAccept \/ HandleReject \/ HandleTryReserve
                  \/ HandleUpdateReservation \/ HandleResuming \/ HandleAppTaskCompleted \/ HandleRun
                  \/ HandleReleaseAppAllocation \/ HandleFail \/ HandleSubmitTask \/ HandleTaskAllocated
                  \/ HandleTaskBound \/ HandleTaskRejected \/ HandleTaskEnds
ReserverStep   == CountPlaceholders \/ CreatePlaceholder \/ CleanUpReserver \/ RunWithoutGang

Next ==
  \/ ApiStep \/ InformerStep \/ ScheduleStep \/ CoreStep \/ Callback \/ DispatcherStep \/ ReserverStep
  \/ CleanUpFailed \/ cleanOrphanPlaceholders
  \/ \E p \in Pod : Bind(p)
Remembered == UNCHANGED conf /\ removedBefore' = (removedBefore \/ (app # "absent" /\ app' = "absent"))
Spec == Init /\ [][Next /\ Remembered]_<<vars, conf, removedBefore>>

(* Every goroutine of the shim takes its next step, and the core answers,   *)
(* allocates what it is asked for, and ends.                                *)
Fairness ==
  /\ WF_vars(InformerStep) /\ WF_vars(ScheduleStep) /\ WF_vars(DispatcherStep) /\ WF_vars(Callback)
  /\ WF_vars(ReserverStep) /\ WF_vars(CleanUpFailed) /\ WF_vars(cleanOrphanPlaceholders)
  /\ WF_vars(CoreReceives) /\ WF_vars(CoreTimesOut)
  /\ WF_vars(\E p \in Pod : CoreAllocates(p)) /\ WF_vars(\E p \in Pod : Bind(p))
FairSpec == Spec /\ Fairness
-----------------------------------------------------------------------------
(* Types; the counters of the reserver agree with its position, and the     *)
(* dispatcher has looked an application up only for an event it holds.      *)
TypeOK ==
  /\ app \in {"absent"} \cup AppStates /\ task \in [Pod -> {"none"} \cup TaskStates]
  /\ releaseableTasks \subseteq Pod /\ orphanPods \subseteq Placeholder
  /\ pods \in [Pod -> {"none", "live", "resized", "failed", "gone"}] /\ adding \in Pod \cup {None}
  /\ fetched \in BOOLEAN /\ (fetched => events # <<>>)
  /\ reserver \in {"idle", "count", "create", "clean", "run"} /\ missing \in 0 .. MinMember
  /\ (reserver = "create" <=> missing > 0)
  /\ cleaning \in Nat /\ binding \subseteq Pod
  /\ coreApp \in {"none", "accepted", "resuming", "running", "failing"}
  /\ asks \in [Pod -> {"none", "ask", "alloc", "releasing"}]
  /\ \A i \in DOMAIN events : events[i].name \in DOMAIN AppSrc \cup DOMAIN TaskSrc

Quiet ==
  /\ watch = <<>> /\ adding = None /\ events = <<>> /\ toCore = <<>> /\ toShim = <<>>
  /\ reserver = "idle" /\ cleaning = 0 /\ binding = {}

(* While the gang is being reserved the core knows no regular pod of the    *)
(* application, neither from this nor from an earlier application of the    *)
(* same name: Schedule keeps regular tasks back until Running.  Not so when *)
(* the resources of a pod change: SetTaskPod sends the core an ask for it   *)
(* without a look at the state of the task or of the application.           *)
GangBarrier ==
  "resize" \notin May /\ app = "Reserving" => \A p \in Regular : asks[p] = "none"

(* createAppPlaceholders makes the missing placeholders only: there are     *)
(* never more than MinMember, counting the ones a restart found, whatever   *)
(* fails or is released meanwhile.  This is a property of one life of the   *)
(* application: when it was removed and its pods bring it back, the new     *)
(* task map lacks the placeholders the informer has yet to report, and the  *)
(* ones whose add event the first life has used up.                         *)
PlaceholdersBounded ==
  ~removedBefore /\ Cardinality(Recovered \cap Placeholder) <= MinMember
    => Cardinality({p \in Placeholder : Live(p)}) <= MinMember

(* When nothing is in flight any more, the core holds nothing for a pod     *)
(* that has ended; a release waits in releaseableTasks only until the       *)
(* application is accepted, rejected or failed, and the core has nothing    *)
(* of the pod while it waits.  No release is lost when the application      *)
(* fails, is rejected, is removed or falls back from the reservation.  The  *)
(* ask that SetTaskPod sends for a task that has failed is one nobody takes *)
(* back: a change of resources is left out.                                 *)
NothingLeaked ==
  /\ releaseableTasks # {} => app \in {"New", "Submitted"}
  /\ "resize" \notin May /\ Quiet => \A p \in Pod : pods[p] \in {"gone", "failed"} => asks[p] = "none"

(* The reservation is decided: a new application with a soft task group     *)
(* and no failure but that of a placeholder's creation ends up running,     *)
(* resuming, failed or removed.  The dispatcher is taken to come back from  *)
(* every handler (run task_locks shows where it may not).                   *)
Undecided == app \in {"New", "Submitted", "Accepted", "Reserving"}
Undisturbed == ~conf.hard /\ conf.recovered = {} /\ conf.may \subseteq {"createError"}
ReservationSettles == Undecided /\ Undisturbed ~> ~Undecided

(* application.go:491 "app could have allocated tasks upon a recovery, and  *)
(* in that case, the reserving phase has already passed, no need to trigger *)
(* that again".                                                             *)
RecoveredSkips == app = "Reserving" => \A p \in Regular \cap Recovered : ~Live(p)

(* application.go:515 "Application %s resuming as non-gang application      *)
(* (SOFT)": an application that is resuming runs in the end.                *)
ResumingEnds == app = "Resuming" ~> app # "Resuming"
=============================================================================
