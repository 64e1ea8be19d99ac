------------------------------- MODULE TaskLocks ------------------------------
(***************************************************************************)
(* The locks around one task: ctx.lock, app.lock, task.lock and the two     *)
(* mutexes inside its state machine.  A goroutine is the sequence of lock   *)
(* operations its Go functions perform; what they do in between is in       *)
(* TaskLifecycle.  The task is of an application the core has accepted, and *)
(* the dispatcher is completing it: a before hook gives task.lock up while  *)
(* the state machine is inside a transition (task.go:551).                  *)
(***************************************************************************)
EXTENDS Integers, SequencesExt

CONSTANTS
  None,  \* no goroutine
  Case   \* the states of the task, and with them the other goroutine at it

Thread == {"dispatcher", "informer", "scheduler", "binder", "callback"}
RWMutex == {"context", "app", "task", "event", "state"}

(* A sync.RWMutex: the writer that announced itself keeps new readers out,  *)
(* and holds the mutex once the old readers have left.  eventMu, which is a *)
(* sync.Mutex, has no readers.                                              *)
Lock(m) == << <<"announce", m>>, <<"drain", m>> >>
Unlock(m) == << <<"unlock", m>> >>
RLock(m) == << <<"rlock", m>> >>
RUnlock(m) == << <<"runlock", m>> >>
Reading(m) == RLock(m) \o RUnlock(m)
Writing(m) == Lock(m) \o Unlock(m)

(* looplab/fsm: Event runs the before hook with eventMu and a read lock on  *)
(* stateMu, and changes the state under its write lock.                     *)
Event(before) ==
  Lock("event") \o RLock("state") \o before \o RUnlock("state") \o Writing("state")
    \o Unlock("event") \o Reading("state")
Current == Reading("state")
SetState == Writing("state")

TryAddReleasableTask == Writing("app")
ShouldAppRelease == Unlock("task") \o TryAddReleasableTask \o Lock("task")
(* The log line and the check for a task that may be allocated.             *)
ReleaseAllocation == ShouldAppRelease \o Current \o Current

Handle(before) == Lock("task") \o Event(before) \o Unlock("task")
CanHandle == RLock("task") \o Current \o RUnlock("task")
GetTask == RLock("context") \o Reading("app") \o RUnlock("context")
TaskEventHandler == GetTask \o CanHandle \o Handle(ReleaseAllocation)

UpdatePod == Lock("context") \o Reading("app") \o Writing("task") \o Unlock("context")

(* GetNewTasks, two checks that read the pod, InitTask, and                 *)
(* removeCompletedTasks.                                                    *)
Schedule ==
  RLock("app") \o Current \o RUnlock("app")
    \o Reading("task") \o Reading("task") \o Handle(<< >>)
    \o Lock("app") \o Current \o Unlock("app")

(* RevertPodVolumeAssumptions and ForgetPod.                                *)
RollbackAllocation == Writing("context") \o Writing("context")
RescheduleOnBindFailure ==
  Lock("task") \o Current \o SetState \o Unlock("task") \o RollbackAllocation
(* The binding that fails, under task.lock.                                 *)
PostTaskAllocated == Writing("task") \o RescheduleOnBindFailure

MarkPreviouslyAllocated == SetState \o Writing("task")
(* setAllocationKey, AssumePod, GetTaskPod, MarkPreviouslyAllocated.        *)
UpdateAllocation ==
  GetTask \o Writing("task") \o Writing("context") \o Reading("task") \o MarkPreviouslyAllocated

(* Which goroutine meets the completion in which state of the task: New is  *)
(* what scheduleTasks looks for, a binder runs for an Allocated task, and   *)
(* the core answers for the assigned pod of a recovered one.                *)
Program(case) ==
  [t \in Thread |->
     CASE t = "dispatcher" -> TaskEventHandler
       [] t = "informer" -> UpdatePod
       [] t = "scheduler" /\ case = "New" -> Schedule
       [] t = "binder" /\ case = "Allocated" -> PostTaskAllocated
       [] t = "callback" /\ case = "Recovered" -> UpdateAllocation
       [] OTHER -> << >>]

VARIABLES
  rest,    \* per goroutine: the operations it has still to do
  writer,  \* per mutex: the goroutine that announced itself as the writer
  readers  \* per mutex and goroutine: its read locks
lvars == <<rest, writer, readers>>

InitLocks ==
  /\ \E case \in Case : rest = Program(case)
  /\ writer = [m \in RWMutex |-> None]
  /\ readers = [m \in RWMutex |-> [t \in Thread |-> 0]]

(* t can do the first of its operations.                                    *)
Ready(t) ==
  /\ rest[t] # << >>
  /\ LET op == Head(rest[t])[1]
         m == Head(rest[t])[2]
     IN  CASE op \in {"announce", "rlock"} -> writer[m] = None
           [] op = "drain" -> \A r \in Thread : readers[m][r] = 0
           [] OTHER -> TRUE

Step(t) ==
  /\ Ready(t)
  /\ rest' = [rest EXCEPT ![t] = Tail(@)]
  /\ LET op == Head(rest[t])[1]
         m == Head(rest[t])[2]
     IN  /\ writer' = [writer EXCEPT ![m] =
              CASE op = "announce" -> t [] op = "unlock" -> None [] OTHER -> @]
         /\ readers' = [readers EXCEPT ![m][t] =
              CASE op = "rlock" -> @ + 1 [] op = "runlock" -> @ - 1 [] OTHER -> @]

Finished == (\A t \in Thread : rest[t] = << >>) /\ UNCHANGED lvars

NextLocks == Finished \/ \E t \in Thread : Step(t)
LocksSpec == InitLocks /\ [][NextLocks]_lvars

(* The goroutines at a task never all wait for each other: one that is not  *)
(* finished can go on.  task.go:391 unlocks the task "to avoid deadlock"    *)
(* and task.go:159 reads the state without the lock since "fsm has its own  *)
(* internal lock".                                                          *)
NoDeadlock ==
  (\A t \in Thread : rest[t] = << >>) \/ \E t \in Thread : Ready(t)
=============================================================================
