------------------------------ MODULE WorkPool ------------------------------
(***************************************************************************)
(* The threaded WorkPool of runtime/src/async/work_pool.cpp (the build     *)
(* with WITH_RIVE_THREADING): worker threads take tasks from m_workQueue,  *)
(* execute them and push them to m_completedQueue; the main thread         *)
(* submits, cancels, polls and destroys.  Each critical section is one     *)
(* action; between two critical sections every other thread may run.       *)
(***************************************************************************)
EXTENDS WorkTasks

CONSTANTS
    Workers,          \* the threads of m_threads
    NoOwner,          \* no cancelAllForOwner is running
    MaxCancels        \* model bound: calls of cancelAllForOwner

ASSUME WorkerAssumption == IsFiniteSet(Workers)
ASSUME BoundAssumption == MaxCancels \in Nat

VARIABLES
    m_completedQueue,
    m_cancelledOwners,               \* owner -> generation of its last cancel, 0 if absent
    m_cancelGeneration, m_inFlightCount, m_shutdown,
    m_submitGeneration,              \* a field of each WorkTask
    pc, task,                        \* each worker's control point and local `task`
    cancelOwner                      \* the argument of the running cancelAllForOwner

queueVars  == <<m_workQueue, m_completedQueue>>
cancelVars == <<m_cancelledOwners, m_cancelGeneration>>
poolVars   == <<m_nextHandle, m_inFlightCount, m_shutdown>>
taskVars   == <<m_status, m_cancelled, m_submitGeneration>>
workerVars == <<pc, task>>
mainVars   == <<mainPc, mainTask, pollVars, cancelOwner>>
vars == <<queueVars, cancelVars, poolVars, taskVars, workerVars, mainVars, history>>

WorkerPcs == {"lock", "waiting", "popped", "check", "execute", "push",
              "pushCancelled", "decrement", "exited"}
MainPcs == {"idle", "notify", "cancelCompleted", "hasQueued", "hasCompleted",
            "poll", "deliver", "callback", "shutdown", "join", "destroyed"}

Init ==
    /\ TasksInit
    /\ m_completedQueue = <<>>
    /\ m_cancelledOwners = [o \in Owners |-> 0] /\ m_cancelGeneration = 0
    /\ m_inFlightCount = 0 /\ m_shutdown = FALSE
    /\ m_submitGeneration = [t \in Tasks |-> 0]
    /\ pc = [w \in Workers |-> "lock"] /\ task = [w \in Workers |-> NoTask]
    /\ cancelOwner = NoOwner

-----------------------------------------------------------------------------
(* The main thread.                                                        *)

(* submit: the locked part.                                                *)
Submit(t) ==
    /\ UserCode
    /\ outcome[t] = "unsubmitted"
    /\ m_status' = [m_status EXCEPT ![t] = "Pending"]
    /\ m_submitGeneration' = [m_submitGeneration EXCEPT ![t] = m_cancelGeneration]
    /\ m_nextHandle' = m_nextHandle + 1
    /\ m_workQueue' = Append(m_workQueue, t)
    /\ outcome' = [outcome EXCEPT ![t] = "pending"]
    /\ mainPc' = "notify"
    /\ UNCHANGED <<m_completedQueue, cancelVars, m_inFlightCount, m_shutdown,
                   m_cancelled, workerVars, mainTask, pollVars,
                   cancelOwner, cancelRequested>>

(* MUTANT: submit forgets notify_one.                                      *)
NotifyOneForgotten ==
    /\ mainPc = "notify" /\ mainPc' = UserPc
    /\ UNCHANGED <<queueVars, cancelVars, poolVars, taskVars, workerVars, mainTask,
                   pollVars, cancelOwner, history>>

(* m_haveWork.notify_one() after the lock is released: one waiting worker, *)
(* if there is one, goes back to test its condition.                       *)
NotifyOne ==
    /\ mainPc = "notify"
    /\ IF \E w \in Workers : pc[w] = "waiting"
       THEN \E w \in Workers : pc[w] = "waiting" /\ pc' = [pc EXCEPT ![w] = "lock"]
       ELSE UNCHANGED pc
    /\ mainPc' = UserPc
    /\ UNCHANGED <<queueVars, cancelVars, poolVars, taskVars, task, mainTask,
                   pollVars, cancelOwner, history>>

(* WorkTask::cancel() on one task, as a promise's cancel closure calls it. *)
CancelTask(t) ==
    /\ UserCode
    /\ outcome[t] = "pending" /\ ~m_cancelled[t]
    /\ m_cancelled' = [m_cancelled EXCEPT ![t] = TRUE]
    /\ cancelRequested' = cancelRequested \cup {t}
    /\ UNCHANGED <<queueVars, cancelVars, poolVars, m_status, m_submitGeneration,
                   workerVars, mainVars, outcome>>

(* cancelAllForOwner: the part under m_queueMutex.                         *)
CancelAllForOwner(o) ==
    /\ UserCode
    /\ m_cancelGeneration < MaxCancels
    /\ m_cancelGeneration' = m_cancelGeneration + 1
    /\ m_cancelledOwners' = [m_cancelledOwners EXCEPT ![o] = m_cancelGeneration']
    /\ m_cancelled' = Flagged(m_workQueue, o)
    /\ cancelOwner' = o
    /\ cancelRequested' = cancelRequested \cup {t \in Pending : OwnerOf[t] = o}
    /\ mainPc' = "cancelCompleted"
    /\ UNCHANGED <<queueVars, poolVars, m_status, m_submitGeneration, workerVars,
                   mainTask, pollVars, outcome>>

(* cancelAllForOwner: the part under m_completedMutex.                     *)
CancelCompleted ==
    /\ mainPc = "cancelCompleted"
    /\ m_cancelled' = Flagged(m_completedQueue, cancelOwner)
    /\ cancelOwner' = NoOwner
    /\ mainPc' = UserPc
    /\ UNCHANGED <<queueVars, cancelVars, poolVars, m_status, m_submitGeneration,
                   workerVars, mainTask, pollVars, history>>

(* hasPendingWork, called by rive_pollAsyncWork from user code, reads the  *)
(* counter and the two queues one after the other, each under its own lock. *)
(* TRUE leads to pollCompletedWork.                                        *)
PollIf(found, otherwise) ==
    \/ found /\ BeginPoll
    \/ ~found /\ mainPc' = otherwise /\ UNCHANGED pollVars

HasInFlight ==
    /\ UserCode /\ depth < MaxNesting
    /\ PollIf(m_inFlightCount > 0, "hasQueued")
    /\ UNCHANGED <<queueVars, cancelVars, poolVars, taskVars, workerVars, mainTask,
                   cancelOwner, history>>

HasQueued ==
    /\ mainPc = "hasQueued"
    /\ PollIf(m_workQueue # <<>>, "hasCompleted")
    /\ UNCHANGED <<queueVars, cancelVars, poolVars, taskVars, workerVars, mainTask,
                   cancelOwner, history>>

HasCompleted ==
    /\ mainPc = "hasCompleted"
    /\ PollIf(m_completedQueue # <<>>, UserPc)
    /\ UNCHANGED <<queueVars, cancelVars, poolVars, taskVars, workerVars, mainTask,
                   cancelOwner, history>>

(* pollCompletedWork called directly, as riveLuaPollAsyncWork does, which  *)
(* the application calls outside callbacks.                                *)
PollDirectly ==
    /\ mainPc = "idle"
    /\ BeginPoll
    /\ UNCHANGED <<queueVars, cancelVars, poolVars, taskVars, workerVars, mainTask,
                   cancelOwner, history>>

(* MUTANT: the loop reads the front and does not pop it.                   *)
PollPopKeepsFront ==
    /\ mainPc = "poll" /\ processed[depth] < MaxCallbacks /\ m_completedQueue # <<>>
    /\ mainTask' = Head(m_completedQueue) /\ mainPc' = "deliver"
    /\ UNCHANGED <<queueVars, cancelVars, poolVars, taskVars, workerVars, pollVars, cancelOwner, history>>

(* One turn of pollCompletedWork's loop: take the oldest completed task.   *)
PollPop ==
    /\ mainPc = "poll"
    /\ processed[depth] < MaxCallbacks /\ m_completedQueue # <<>>
    /\ mainTask' = Head(m_completedQueue)
    /\ m_completedQueue' = Tail(m_completedQueue)
    /\ mainPc' = "deliver"
    /\ UNCHANGED <<m_workQueue, cancelVars, poolVars, taskVars, workerVars, pollVars, cancelOwner, history>>

PollReturn ==
    /\ mainPc = "poll"
    /\ processed[depth] = MaxCallbacks \/ m_completedQueue = <<>>
    /\ EndPoll
    /\ UNCHANGED <<queueVars, cancelVars, poolVars, taskVars, workerVars, mainTask,
                   cancelOwner, history>>

(* MUTANT: off by one, a task submitted after the cancel counts as before. *)
OwnerCancelledInclusive(t) == m_submitGeneration[t] <= m_cancelledOwners[OwnerOf[t]]

(* The owner cancelled after this task was submitted.                      *)
OwnerCancelled(t) == m_submitGeneration[t] < m_cancelledOwners[OwnerOf[t]]

(* The callback of the polled task: onCancel, onComplete, onError, or none *)
(* for a task whose status says it never finished.                         *)
Answer(t) ==
    IF m_cancelled[t] \/ OwnerCancelled(t) THEN "cancelled"
    ELSE CASE m_status[t] = "Completed" -> "completed"
           [] m_status[t] = "Failed" -> "failed"
           [] OTHER -> "pending"

(* The owner's generation is read under m_queueMutex; the flag and status  *)
(* are then only written by this thread, so the callback is the same step. *)
Deliver ==
    /\ mainPc = "deliver"
    /\ outcome' = [outcome EXCEPT ![mainTask] = Answer(mainTask)]
    /\ m_status' = IF Answer(mainTask) = "cancelled"
                   THEN [m_status EXCEPT ![mainTask] = "Cancelled"] ELSE m_status
    /\ mainTask' = NoTask
    /\ mainPc' = "callback"
    /\ UNCHANGED <<queueVars, cancelVars, poolVars, m_cancelled, m_submitGeneration,
                   workerVars, pollVars, cancelOwner, cancelRequested>>

CallbackReturns ==
    /\ mainPc = "callback"
    /\ processed' = [processed EXCEPT ![depth] = @ + 1]
    /\ mainPc' = "poll"
    /\ UNCHANGED <<queueVars, cancelVars, poolVars, taskVars, workerVars, mainTask,
                   depth, cancelOwner, history>>

(* ~WorkPool: set m_shutdown under the lock, then notify_all, then join.   *)
Shutdown ==
    /\ mainPc = "idle"
    /\ m_shutdown' = TRUE
    /\ mainPc' = "shutdown"
    /\ UNCHANGED <<queueVars, cancelVars, m_nextHandle, m_inFlightCount, taskVars,
                   workerVars, mainTask, pollVars, cancelOwner, history>>

(* MUTANT: the destructor wakes a single worker.                           *)
NotifyAllWakesOne ==
    /\ mainPc = "shutdown" /\ mainPc' = "join"
    /\ IF \E w \in Workers : pc[w] = "waiting"
       THEN \E w \in Workers : pc[w] = "waiting" /\ pc' = [pc EXCEPT ![w] = "lock"]
       ELSE UNCHANGED pc
    /\ UNCHANGED <<queueVars, cancelVars, poolVars, taskVars, task, mainTask,
                   pollVars, cancelOwner, history>>

NotifyAll ==
    /\ mainPc = "shutdown"
    /\ pc' = [w \in Workers |-> IF pc[w] = "waiting" THEN "lock" ELSE pc[w]]
    /\ mainPc' = "join"
    /\ UNCHANGED <<queueVars, cancelVars, poolVars, taskVars, task, mainTask,
                   pollVars, cancelOwner, history>>

(* After the join: onCancel for the flagged tasks left, the others are     *)
(* dropped.                                                                *)
Drain ==
    /\ mainPc = "join"
    /\ \A w \in Workers : pc[w] = "exited"
    /\ LET left == InQueue(m_completedQueue) \cup InQueue(m_workQueue) IN
       /\ outcome' = [t \in Tasks |-> CASE t \notin left -> outcome[t]
                                        [] t \in left /\ m_cancelled[t] -> "cancelled"
                                        [] OTHER -> "dropped"]
       /\ m_status' = [t \in Tasks |-> IF t \in left /\ m_cancelled[t]
                                       THEN "Cancelled" ELSE m_status[t]]
    /\ m_completedQueue' = <<>> /\ m_workQueue' = <<>>
    /\ mainPc' = "destroyed"
    /\ UNCHANGED <<cancelVars, poolVars, m_cancelled, m_submitGeneration, workerVars,
                   mainTask, pollVars, cancelOwner, cancelRequested>>

-----------------------------------------------------------------------------
(* A worker thread.                                                        *)

Goto(w, from, to) == pc[w] = from /\ pc' = [pc EXCEPT ![w] = to]

(* The wait's predicate is tested under the lock; FALSE releases the lock  *)
(* and blocks in one step.                                                 *)
Block(w) ==
    /\ ~m_shutdown /\ m_workQueue = <<>>
    /\ Goto(w, "lock", "waiting")
    /\ UNCHANGED <<queueVars, cancelVars, poolVars, taskVars, task, mainVars, history>>

Exit(w) ==
    /\ m_shutdown /\ m_workQueue = <<>>
    /\ Goto(w, "lock", "exited")
    /\ UNCHANGED <<queueVars, cancelVars, poolVars, taskVars, task, mainVars, history>>

Take(w) ==
    /\ m_workQueue # <<>>
    /\ Goto(w, "lock", "popped")
    /\ task' = [task EXCEPT ![w] = Head(m_workQueue)]
    /\ m_workQueue' = Tail(m_workQueue)
    /\ UNCHANGED <<m_completedQueue, cancelVars, poolVars, taskVars, mainVars, history>>

(* A wait may also end without a notification.                             *)
SpuriousWakeup(w) ==
    /\ Goto(w, "waiting", "lock")
    /\ UNCHANGED <<queueVars, cancelVars, poolVars, taskVars, task, mainVars, history>>

CountInFlight(w) ==
    /\ Goto(w, "popped", "check")
    /\ m_inFlightCount' = m_inFlightCount + 1
    /\ UNCHANGED <<queueVars, cancelVars, m_nextHandle, m_shutdown, taskVars, task,
                   mainVars, history>>

CheckCancelled(w) ==
    LET stop == m_cancelled[task[w]] IN
    /\ Goto(w, "check", IF stop THEN "pushCancelled" ELSE "execute")
    /\ m_status' = [m_status EXCEPT ![task[w]] = IF stop THEN "Cancelled" ELSE "Running"]
    /\ UNCHANGED <<queueVars, cancelVars, poolVars, m_cancelled, m_submitGeneration,
                   task, mainVars, history>>

(* execute() returns; the flag is read again and decides the status.       *)
Execute(w) ==
    /\ Goto(w, "execute", "push")
    /\ \E success \in BOOLEAN :
          m_status' = [m_status EXCEPT ![task[w]] =
              CASE m_cancelled[task[w]] -> "Cancelled"
                [] ~m_cancelled[task[w]] /\ success -> "Completed"
                [] OTHER -> "Failed"]
    /\ UNCHANGED <<queueVars, cancelVars, poolVars, m_cancelled, m_submitGeneration,
                   task, mainVars, history>>

Push(w) ==
    /\ Goto(w, "push", "decrement")
    /\ m_completedQueue' = Append(m_completedQueue, task[w])
    /\ task' = [task EXCEPT ![w] = NoTask]
    /\ UNCHANGED <<m_workQueue, cancelVars, poolVars, taskVars, mainVars, history>>

Decrement(w) ==
    /\ Goto(w, "decrement", "lock")
    /\ m_inFlightCount' = m_inFlightCount - 1
    /\ UNCHANGED <<queueVars, cancelVars, m_nextHandle, m_shutdown, taskVars, task,
                   mainVars, history>>

(* MUTANT: the early path forgets fetch_sub.                               *)
PushCancelledLeaksCount(w) ==
    /\ Goto(w, "pushCancelled", "lock")
    /\ m_completedQueue' = Append(m_completedQueue, task[w])
    /\ task' = [task EXCEPT ![w] = NoTask]
    /\ UNCHANGED <<m_workQueue, cancelVars, poolVars, taskVars, mainVars, history>>

(* The early path of a cancelled task pushes and decrements under the lock. *)
PushCancelled(w) ==
    /\ Goto(w, "pushCancelled", "lock")
    /\ m_completedQueue' = Append(m_completedQueue, task[w])
    /\ task' = [task EXCEPT ![w] = NoTask]
    /\ m_inFlightCount' = m_inFlightCount - 1
    /\ UNCHANGED <<m_workQueue, cancelVars, m_nextHandle, m_shutdown, taskVars,
                   mainVars, history>>

WorkerStep(w) ==
    \/ Block(w) \/ Exit(w) \/ Take(w) \/ CountInFlight(w) \/ CheckCancelled(w)
    \/ Execute(w) \/ Push(w) \/ Decrement(w) \/ PushCancelled(w)

(* The steps of a pool call that has begun.                                *)
MainStep ==
    \/ NotifyOne \/ CancelCompleted \/ HasQueued \/ HasCompleted
    \/ PollPop \/ PollReturn \/ Deliver \/ CallbackReturns
    \/ NotifyAll \/ Drain

UserStep ==
    \/ \E t \in Tasks : Submit(t) \/ CancelTask(t)
    \/ \E o \in Owners : CancelAllForOwner(o)
    \/ HasInFlight \/ PollDirectly \/ Shutdown

Next == UserStep \/ MainStep \/ \E w \in Workers : WorkerStep(w) \/ SpuriousWakeup(w)

(* Threads are scheduled, and Artboard::advance calls rive_pollAsyncWork   *)
(* every frame for as long as the pool lives.                              *)
Fairness ==
    /\ WF_vars(MainStep)
    /\ \A w \in Workers : WF_vars(WorkerStep(w))
    /\ SF_vars(mainPc = "idle" /\ HasInFlight)

Safety == Init /\ [][Next]_vars
Spec == Safety /\ Fairness
-----------------------------------------------------------------------------
(* The type invariant; pollCompletedWork delivers at most maxCallbacks.    *)
TypeOK ==
    /\ TasksTypeOK
    /\ m_completedQueue \in Seq(Tasks)
    /\ m_cancelledOwners \in [Owners -> Nat] /\ m_cancelGeneration \in Nat
    /\ m_inFlightCount \in Int /\ m_shutdown \in BOOLEAN
    /\ m_submitGeneration \in [Tasks -> Nat]
    /\ pc \in [Workers -> WorkerPcs] /\ task \in [Workers -> Tasks \cup {NoTask}]
    /\ mainPc \in MainPcs
    /\ cancelOwner \in Owners \cup {NoOwner}

(* Every place that holds a reference to a task the pool has yet to answer. *)
Holders(t) ==
    {<<"queued", i>> : i \in {j \in DOMAIN m_workQueue : m_workQueue[j] = t}} \cup
    {<<"completed", i>> : i \in {j \in DOMAIN m_completedQueue : m_completedQueue[j] = t}} \cup
    {<<"worker", w>> : w \in {v \in Workers : task[v] = t}} \cup
    {<<"main", m>> : m \in {m \in {0} : mainTask = t}}

(* The rcp<WorkTask> of a pending task is moved, never copied or lost: it  *)
(* is in exactly one queue slot, worker or poll frame, and an answered     *)
(* task is in none, so no callback can run twice.                          *)
OneHolder ==
    \A t \in Tasks : Cardinality(Holders(t)) = IF outcome[t] = "pending" THEN 1 ELSE 0

(* m_inFlightCount, raised after the queue lock is gone and lowered on two *)
(* paths, never drifts: it counts the workers between those two points.    *)
InFlightCounted ==
    m_inFlightCount = Cardinality(
        {w \in Workers : pc[w] \in {"check", "execute", "push", "pushCancelled", "decrement"}})

(* A task whose cancel was requested while it was pending, wherever it was *)
(* (queued, running on a worker, completed), never completes nor fails.    *)
CancelledNeverCompletes ==
    \A t \in cancelRequested : outcome[t] \in {"pending", "cancelled", "dropped"}

(* As long as frames poll the pool, every submitted task is answered, with *)
(* callbacks that poll in turn, hasPendingWork's stale answers and no      *)
(* notification lost.                                                      *)
EventuallyAnswered ==
    \A t \in Tasks : outcome[t] = "pending" ~> outcome[t] # "pending"

(* The destructor's join returns.                                          *)
DestructorReturns == mainPc = "shutdown" ~> mainPc = "destroyed"

(* work_pool.hpp:45 "Returns true if any tasks are queued, running, or     *)
(* completed-but-unpolled.": a FALSE means that nothing is pending.        *)
HasPendingWorkIsExact ==
    [][(mainPc = "hasCompleted" /\ mainPc' = UserPc) => Pending = {}]_vars

=============================================================================
