----------------------------- MODULE WorkTasks ------------------------------
(***************************************************************************)
(* What the two builds of WorkPool (runtime/src/async/work_pool.cpp) have  *)
(* in common: the tasks and their fields, the queue they are submitted to, *)
(* the calls of pollCompletedWork on the main thread's stack, and the      *)
(* promise of AsyncDelivery.                                               *)
(*                                                                         *)
(* The main thread runs user code outside any pool call (mainPc = "idle")  *)
(* and inside a task's callback (mainPc = "callback").  A callback settles *)
(* a promise and so runs scripts, which may submit, cancel, and advance an *)
(* artboard, whose Artboard::advance polls again: polls nest.              *)
(***************************************************************************)
EXTENDS Integers, Sequences, FiniteSets

CONSTANTS
    Tasks,            \* the WorkTask objects, each submitted at most once
    Owners,           \* owner ids handed out by nextOwnerId
    OwnerOf,          \* WorkTask::m_ownerId
    NoTask,           \* an empty rcp<WorkTask>
    MaxCallbacks,     \* the maxCallbacks argument of pollCompletedWork
    MaxNesting        \* model bound: calls of pollCompletedWork on the stack

ASSUME TaskAssumption == NoTask \notin Tasks
ASSUME OwnerAssumption == OwnerOf \in [Tasks -> Owners]
ASSUME PollAssumption == MaxCallbacks \in Nat \ {0} /\ MaxNesting \in Nat \ {0}

VARIABLES
    m_workQueue, m_nextHandle,
    m_status, m_cancelled,           \* fields of each WorkTask
    mainPc, mainTask,                \* the main thread inside a pool call
    depth, processed,                \* the polls on its stack, and the local of each
    outcome, cancelRequested         \* history: what every submitter saw and asked

pollVars == <<depth, processed>>
history  == <<outcome, cancelRequested>>

Statuses == {"Pending", "Running", "Completed", "Failed", "Cancelled"}
Pending == {t \in Tasks : outcome[t] = "pending"}

TasksInit ==
    /\ m_workQueue = <<>> /\ m_nextHandle = 1
    /\ m_status = [t \in Tasks |-> "Pending"]
    /\ m_cancelled = [t \in Tasks |-> FALSE]
    /\ mainPc = "idle" /\ mainTask = NoTask
    /\ depth = 0 /\ processed = [d \in 1..MaxNesting |-> 0]
    /\ outcome = [t \in Tasks |-> "unsubmitted"] /\ cancelRequested = {}

-----------------------------------------------------------------------------
UserCode == mainPc \in {"idle", "callback"}

(* The pool call that user code made returns to it.                        *)
UserPc == IF depth > 0 THEN "callback" ELSE "idle"

(* The tasks that are in the queue q.                                      *)
InQueue(q) == {q[i] : i \in DOMAIN q}

(* WorkTask::cancel() on every task of owner o in the queue q.             *)
Flagged(q, o) ==
    [t \in Tasks |-> m_cancelled[t] \/ (OwnerOf[t] = o /\ \E i \in DOMAIN q : q[i] = t)]

(* pollCompletedWork is called, by a frame or from within a callback.      *)
BeginPoll ==
    /\ mainPc' = "poll" /\ depth' = depth + 1
    /\ processed' = [processed EXCEPT ![depth + 1] = 0]

(* It returns, to the code of the frame or to that callback.               *)
EndPoll ==
    /\ mainPc' = IF depth > 1 THEN "callback" ELSE "idle"
    /\ depth' = depth - 1
    /\ processed' = [processed EXCEPT ![depth] = 0]

-----------------------------------------------------------------------------
TasksTypeOK ==
    /\ m_workQueue \in Seq(Tasks) /\ m_nextHandle \in Nat \ {0}
    /\ m_status \in [Tasks -> Statuses] /\ m_cancelled \in [Tasks -> BOOLEAN]
    /\ mainTask \in Tasks \cup {NoTask}
    /\ depth \in 0..MaxNesting /\ processed \in [1..MaxNesting -> 0..MaxCallbacks]
    /\ outcome \in [Tasks -> {"unsubmitted", "pending", "completed", "failed",
                              "cancelled", "dropped"}]
    /\ cancelRequested \in SUBSET Tasks

(* The pool keeps the promise of AsyncDelivery: one answer per task, only  *)
(* onCancel after a cancel, and onCancel only after a cancel, so that a    *)
(* task submitted after its owner's cancel is answered normally.           *)
Delivery == INSTANCE AsyncDelivery WITH closed <- mainPc = "destroyed"
ImplementsDelivery == Delivery!AbsSpec
=============================================================================
