--------------------------- MODULE InlineWorkPool ---------------------------
(***************************************************************************)
(* The WorkPool of a build without threads (runtime/src/async/             *)
(* work_pool.cpp, WITH_RIVE_THREADING not defined): pollCompletedWork      *)
(* takes the oldest task of m_workQueue, executes it on the spot and runs  *)
(* its callback, all on the one thread that there is.  Between two actions *)
(* only a callback's script can come in.                                   *)
(***************************************************************************)
EXTENDS WorkTasks

VARIABLE handle      \* history: what submit returned for each task, 0 before

inlineVars == <<m_workQueue, m_nextHandle, m_status, m_cancelled, mainPc, mainTask,
                pollVars, history, handle>>

InlineInit == TasksInit /\ handle = [t \in Tasks |-> 0]

(* MUTANT: submit queues at the front.                                     *)
InlineSubmitFirst(t) ==
    /\ UserCode
    /\ outcome[t] = "unsubmitted"
    /\ m_status' = [m_status EXCEPT ![t] = "Pending"]
    /\ m_workQueue' = <<t>> \o m_workQueue
    /\ handle' = [handle EXCEPT ![t] = m_nextHandle] /\ m_nextHandle' = m_nextHandle + 1
    /\ outcome' = [outcome EXCEPT ![t] = "pending"]
    /\ UNCHANGED <<m_cancelled, mainPc, mainTask, pollVars, cancelRequested>>

InlineSubmit(t) ==
    /\ UserCode
    /\ outcome[t] = "unsubmitted"
    /\ m_status' = [m_status EXCEPT ![t] = "Pending"]
    /\ m_workQueue' = Append(m_workQueue, t)
    /\ handle' = [handle EXCEPT ![t] = m_nextHandle] /\ m_nextHandle' = m_nextHandle + 1
    /\ outcome' = [outcome EXCEPT ![t] = "pending"]
    /\ UNCHANGED <<m_cancelled, mainPc, mainTask, pollVars, cancelRequested>>

(* WorkTask::cancel() on one task, as a promise's cancel closure calls it. *)
InlineCancelTask(t) ==
    /\ UserCode
    /\ outcome[t] = "pending" /\ ~m_cancelled[t]
    /\ m_cancelled' = [m_cancelled EXCEPT ![t] = TRUE]
    /\ cancelRequested' = cancelRequested \cup {t}
    /\ UNCHANGED <<m_workQueue, m_nextHandle, m_status, mainPc, mainTask, pollVars,
                   outcome, handle>>

(* MUTANT: the owner's tasks leave the queue with nobody told.             *)
InlineCancelErases(o) ==
    /\ UserCode
    /\ m_cancelled' = Flagged(m_workQueue, o)
    /\ m_workQueue' = SelectSeq(m_workQueue, LAMBDA t : OwnerOf[t] # o)
    /\ cancelRequested' = cancelRequested \cup {t \in Pending : OwnerOf[t] = o}
    /\ UNCHANGED <<m_nextHandle, m_status, mainPc, mainTask, pollVars, outcome, handle>>

(* MUTANT: the loop over the queue stops at the owner's first task.        *)
InlineCancelFirst(o) ==
    LET mine == SelectSeq(m_workQueue, LAMBDA t : OwnerOf[t] = o) IN
    /\ UserCode
    /\ m_cancelled' = IF mine = <<>> THEN m_cancelled
                      ELSE [m_cancelled EXCEPT ![Head(mine)] = TRUE]
    /\ cancelRequested' = cancelRequested \cup {t \in Pending : OwnerOf[t] = o}
    /\ UNCHANGED <<m_workQueue, m_nextHandle, m_status, mainPc, mainTask, pollVars,
                   outcome, handle>>

(* cancelAllForOwner only raises flags.  What the caller asks for is that  *)
(* every pending task of the owner is cancelled.                           *)
InlineCancelAllForOwner(o) ==
    /\ UserCode
    /\ m_cancelled' = Flagged(m_workQueue, o)
    /\ cancelRequested' = cancelRequested \cup {t \in Pending : OwnerOf[t] = o}
    /\ UNCHANGED <<m_workQueue, m_nextHandle, m_status, mainPc, mainTask, pollVars,
                   outcome, handle>>

(* rive_pollAsyncWork asks hasPendingWork first; riveLuaPollAsyncWork,     *)
(* called outside callbacks, does not.                                     *)
InlinePoll ==
    /\ UserCode /\ depth < MaxNesting
    /\ m_workQueue # <<>> \/ mainPc = "idle"
    /\ BeginPoll
    /\ UNCHANGED <<m_workQueue, m_nextHandle, m_status, m_cancelled, mainTask, history,
                   handle>>

(* One turn of pollCompletedWork's loop takes the oldest task; a flagged   *)
(* one has its onCancel and is not executed.                               *)
InlineTake ==
    LET first == Head(m_workQueue) IN
    /\ mainPc = "poll"
    /\ processed[depth] < MaxCallbacks /\ m_workQueue # <<>>
    /\ m_workQueue' = Tail(m_workQueue)
    /\ IF m_cancelled[first]
       THEN /\ m_status' = [m_status EXCEPT ![first] = "Cancelled"]
            /\ outcome' = [outcome EXCEPT ![first] = "cancelled"]
            /\ mainPc' = "callback" /\ UNCHANGED mainTask
       ELSE /\ m_status' = [m_status EXCEPT ![first] = "Running"]
            /\ mainPc' = "execute" /\ mainTask' = first
            /\ UNCHANGED outcome
    /\ UNCHANGED <<m_nextHandle, m_cancelled, pollVars, cancelRequested, handle>>

(* execute() returns, the flag is read again, and the callback begins:     *)
(* onCancel, onComplete or onError.                                        *)
InlineExecute ==
    /\ mainPc = "execute"
    /\ \E answer \in IF m_cancelled[mainTask] THEN {<<"Cancelled", "cancelled">>}
                     ELSE {<<"Completed", "completed">>, <<"Failed", "failed">>} :
          /\ m_status' = [m_status EXCEPT ![mainTask] = answer[1]]
          /\ outcome' = [outcome EXCEPT ![mainTask] = answer[2]]
    /\ mainTask' = NoTask /\ mainPc' = "callback"
    /\ UNCHANGED <<m_workQueue, m_nextHandle, m_cancelled, pollVars, cancelRequested, handle>>

InlineCallbackReturns ==
    /\ mainPc = "callback"
    /\ processed' = [processed EXCEPT ![depth] = @ + 1]
    /\ mainPc' = "poll"
    /\ UNCHANGED <<m_workQueue, m_nextHandle, m_status, m_cancelled, mainTask, depth,
                   history, handle>>

InlinePollReturn ==
    /\ mainPc = "poll"
    /\ processed[depth] = MaxCallbacks \/ m_workQueue = <<>>
    /\ EndPoll
    /\ UNCHANGED <<m_workQueue, m_nextHandle, m_status, m_cancelled, mainTask, history,
                   handle>>

(* ~WorkPool: onCancel for the flagged tasks left, the others are dropped. *)
InlineDestroy ==
    LET left == InQueue(m_workQueue) IN
    /\ mainPc = "idle"
    /\ outcome' = [t \in Tasks |-> CASE t \notin left -> outcome[t]
                                     [] t \in left /\ m_cancelled[t] -> "cancelled"
                                     [] OTHER -> "dropped"]
    /\ m_status' = [t \in Tasks |-> IF t \in left /\ m_cancelled[t]
                                    THEN "Cancelled" ELSE m_status[t]]
    /\ m_workQueue' = <<>>
    /\ mainPc' = "destroyed"
    /\ UNCHANGED <<m_nextHandle, m_cancelled, mainTask, pollVars, cancelRequested, handle>>

(* The steps of a poll that has begun.                                     *)
InlineMainStep ==
    \/ InlineTake \/ InlineExecute \/ InlineCallbackReturns \/ InlinePollReturn

InlineUserStep ==
    \/ \E t \in Tasks : InlineSubmit(t) \/ InlineCancelTask(t)
    \/ \E o \in Owners : InlineCancelAllForOwner(o)
    \/ InlinePoll \/ InlineDestroy

InlineStep == InlineUserStep \/ InlineMainStep

InlineSafety == InlineInit /\ [][InlineStep]_inlineVars
-----------------------------------------------------------------------------
(* The type invariant; a poll delivers at most maxCallbacks, however its   *)
(* callbacks poll in turn.                                                 *)
InlineTypeOK ==
    /\ TasksTypeOK
    /\ mainPc \in {"idle", "poll", "execute", "callback", "destroyed"}
    /\ handle \in [Tasks -> Nat]

(* work_pool.hpp:45 holds in this build: when user code asks, the tasks    *)
(* that wait for an answer are those of the queue, so that hasPendingWork, *)
(* which looks at nothing else, is exact.                                  *)
HasPendingWorkSeesAll == UserCode => InQueue(m_workQueue) = Pending

(* Tasks are answered in the order of their handles, whatever callbacks    *)
(* submit, cancel and poll: as long as the pool lives, no task waits while *)
(* one that was submitted after it has its answer.                         *)
AnsweredInOrder ==
    \A t, u \in Tasks :
        outcome[t] = "pending" /\ outcome[u] \notin {"unsubmitted", "pending"}
            => handle[u] < handle[t]
=============================================================================
