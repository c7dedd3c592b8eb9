--------------------------- MODULE AsyncDelivery ---------------------------
(***************************************************************************)
(* What WorkPool (runtime/include/rive/async/work_pool.hpp) promises to    *)
(* the code that submits tasks, with no queue, thread or lock in sight:    *)
(* a submitted task is answered at most once, by onComplete, onError or    *)
(* onCancel; once its cancellation was requested only onCancel is left;    *)
(* onCancel comes only after such a request; and closing the pool answers  *)
(* or drops whatever is left.                                              *)
(***************************************************************************)
CONSTANT Tasks

VARIABLES
    outcome,          \* what the submitter of each task has been told
    cancelRequested,  \* tasks cancelled while they were still pending
    closed            \* the pool was destroyed

avars == <<outcome, cancelRequested, closed>>

Outcomes == {"unsubmitted", "pending", "completed", "failed", "cancelled", "dropped"}

AbsInit ==
    /\ outcome = [t \in Tasks |-> "unsubmitted"]
    /\ cancelRequested = {}
    /\ closed = FALSE

AbsPending == {t \in Tasks : outcome[t] = "pending"}

AbsSubmit(t) ==
    /\ ~closed
    /\ outcome[t] = "unsubmitted"
    /\ outcome' = [outcome EXCEPT ![t] = "pending"]
    /\ UNCHANGED <<cancelRequested, closed>>

AbsCancel(S) ==
    /\ S \subseteq AbsPending
    /\ cancelRequested' = cancelRequested \cup S
    /\ UNCHANGED <<outcome, closed>>

AbsAnswer(t) ==
    /\ outcome[t] = "pending"
    /\ \E o \in IF t \in cancelRequested THEN {"cancelled"} ELSE {"completed", "failed"} :
          outcome' = [outcome EXCEPT ![t] = o]
    /\ UNCHANGED <<cancelRequested, closed>>

(* What closing the pool may leave of a task.                              *)
AbsClosedOutcome(t) ==
    CASE outcome[t] # "pending" -> {outcome[t]}
      [] outcome[t] = "pending" /\ t \in cancelRequested -> {"cancelled", "dropped"}
      [] OTHER -> {"dropped"}

AbsClose ==
    /\ ~closed
    /\ closed' = TRUE
    /\ outcome' \in [Tasks -> Outcomes]
    /\ \A t \in Tasks : outcome'[t] \in AbsClosedOutcome(t)
    /\ UNCHANGED cancelRequested

AbsNext ==
    \/ \E t \in Tasks : AbsSubmit(t) \/ AbsAnswer(t)
    \/ \E S \in SUBSET Tasks : AbsCancel(S)
    \/ AbsClose

AbsSpec == AbsInit /\ [][AbsNext]_avars
=============================================================================
