--------------------------- MODULE WorkPoolProofs ---------------------------
(***************************************************************************)
(* Proofs about WorkPool for any set of tasks, owners and workers: its     *)
(* types, that a cancelled task never completes, and that the pool keeps   *)
(* one reference to every pending task, counts its workers, and so         *)
(* implements AsyncDelivery.  Then that the build without threads does so  *)
(* too, answers in order and always knows what is pending.                 *)
(***************************************************************************)
EXTENDS WorkPool, InlineWorkPool, FiniteSetTheorems, TLAPS

(* Only the innermost poll may have answered its last task: each of the    *)
(* others has the callback it is in still to count.                        *)
PollBound ==
    /\ mainPc \in {"poll", "deliver", "callback"} => depth > 0
    /\ mainPc \in {"hasQueued", "hasCompleted"} => depth < MaxNesting
    /\ mainPc = "idle" => depth = 0
    /\ \A d \in 1..depth : d < depth \/ mainPc # "poll" => processed[d] < MaxCallbacks

(* A worker's local is set exactly between its pop and its push, and the   *)
(* main thread's exactly between its pop and the callback.                 *)
HoldingPcs == {"popped", "check", "execute", "push", "pushCancelled"}
LocalsMatch ==
    /\ \A w \in Workers : pc[w] \in HoldingPcs <=> task[w] # NoTask
    /\ mainPc = "deliver" <=> mainTask # NoTask

TypeInv == TypeOK /\ PollBound /\ LocalsMatch

(* A poll begins, in a frame or inside another.                            *)
LEMMA PollBegins ==
  ASSUME TypeInv, BeginPoll, depth < MaxNesting,
         mainPc \in {"idle", "callback", "hasQueued", "hasCompleted"},
         UNCHANGED <<queueVars, cancelVars, poolVars, taskVars, workerVars, mainTask,
                     cancelOwner, history>>
  PROVE  TypeInv'
<1> USE PollAssumption DEF TypeInv, TypeOK, TasksTypeOK, PollBound, LocalsMatch
<1>1. /\ depth + 1 \in 1..MaxNesting /\ depth' \in 0..MaxNesting /\ mainPc' \in MainPcs
      /\ processed' \in [1..MaxNesting -> 0..MaxCallbacks]
  BY DEF BeginPoll, MainPcs
<1>2. TypeOK'
  BY <1>1 DEF queueVars, cancelVars, poolVars, taskVars, workerVars, history
<1>3. PollBound'
  BY <1>1 DEF BeginPoll
<1>4. LocalsMatch'
  BY DEF BeginPoll, workerVars, HoldingPcs
<1> QED
  BY <1>2, <1>3, <1>4

(* Every step of the user keeps the type invariant.                        *)
LEMMA UserKeepsType == TypeInv /\ UserStep => TypeInv'
<1> SUFFICES ASSUME TypeInv, UserStep PROVE TypeInv'
  OBVIOUS
<1> USE TaskAssumption, OwnerAssumption, PollAssumption
    DEF TypeInv, TypeOK, TasksTypeOK, PollBound, LocalsMatch, HoldingPcs, Statuses,
        WorkerPcs, MainPcs, UserCode, pollVars
<1>1. ASSUME NEW t \in Tasks, Submit(t) PROVE TypeInv'
  BY <1>1 DEF Submit, cancelVars, workerVars
<1>2. ASSUME NEW t \in Tasks, CancelTask(t) PROVE TypeInv'
  BY <1>2 DEF CancelTask, queueVars, cancelVars, poolVars, workerVars, mainVars, pollVars
<1>3. ASSUME NEW o \in Owners, CancelAllForOwner(o) PROVE TypeInv'
  BY <1>3 DEF CancelAllForOwner, Flagged, Pending, queueVars, poolVars, workerVars
<1>4. CASE HasInFlight
  <2>1. CASE BeginPoll
    BY <1>4, <2>1, PollBegins DEF HasInFlight
  <2>2. CASE mainPc' = "hasQueued" /\ UNCHANGED pollVars
    BY <1>4, <2>2 DEF HasInFlight, queueVars, cancelVars, poolVars, taskVars, workerVars,
                      history
  <2> QED
    BY <1>4, <2>1, <2>2 DEF HasInFlight, PollIf
<1>5. CASE PollDirectly
  <2>1. depth = 0 /\ depth < MaxNesting /\ mainPc = "idle"
    BY <1>5 DEF PollDirectly
  <2> HIDE DEF TypeInv
  <2> QED
    BY <1>5, <2>1, PollBegins DEF PollDirectly
<1>6. CASE Shutdown
  BY <1>6 DEF Shutdown, queueVars, cancelVars, taskVars, workerVars, history
<1> QED
  BY <1>1, <1>2, <1>3, <1>4, <1>5, <1>6 DEF UserStep

(* Every step inside a pool call keeps the type invariant.                 *)
LEMMA MainKeepsType == TypeInv /\ MainStep => TypeInv'
<1> SUFFICES ASSUME TypeInv, MainStep PROVE TypeInv'
  OBVIOUS
<1> USE TaskAssumption, OwnerAssumption, PollAssumption
    DEF TypeInv, TypeOK, TasksTypeOK, PollBound, LocalsMatch, HoldingPcs, Statuses, WorkerPcs,
        MainPcs, pollVars
<1>1. CASE NotifyOne
  <2>1. /\ pc' \in [Workers -> WorkerPcs]
        /\ \A w \in Workers : pc'[w] \in HoldingPcs <=> pc[w] \in HoldingPcs
    BY <1>1 DEF NotifyOne
  <2>2. /\ mainPc = "notify" /\ mainPc' = IF depth > 0 THEN "callback" ELSE "idle"
        /\ UNCHANGED <<queueVars, cancelVars, poolVars, taskVars, task, mainTask, pollVars,
                       cancelOwner, history>>
    BY <1>1 DEF NotifyOne, UserPc
  <2>3. TypeOK'
    BY <2>1, <2>2 DEF queueVars, cancelVars, poolVars, taskVars, history
  <2>4. PollBound'
    BY <2>2
  <2>5. LocalsMatch'
    BY <2>1, <2>2
  <2> QED
    BY <2>3, <2>4, <2>5
<1>2. CASE CancelCompleted
  BY <1>2 DEF CancelCompleted, Flagged, UserPc, queueVars, cancelVars, poolVars,
              workerVars, history
<1>3. CASE HasQueued
  <2>1. CASE BeginPoll
    BY <1>3, <2>1, PollBegins DEF HasQueued
  <2>2. CASE mainPc' = "hasCompleted" /\ UNCHANGED pollVars
    BY <1>3, <2>2 DEF HasQueued, queueVars, cancelVars, poolVars, taskVars, workerVars, history
  <2> QED
    BY <1>3, <2>1, <2>2 DEF HasQueued, PollIf
<1>4. CASE HasCompleted
  <2>1. CASE BeginPoll
    BY <1>4, <2>1, PollBegins DEF HasCompleted
  <2>2. CASE mainPc' = UserPc /\ UNCHANGED pollVars
    BY <1>4, <2>2 DEF HasCompleted, UserPc, queueVars, cancelVars, poolVars, taskVars,
                      workerVars, history
  <2> QED
    BY <1>4, <2>1, <2>2 DEF HasCompleted, PollIf
<1>5. CASE PollPop
  <2>1. mainTask' \in Tasks /\ m_completedQueue' \in Seq(Tasks)
    BY <1>5 DEF PollPop
  <2>2. /\ mainPc = "poll" /\ mainPc' = "deliver" /\ processed[depth] < MaxCallbacks
        /\ UNCHANGED <<m_workQueue, cancelVars, poolVars, taskVars, workerVars, pollVars,
                       cancelOwner, history>>
    BY <1>5 DEF PollPop
  <2>3. TypeOK'
    BY <2>1, <2>2 DEF cancelVars, poolVars, taskVars, workerVars, history
  <2>4. PollBound' /\ LocalsMatch'
    BY <2>1, <2>2 DEF workerVars
  <2> QED
    BY <2>3, <2>4
<1>6. CASE PollReturn
  <2>1. /\ mainPc = "poll" /\ mainPc' = IF depth > 1 THEN "callback" ELSE "idle"
        /\ depth \in 1..MaxNesting /\ depth' = depth - 1
        /\ processed' = [processed EXCEPT ![depth] = 0]
        /\ UNCHANGED <<queueVars, cancelVars, poolVars, taskVars, workerVars, mainTask,
                       cancelOwner, history>>
    BY <1>6 DEF PollReturn, EndPoll
  <2>2. TypeOK'
    BY <2>1 DEF queueVars, cancelVars, poolVars, taskVars, workerVars, history
  <2>3. PollBound'
    BY <2>1
  <2>4. LocalsMatch'
    BY <2>1 DEF workerVars
  <2> QED
    BY <2>2, <2>3, <2>4
<1>7. CASE Deliver
  <2>1. Answer(mainTask) \in {"cancelled", "completed", "failed", "pending"}
    BY DEF Answer
  <2> QED
    BY <1>7, <2>1 DEF Deliver, queueVars, cancelVars, poolVars, workerVars
<1>8. CASE CallbackReturns
  <2>1. /\ depth \in 1..MaxNesting /\ processed[depth] \in 0..(MaxCallbacks - 1)
        /\ processed' = [processed EXCEPT ![depth] = processed[depth] + 1]
    BY <1>8 DEF CallbackReturns
  <2>2. processed' \in [1..MaxNesting -> 0..MaxCallbacks]
    BY <2>1
  <2> QED
    BY <1>8, <2>1, <2>2 DEF CallbackReturns, queueVars, cancelVars, poolVars, taskVars,
                            workerVars, history
<1>9. CASE NotifyAll
  BY <1>9 DEF NotifyAll, queueVars, cancelVars, poolVars, taskVars, history
<1>10. CASE Drain
  BY <1>10 DEF Drain, cancelVars, poolVars, workerVars
<1> QED
  BY <1>1, <1>2, <1>3, <1>4, <1>5, <1>6, <1>7, <1>8, <1>9, <1>10 DEF MainStep

(* Every step of a worker keeps the type invariant.                        *)
LEMMA WorkerKeepsType ==
  ASSUME TypeInv, NEW w \in Workers, WorkerStep(w) \/ SpuriousWakeup(w)
  PROVE  TypeInv'
<1> USE TaskAssumption, OwnerAssumption, PollAssumption
    DEF TypeInv, TypeOK, TasksTypeOK, PollBound, LocalsMatch, HoldingPcs, Statuses,
        WorkerPcs, MainPcs, Goto,
        mainVars, pollVars, queueVars, cancelVars, poolVars, taskVars, history
<1>1. CASE Block(w)
  BY <1>1 DEF Block
<1>8. CASE Exit(w)
  BY <1>8 DEF Exit
<1>9. CASE SpuriousWakeup(w)
  BY <1>9 DEF SpuriousWakeup
<1>2. CASE Take(w)
  <2>1. Head(m_workQueue) \in Tasks /\ m_workQueue' \in Seq(Tasks)
    BY <1>2 DEF Take
  <2>2. TypeOK'
    BY <1>2, <2>1 DEF Take
  <2>3. PollBound' /\ LocalsMatch'
    BY <1>2, <2>1 DEF Take
  <2> QED
    BY <2>2, <2>3
<1>3. CASE CountInFlight(w)
  BY <1>3 DEF CountInFlight
<1>10. CASE Decrement(w)
  <2>1. TypeOK'
    BY <1>10 DEF Decrement
  <2>2. PollBound' /\ LocalsMatch'
    BY <1>10 DEF Decrement
  <2> QED
    BY <2>1, <2>2
<1>4. CASE CheckCancelled(w)
  BY <1>4 DEF CheckCancelled
<1>5. CASE Execute(w)
  BY <1>5 DEF Execute
<1>6. CASE Push(w)
  <2>1. m_completedQueue' \in Seq(Tasks)
    BY <1>6 DEF Push
  <2>2. TypeOK'
    BY <1>6, <2>1 DEF Push
  <2>3. PollBound' /\ LocalsMatch'
    BY <1>6 DEF Push
  <2> QED
    BY <2>2, <2>3
<1>7. CASE PushCancelled(w)
  BY <1>7 DEF PushCancelled
<1> QED
  BY <1>1, <1>2, <1>3, <1>4, <1>5, <1>6, <1>7, <1>8, <1>9, <1>10 DEF WorkerStep

LEMMA InitHasType == Init => TypeInv
<1> SUFFICES ASSUME Init PROVE TypeInv
  OBVIOUS
<1> USE DEF Init, TasksInit
<1>1. TasksTypeOK
  <2>1. m_workQueue \in Seq(Tasks) /\ m_nextHandle \in Nat \ {0}
    OBVIOUS
  <2>2. depth \in 0..MaxNesting /\ processed \in [1..MaxNesting -> 0..MaxCallbacks]
    BY PollAssumption
  <2>3. /\ m_status \in [Tasks -> Statuses] /\ m_cancelled \in [Tasks -> BOOLEAN]
        /\ mainTask \in Tasks \cup {NoTask} /\ cancelRequested \in SUBSET Tasks
        /\ outcome \in [Tasks -> {"unsubmitted", "pending", "completed", "failed",
                                  "cancelled", "dropped"}]
    BY DEF Statuses
  <2> QED
    BY <2>1, <2>2, <2>3 DEF TasksTypeOK
<1>2. TypeOK
  <2>1. /\ m_completedQueue \in Seq(Tasks) /\ m_cancelGeneration \in Nat
        /\ m_cancelledOwners \in [Owners -> Nat] /\ m_submitGeneration \in [Tasks -> Nat]
        /\ m_inFlightCount \in Int
    OBVIOUS
  <2>2. m_shutdown \in BOOLEAN
    BY Zenon
  <2>3. /\ pc \in [Workers -> WorkerPcs] /\ task \in [Workers -> Tasks \cup {NoTask}]
        /\ mainPc \in MainPcs /\ cancelOwner \in Owners \cup {NoOwner}
    BY DEF WorkerPcs, MainPcs
  <2> QED
    BY <1>1, <2>1, <2>2, <2>3 DEF TypeOK
<1>3. PollBound /\ LocalsMatch
  BY PollAssumption DEF PollBound, LocalsMatch, HoldingPcs
<1> QED
  BY <1>2, <1>3 DEF TypeInv

LEMMA StutterKeepsType == TypeInv /\ UNCHANGED vars => TypeInv'
  BY DEF TypeInv, TypeOK, TasksTypeOK, PollBound, LocalsMatch, vars, queueVars, cancelVars,
         poolVars,
         taskVars, workerVars, mainVars, pollVars, history

LEMMA TypeInvariance == Safety => []TypeInv
<1>1. TypeInv /\ [Next]_vars => TypeInv'
  BY UserKeepsType, MainKeepsType, WorkerKeepsType, StutterKeepsType DEF Next
<1> QED
  BY InitHasType, <1>1, PTL DEF Safety

(* Every variable keeps its type, and a poll never answers more than       *)
(* maxCallbacks tasks, whatever its callbacks submit and cancel.           *)
THEOREM TypeCorrect == Safety => []TypeOK
<1>1. TypeInv => TypeOK
  BY DEF TypeInv
<1> QED
  BY TypeInvariance, <1>1, PTL

-----------------------------------------------------------------------------
(* Why a cancelled task cannot complete.  The flag is not enough: a task   *)
(* that a worker holds has none.  What holds in every state is that it is  *)
(* flagged or older than its owner's last cancel; generations only grow,   *)
(* so this cannot be undone, and pollCompletedWork tests exactly it.       *)

(* No task and no owner is ahead of the pool's generation.                 *)
GenerationBound ==
    /\ \A t \in Tasks : m_submitGeneration[t] <= m_cancelGeneration
    /\ \A o \in Owners : m_cancelledOwners[o] <= m_cancelGeneration

CancelKnown ==
    \A t \in cancelRequested :
        /\ outcome[t] # "unsubmitted"
        /\ m_cancelled[t] \/ OwnerCancelled(t)

CancelInv == GenerationBound /\ CancelKnown /\ CancelledNeverCompletes

LEMMA UserKeepsCancel == TypeInv /\ CancelInv /\ UserStep => CancelInv'
<1> SUFFICES ASSUME TypeInv, CancelInv, UserStep PROVE CancelInv'
  OBVIOUS
<1> USE OwnerAssumption
    DEF TypeInv, TypeOK, TasksTypeOK, CancelInv, GenerationBound, CancelKnown,
        CancelledNeverCompletes, OwnerCancelled
<1>1. ASSUME NEW t \in Tasks, Submit(t) PROVE CancelInv'
  BY <1>1 DEF Submit, cancelVars
<1>2. ASSUME NEW t \in Tasks, CancelTask(t) PROVE CancelInv'
  BY <1>2 DEF CancelTask, cancelVars
<1>3. ASSUME NEW o \in Owners, CancelAllForOwner(o) PROVE CancelInv'
  <2> USE <1>3 DEF CancelAllForOwner
  <2>1. GenerationBound'
    OBVIOUS
  <2>2. ASSUME NEW t \in cancelRequested' PROVE m_cancelled'[t] \/ OwnerCancelled(t)'
    <3>1. CASE t \in cancelRequested
      BY <3>1, <2>2 DEF Flagged
    <3>2. CASE t \in Pending /\ OwnerOf[t] = o
      BY <3>2 DEF Pending
    <3> QED
      BY <3>1, <3>2, <2>2
  <2>3. \A t \in cancelRequested' :
            outcome'[t] \in {"pending", "cancelled", "dropped"}
    BY DEF Pending
  <2> QED
    BY <2>1, <2>2, <2>3
<1>4. CASE HasInFlight \/ PollDirectly \/ Shutdown
  BY <1>4 DEF HasInFlight, PollDirectly, Shutdown, cancelVars, taskVars, history
<1> QED
  BY <1>1, <1>2, <1>3, <1>4 DEF UserStep

LEMMA MainKeepsCancel == TypeInv /\ CancelInv /\ MainStep => CancelInv'
<1> SUFFICES ASSUME TypeInv, CancelInv, MainStep PROVE CancelInv'
  OBVIOUS
<1> USE OwnerAssumption
    DEF TypeInv, TypeOK, TasksTypeOK, CancelInv, GenerationBound, CancelKnown,
        CancelledNeverCompletes, OwnerCancelled
<1>1. CASE CancelCompleted
  BY <1>1 DEF CancelCompleted, Flagged, cancelVars, history
<1>2. CASE Deliver
  <2>1. mainTask \in cancelRequested => Answer(mainTask) = "cancelled"
    <3> HIDE DEF OwnerCancelled
    <3>1. mainTask \in cancelRequested => m_cancelled[mainTask] \/ OwnerCancelled(mainTask)
      OBVIOUS
    <3> QED
      BY <3>1 DEF Answer
  <2>2. Answer(mainTask) \in {"cancelled", "completed", "failed", "pending"}
    BY DEF Answer
  <2> QED
    BY <1>2, <2>1, <2>2 DEF Deliver, cancelVars
<1>3. CASE Drain
  BY <1>3 DEF Drain, cancelVars
<1>4. CASE PollPop \/ PollReturn \/ CallbackReturns
  BY <1>4 DEF PollPop, PollReturn, CallbackReturns, cancelVars, taskVars, history
<1>5. CASE HasQueued \/ HasCompleted \/ NotifyOne \/ NotifyAll
  BY <1>5 DEF HasQueued, HasCompleted, NotifyOne, NotifyAll, cancelVars, taskVars, history
<1> QED
  BY <1>1, <1>2, <1>3, <1>4, <1>5 DEF MainStep

(* A worker changes neither flags nor generations nor outcomes.            *)
LEMMA WorkerKeepsCancel ==
  ASSUME CancelInv, NEW w \in Workers, WorkerStep(w) \/ SpuriousWakeup(w)
  PROVE  CancelInv'
<1>1. UNCHANGED <<cancelVars, m_cancelled, m_submitGeneration, history>>
  BY DEF WorkerStep, SpuriousWakeup, Block, Exit, Take, CountInFlight, CheckCancelled,
         Execute, Push, Decrement, PushCancelled, taskVars
<1> QED
  BY <1>1 DEF CancelInv, GenerationBound, CancelKnown, CancelledNeverCompletes,
              OwnerCancelled, cancelVars, history

LEMMA CancelInvariance == Safety => []CancelInv
<1>1. Init => CancelInv
  BY OwnerAssumption DEF Init, TasksInit, CancelInv, GenerationBound, CancelKnown,
                         CancelledNeverCompletes
<1>2. CancelInv /\ UNCHANGED vars => CancelInv'
  BY DEF CancelInv, GenerationBound, CancelKnown, CancelledNeverCompletes,
         OwnerCancelled, vars, cancelVars, taskVars, history
<1>3. TypeInv /\ CancelInv /\ [Next]_vars => CancelInv'
  BY UserKeepsCancel, MainKeepsCancel, WorkerKeepsCancel, <1>2 DEF Next
<1> QED
  BY TypeInvariance, <1>1, <1>3, PTL DEF Safety

(* Once its cancellation was requested, a task is never completed nor      *)
(* failed, wherever the workers had it: its owner's Lua state may be gone. *)
THEOREM CancelIsFinal == Safety => []CancelledNeverCompletes
<1>1. CancelInv => CancelledNeverCompletes
  BY DEF CancelInv
<1> QED
  BY CancelInvariance, <1>1, PTL

-----------------------------------------------------------------------------
(* Queues as sets.                                                         *)

NoRepeat(q) == \A i, j \in DOMAIN q : q[i] = q[j] => i = j

LEMMA Appended ==
    ASSUME NEW q \in Seq(Tasks), NEW t \in Tasks, NoRepeat(q), t \notin InQueue(q)
    PROVE  /\ InQueue(Append(q, t)) = InQueue(q) \cup {t}
           /\ NoRepeat(Append(q, t))
<1> DEFINE r == Append(q, t)
<1>1. /\ DOMAIN q = 1..Len(q) /\ DOMAIN r = 1..(Len(q) + 1) /\ Len(q) \in Nat
      /\ \A i \in 1..Len(q) : r[i] = q[i]
      /\ r[Len(q) + 1] = t
  OBVIOUS
<1>2. \A i \in DOMAIN q : q[i] # t
  BY DEF InQueue
<1> HIDE DEF r
<1>3. NoRepeat(r)
  BY <1>1, <1>2 DEF NoRepeat
<1>4. ASSUME NEW x PROVE x \in InQueue(r) <=> x \in InQueue(q) \/ x = t
  <2>1. ASSUME x \in InQueue(r) PROVE x \in InQueue(q) \/ x = t
    BY <1>1, <2>1 DEF InQueue
  <2>2. ASSUME x \in InQueue(q) PROVE x \in InQueue(r)
    BY <1>1, <2>2 DEF InQueue
  <2>3. t \in InQueue(r)
    BY <1>1 DEF InQueue
  <2> QED
    BY <2>1, <2>2, <2>3
<1> QED
  BY <1>3, <1>4 DEF r

LEMMA Popped ==
    ASSUME NEW q \in Seq(Tasks), q # <<>>, NoRepeat(q)
    PROVE  /\ Head(q) \in InQueue(q) /\ Head(q) \in Tasks
           /\ InQueue(Tail(q)) = InQueue(q) \ {Head(q)}
           /\ NoRepeat(Tail(q))
<1> DEFINE r == Tail(q)
<1>1. /\ DOMAIN q = 1..Len(q) /\ Len(q) \in Nat \ {0} /\ DOMAIN r = 1..(Len(q) - 1)
      /\ \A i \in 1..(Len(q) - 1) : r[i] = q[i + 1]
      /\ Head(q) = q[1] /\ q[1] \in Tasks
  OBVIOUS
<1> HIDE DEF r
<1>2. Head(q) \in InQueue(q)
  BY <1>1 DEF InQueue
<1>3. NoRepeat(r)
  <2>1. SUFFICES ASSUME NEW i \in 1..(Len(q) - 1), NEW j \in 1..(Len(q) - 1), r[i] = r[j]
                 PROVE  i = j
    BY <1>1 DEF NoRepeat
  <2>2. q[i + 1] = q[j + 1] /\ i + 1 \in DOMAIN q /\ j + 1 \in DOMAIN q
    BY <1>1, <2>1
  <2>3. i + 1 = j + 1
    BY <2>2 DEF NoRepeat
  <2> QED
    BY <2>3
<1>4. ASSUME NEW x PROVE x \in InQueue(r) <=> x \in InQueue(q) /\ x # Head(q)
  <2>1. ASSUME NEW i \in DOMAIN r, x = r[i] PROVE x \in InQueue(q) /\ x # Head(q)
    <3>1. x = q[i + 1] /\ i + 1 \in DOMAIN q /\ 1 \in DOMAIN q /\ i + 1 # 1
      BY <1>1, <2>1
    <3> QED
      BY <1>1, <3>1 DEF NoRepeat, InQueue
  <2>2. ASSUME NEW i \in DOMAIN q, x = q[i], x # Head(q) PROVE x \in InQueue(r)
    <3>1. i - 1 \in DOMAIN r /\ r[i - 1] = x
      BY <1>1, <2>2
    <3> QED
      BY <3>1 DEF InQueue
  <2> QED
    BY <2>1, <2>2 DEF InQueue
<1> QED
  BY <1>1, <1>2, <1>3, <1>4 DEF r

LEMMA Empty == InQueue(<<>>) = {} /\ NoRepeat(<<>>)
BY DEF InQueue, NoRepeat

-----------------------------------------------------------------------------
(* The invariant.  Who holds a task: a queue, a worker or the poll.        *)

Queued == InQueue(m_workQueue)
Done == InQueue(m_completedQueue)
Held(t) == t \in Queued \/ t \in Done \/ (\E w \in Workers : task[w] = t) \/ mainTask = t

(* No two of them hold the same task, and no queue holds one twice.        *)
Apart ==
    /\ NoRepeat(m_workQueue) /\ NoRepeat(m_completedQueue)
    /\ \A t \in Tasks : ~(t \in Queued /\ t \in Done)
    /\ \A w \in Workers : task[w] \notin Queued /\ task[w] \notin Done
    /\ mainTask \notin Queued /\ mainTask \notin Done
    /\ \A v, w \in Workers : task[v] = task[w] => v = w \/ task[v] = NoTask
    /\ \A w \in Workers : task[w] = mainTask => mainTask = NoTask

HeldIsPending == \A t \in Tasks : outcome[t] = "pending" <=> Held(t)

(* What a worker pushes has a status that the poll answers, or a flag.     *)
Finished(t) == m_status[t] \in {"Completed", "Failed"} \/ m_cancelled[t]
PushedIsFinished ==
    /\ \A t \in Tasks : t \in Done \/ t = mainTask => Finished(t)
    /\ \A w \in Workers : pc[w] \in {"push", "pushCancelled"} => Finished(task[w])

HoldInv == Apart /\ HeldIsPending /\ PushedIsFinished

LEMMA QueuesHoldTasks ==
    ASSUME TypeInv
    PROVE  /\ Queued \subseteq Tasks /\ Done \subseteq Tasks
           /\ NoTask \notin Queued /\ NoTask \notin Done
BY TaskAssumption DEF TypeInv, TypeOK, TasksTypeOK, Queued, Done, InQueue

(* A step that moves no task and answers none.                             *)
Still == UNCHANGED <<queueVars, task, mainTask, outcome>>

LEMMA StillHolds ==
    ASSUME HoldInv, Still
    PROVE  Apart' /\ HeldIsPending' /\ (\A t : Held(t)' <=> Held(t))
<1>1. Queued' = Queued /\ Done' = Done
  BY DEF Still, queueVars, Queued, Done
<1>2. NoRepeat(m_workQueue)' /\ NoRepeat(m_completedQueue)'
  BY DEF HoldInv, Apart, Still, queueVars, NoRepeat
<1> QED
  BY <1>1, <1>2 DEF HoldInv, Apart, HeldIsPending, Held, Still

(* A still step that keeps statuses, flags and the workers' pcs apart from *)
(* leaving places where nothing was finished.                              *)
LEMMA QuietHolds ==
    ASSUME TypeInv, HoldInv, Still, UNCHANGED m_status,
           \A t \in Tasks : m_cancelled[t] => m_cancelled'[t],
           \A w \in Workers : pc'[w] \in {"push", "pushCancelled"} => pc'[w] = pc[w]
    PROVE  HoldInv'
<1>1. PushedIsFinished'
  <2>1. Done' = Done /\ mainTask' = mainTask /\ task' = task
    BY DEF Still, queueVars, Done
  <2>2. \A t \in Tasks : Finished(t) => Finished(t)'
    BY DEF Finished
  <2>3. \A w \in Workers : pc[w] \in {"push", "pushCancelled"} => task[w] \in Tasks
    BY DEF TypeInv, TypeOK, TasksTypeOK, LocalsMatch, HoldingPcs
  <2> QED
    BY <2>1, <2>2, <2>3 DEF HoldInv, PushedIsFinished
<1> QED
  BY <1>1, StillHolds DEF HoldInv

LEMMA UserHolds ==
    ASSUME TypeInv, HoldInv, UserStep
    PROVE  HoldInv'
<1>1. ASSUME NEW t \in Tasks, Submit(t) PROVE HoldInv'
  <2>1. ~Held(t) /\ outcome[t] = "unsubmitted"
    BY <1>1 DEF Submit, HoldInv, HeldIsPending
  <2>2. Queued' = Queued \cup {t} /\ NoRepeat(m_workQueue)'
    BY <1>1, <2>1, Appended DEF Submit, TypeInv, TypeOK, TasksTypeOK, HoldInv, Apart,
                                Queued, Held
  <2>3. /\ Done' = Done /\ NoRepeat(m_completedQueue)'
        /\ task' = task /\ mainTask' = mainTask /\ pc' = pc
    BY <1>1 DEF Submit, workerVars, Done, HoldInv, Apart
  <2>4. Apart'
    BY <2>1, <2>2, <2>3 DEF HoldInv, Apart, Held
  <2>5. HeldIsPending'
    BY <1>1, <2>1, <2>2, <2>3 DEF Submit, HoldInv, HeldIsPending, Held, TypeInv, TypeOK,
                                  TasksTypeOK
  <2>6. PushedIsFinished'
    <3>1. \A r \in Tasks : r # t => (Finished(r) => Finished(r)')
      BY <1>1 DEF Submit, Finished, TypeInv, TypeOK, TasksTypeOK
    <3>2. \A w \in Workers : pc[w] \in {"push", "pushCancelled"} => task[w] \in Tasks
      BY DEF TypeInv, TypeOK, TasksTypeOK, LocalsMatch, HoldingPcs
    <3> QED
      BY <2>1, <2>3, <3>1, <3>2 DEF HoldInv, PushedIsFinished, Held
  <2> QED
    BY <2>4, <2>5, <2>6 DEF HoldInv
<1>2. ASSUME NEW t \in Tasks, CancelTask(t) PROVE HoldInv'
  BY <1>2, QuietHolds DEF CancelTask, Still, workerVars, mainVars, pollVars, TypeInv,
                          TypeOK, TasksTypeOK
<1>3. ASSUME NEW o \in Owners, CancelAllForOwner(o) PROVE HoldInv'
  BY <1>3, QuietHolds DEF CancelAllForOwner, Still, Flagged, workerVars
<1>4. CASE HasInFlight
  BY <1>4, QuietHolds DEF HasInFlight, Still, taskVars, workerVars, history
<1>5. CASE PollDirectly
  BY <1>5, QuietHolds DEF PollDirectly, Still, taskVars, workerVars, history
<1>6. CASE Shutdown
  BY <1>6, QuietHolds DEF Shutdown, Still, taskVars, workerVars, history
<1> QED
  BY <1>1, <1>2, <1>3, <1>4, <1>5, <1>6 DEF UserStep

LEMMA MainHolds ==
    ASSUME TypeInv, CancelInv, HoldInv, MainStep
    PROVE  HoldInv'
<1>1. CASE PollPop
  <2>1. PICK t \in Tasks : t = Head(m_completedQueue)
    BY <1>1, Popped DEF PollPop, TypeInv, TypeOK, TasksTypeOK, HoldInv, Apart
  <2>2. /\ t \in Done /\ Done' = Done \ {t} /\ NoRepeat(m_completedQueue)'
    BY <1>1, <2>1, Popped DEF PollPop, TypeInv, TypeOK, TasksTypeOK, HoldInv, Apart, Done
  <2>3. /\ Queued' = Queued /\ NoRepeat(m_workQueue)' /\ mainTask' = t /\ mainTask = NoTask
        /\ UNCHANGED <<task, pc, m_status, m_cancelled, outcome>>
    BY <1>1, <2>1 DEF PollPop, Queued, HoldInv, Apart, TypeInv, LocalsMatch,
                      workerVars, taskVars, history
  <2>4. Apart'
    BY <2>2, <2>3 DEF HoldInv, Apart
  <2>5. \A r \in Tasks : Held(r)' <=> Held(r)
    BY <2>2, <2>3, TaskAssumption DEF Held
  <2>6. HeldIsPending'
    BY <2>3, <2>5 DEF HoldInv, HeldIsPending
  <2>7. PushedIsFinished'
    BY <2>2, <2>3 DEF HoldInv, PushedIsFinished, Finished
  <2> QED
    BY <2>4, <2>6, <2>7 DEF HoldInv
<1>2. CASE Deliver
  <2>1. PICK t \in Tasks : t = mainTask
    BY <1>2 DEF Deliver, TypeInv, TypeOK, TasksTypeOK, LocalsMatch
  <2>2. Answer(t) # "pending" /\ Finished(t)
    BY <2>1 DEF HoldInv, PushedIsFinished, Finished, Answer
  <2>3. /\ mainTask' = NoTask /\ UNCHANGED <<queueVars, task, pc, m_cancelled>>
        /\ outcome' = [outcome EXCEPT ![t] = Answer(t)]
        /\ \A r \in Tasks : r # t => m_status'[r] = m_status[r]
    BY <1>2, <2>1 DEF Deliver, workerVars, TypeInv, TypeOK, TasksTypeOK
  <2>4. Queued' = Queued /\ Done' = Done
    BY <2>3 DEF Queued, Done, queueVars
  <2>5. Apart'
    <3>1. NoRepeat(m_workQueue)' /\ NoRepeat(m_completedQueue)'
      BY <2>3 DEF HoldInv, Apart, queueVars
    <3> QED
      BY <2>3, <2>4, <3>1, QueuesHoldTasks DEF HoldInv, Apart
  <2>6. t \notin Queued /\ t \notin Done /\ \A w \in Workers : task[w] # t
    BY <2>1, TaskAssumption DEF HoldInv, Apart
  <2>7. HeldIsPending'
    <3>1. SUFFICES ASSUME NEW r \in Tasks
                   PROVE  outcome'[r] = "pending" <=> Held(r)'
      BY DEF HeldIsPending
    <3>2. CASE r = t
      BY <2>2, <2>3, <2>4, <2>6, <3>2, TaskAssumption DEF Held, TypeInv, TypeOK, TasksTypeOK
    <3>3. CASE r # t
      BY <2>1, <2>3, <2>4, <3>3, TaskAssumption DEF Held, HoldInv, HeldIsPending, TypeInv,
          TypeOK, TasksTypeOK
    <3> QED
      BY <3>2, <3>3
  <2>8. PushedIsFinished'
    <3>1. \A r \in Tasks : r # t /\ Finished(r) => Finished(r)'
      BY <2>3 DEF Finished
    <3>2. \A w \in Workers : pc[w] \in {"push", "pushCancelled"} => task[w] \in Tasks
      BY DEF TypeInv, TypeOK, TasksTypeOK, LocalsMatch, HoldingPcs
    <3> QED
      BY <2>3, <2>4, <2>6, <3>1, <3>2, TaskAssumption DEF HoldInv, PushedIsFinished
  <2> QED
    BY <2>5, <2>7, <2>8 DEF HoldInv
<1>3. CASE Drain
  <2>1. /\ Queued' = {} /\ Done' = {} /\ NoRepeat(m_workQueue)' /\ NoRepeat(m_completedQueue)'
    BY <1>3, Empty DEF Drain, Queued, Done
  <2>2. /\ mainTask' = NoTask /\ mainTask = NoTask /\ UNCHANGED <<task, pc>>
        /\ \A w \in Workers : task[w] = NoTask /\ pc[w] = "exited"
    BY <1>3 DEF Drain, TypeInv, TypeOK, TasksTypeOK, LocalsMatch, HoldingPcs, workerVars
  <2>3. Apart'
    BY <2>1, <2>2 DEF HoldInv, Apart
  <2>4. \A r \in Tasks : outcome'[r] # "pending"
    <3>1. ASSUME NEW r \in Tasks, r \in Queued \/ r \in Done PROVE outcome'[r] # "pending"
      BY <1>3, <3>1 DEF Drain, Queued, Done
    <3>2. ASSUME NEW r \in Tasks, r \notin Queued, r \notin Done PROVE outcome'[r] # "pending"
      <4>1. outcome[r] # "pending"
        BY <2>2, <3>2, TaskAssumption DEF HoldInv, HeldIsPending, Held
      <4> QED
        BY <1>3, <3>2, <4>1 DEF Drain, Queued, Done
    <3> QED
      BY <3>1, <3>2
  <2>5. HeldIsPending' /\ PushedIsFinished'
    BY <2>1, <2>2, <2>4, TaskAssumption DEF HeldIsPending, Held, PushedIsFinished
  <2> QED
    BY <2>3, <2>5 DEF HoldInv
<1>4. CASE CancelCompleted
  BY <1>4, QuietHolds DEF CancelCompleted, Still, Flagged, workerVars, history
<1>5. CASE NotifyOne
  BY <1>5, QuietHolds DEF NotifyOne, Still, taskVars, history, TypeInv, TypeOK, TasksTypeOK
<1>6. CASE NotifyAll
  BY <1>6, QuietHolds DEF NotifyAll, Still, taskVars, history
<1>7. CASE PollReturn \/ CallbackReturns
  BY <1>7, QuietHolds DEF PollReturn, CallbackReturns, Still, taskVars, workerVars, history
<1>8. CASE HasQueued \/ HasCompleted
  BY <1>8, QuietHolds DEF HasQueued, HasCompleted, Still, taskVars, workerVars, history
<1> QED
  BY <1>1, <1>2, <1>3, <1>4, <1>5, <1>6, <1>7, <1>8 DEF MainStep

(* A worker's status of the task it has keeps everything else finished.    *)
LEMMA StatusHolds ==
    ASSUME TypeInv, HoldInv, NEW w \in Workers, task[w] \in Tasks, Still,
           UNCHANGED m_cancelled,
           \A t \in Tasks \ {task[w]} : m_status'[t] = m_status[t],
           \A v \in Workers \ {w} : pc'[v] = pc[v],
           pc'[w] \in {"push", "pushCancelled"} => Finished(task[w])'
    PROVE  HoldInv'
<1>1. Done' = Done /\ mainTask' = mainTask /\ task' = task
  BY DEF Still, queueVars, Done
<1>2. task[w] \notin Done /\ task[w] # mainTask
  BY TaskAssumption DEF HoldInv, Apart
<1>3. \A v \in Workers \ {w} : task[v] # task[w]
  BY TaskAssumption DEF HoldInv, Apart
<1>4. \A t \in Tasks \ {task[w]} : Finished(t) => Finished(t)'
  BY DEF Finished
<1>5. \A v \in Workers : pc[v] \in {"push", "pushCancelled"} => task[v] \in Tasks
  BY DEF TypeInv, TypeOK, TasksTypeOK, LocalsMatch, HoldingPcs
<1>6. PushedIsFinished'
  <2>1. \A t \in Tasks : t \in Done' \/ t = mainTask' => Finished(t)'
    BY <1>1, <1>2, <1>4 DEF HoldInv, PushedIsFinished
  <2>2. \A v \in Workers \ {w} : pc'[v] \in {"push", "pushCancelled"} => Finished(task[v])'
    BY <1>1, <1>3, <1>4, <1>5 DEF HoldInv, PushedIsFinished, Finished
  <2> QED
    BY <2>1, <2>2 DEF PushedIsFinished
<1> QED
  BY <1>6, StillHolds DEF HoldInv

LEMMA PushHolds ==
    ASSUME TypeInv, HoldInv, NEW w \in Workers, pc[w] \in {"push", "pushCancelled"},
           m_completedQueue' = Append(m_completedQueue, task[w]),
           task' = [task EXCEPT ![w] = NoTask],
           pc'[w] \notin {"push", "pushCancelled"},
           \A v \in Workers \ {w} : pc'[v] = pc[v],
           UNCHANGED <<m_workQueue, taskVars, mainTask, outcome>>
    PROVE  HoldInv'
<1>1. PICK t \in Tasks : t = task[w]
  BY DEF TypeInv, TypeOK, TasksTypeOK, LocalsMatch, HoldingPcs
<1>2. /\ t \notin Queued /\ t \notin Done /\ t # mainTask /\ Finished(t)
      /\ \A v \in Workers \ {w} : task[v] # t
  BY <1>1, TaskAssumption DEF HoldInv, Apart, PushedIsFinished
<1>3. Done' = Done \cup {t} /\ NoRepeat(m_completedQueue)'
  BY <1>1, <1>2, Appended DEF TypeInv, TypeOK, TasksTypeOK, HoldInv, Apart, Done
<1>4. Queued' = Queued /\ NoRepeat(m_workQueue)'
  BY DEF Queued, HoldInv, Apart
<1>5. task'[w] = NoTask /\ \A v \in Workers \ {w} : task'[v] = task[v]
  BY DEF TypeInv, TypeOK, TasksTypeOK
<1>6. Apart'
  <2>1. \A v \in Workers : task'[v] \notin Queued' /\ task'[v] \notin Done'
    BY <1>2, <1>3, <1>4, <1>5, QueuesHoldTasks, TaskAssumption DEF HoldInv, Apart
  <2> QED
    BY <1>1, <1>2, <1>3, <1>4, <1>5, <2>1 DEF HoldInv, Apart
<1>7. \A r \in Tasks : Held(r)' <=> Held(r)
  BY <1>1, <1>3, <1>4, <1>5, TaskAssumption DEF Held
<1>8. HeldIsPending'
  BY <1>7 DEF HoldInv, HeldIsPending
<1>9. PushedIsFinished'
  <2>1. \A r : Finished(r)' <=> Finished(r)
    BY DEF Finished, taskVars
  <2> QED
    BY <1>2, <1>3, <1>5, <2>1 DEF HoldInv, PushedIsFinished, Finished
<1> QED
  BY <1>6, <1>8, <1>9 DEF HoldInv

LEMMA WorkerHolds ==
    ASSUME TypeInv, HoldInv, NEW w \in Workers, WorkerStep(w) \/ SpuriousWakeup(w)
    PROVE  HoldInv'
<1> USE DEF Goto
<1>1. CASE Take(w)
  <2>1. PICK t \in Tasks : t = Head(m_workQueue)
    BY <1>1, Popped DEF Take, TypeInv, TypeOK, TasksTypeOK, HoldInv, Apart
  <2>2. /\ t \in Queued /\ Queued' = Queued \ {t} /\ NoRepeat(m_workQueue)'
    BY <1>1, <2>1, Popped DEF Take, TypeInv, TypeOK, TasksTypeOK, HoldInv, Apart, Queued
  <2>3. /\ Done' = Done /\ NoRepeat(m_completedQueue)' /\ task[w] = NoTask
        /\ UNCHANGED <<mainTask, m_status, m_cancelled, outcome>>
    BY <1>1 DEF Take, Done, HoldInv, Apart, TypeInv, TypeOK, TasksTypeOK, LocalsMatch,
                HoldingPcs,
                mainVars, pollVars, taskVars, history
  <2>4. /\ task'[w] = t /\ pc'[w] = "popped"
        /\ \A v \in Workers \ {w} : task'[v] = task[v] /\ pc'[v] = pc[v]
    BY <1>1, <2>1 DEF Take, TypeInv, TypeOK, TasksTypeOK
  <2>5. t \notin Done /\ t # mainTask /\ \A v \in Workers : task[v] # t
    BY <2>2 DEF HoldInv, Apart
  <2>6. Apart'
    BY <2>2, <2>3, <2>4, <2>5 DEF HoldInv, Apart
  <2>7. \A r \in Tasks : Held(r)' <=> Held(r)
    BY <2>2, <2>3, <2>4, TaskAssumption DEF Held
  <2>8. HeldIsPending'
    BY <2>3, <2>7 DEF HoldInv, HeldIsPending
  <2>9. PushedIsFinished'
    BY <2>3, <2>4 DEF HoldInv, PushedIsFinished, Finished
  <2> QED
    BY <2>6, <2>8, <2>9 DEF HoldInv
<1>2. CASE CheckCancelled(w)
  <2>1. task[w] \in Tasks
    BY <1>2 DEF CheckCancelled, TypeInv, TypeOK, TasksTypeOK, LocalsMatch, HoldingPcs
  <2>2. pc'[w] \in {"push", "pushCancelled"} => m_cancelled[task[w]]
    BY <1>2 DEF CheckCancelled, TypeInv, TypeOK, TasksTypeOK
  <2> QED
    BY <1>2, <2>1, <2>2, StatusHolds DEF CheckCancelled, Finished, Still, mainVars,
                                         pollVars, history,
                                         TypeInv, TypeOK, TasksTypeOK
<1>3. CASE Execute(w)
  <2>1. task[w] \in Tasks
    BY <1>3 DEF Execute, TypeInv, TypeOK, TasksTypeOK, LocalsMatch, HoldingPcs
  <2>2. m_status'[task[w]] \in {"Completed", "Failed"} \/ m_cancelled[task[w]]
    BY <1>3, <2>1 DEF Execute, TypeInv, TypeOK, TasksTypeOK
  <2>3. /\ Still /\ task' = task /\ UNCHANGED m_cancelled
        /\ \A t \in Tasks \ {task[w]} : m_status'[t] = m_status[t]
        /\ \A v \in Workers \ {w} : pc'[v] = pc[v]
    BY <1>3 DEF Execute, Still, mainVars, pollVars, history, TypeInv, TypeOK, TasksTypeOK
  <2> QED
    BY <2>1, <2>2, <2>3, StatusHolds DEF Finished
<1>4. CASE Push(w)
  BY <1>4, PushHolds DEF Push, mainVars, pollVars, history, TypeInv, TypeOK, TasksTypeOK
<1>5. CASE PushCancelled(w)
  BY <1>5, PushHolds DEF PushCancelled, mainVars, pollVars, history, TypeInv, TypeOK,
                         TasksTypeOK
<1>6. CASE Block(w) \/ Exit(w) \/ SpuriousWakeup(w)
  BY <1>6, QuietHolds DEF Block, Exit, SpuriousWakeup, Still, mainVars, pollVars, taskVars,
                          history,
                          TypeInv, TypeOK, TasksTypeOK
<1>7. CASE CountInFlight(w) \/ Decrement(w)
  BY <1>7, QuietHolds DEF CountInFlight, Decrement, Still, mainVars, pollVars, taskVars,
                          history,
                          TypeInv, TypeOK, TasksTypeOK
<1> QED
  BY <1>1, <1>2, <1>3, <1>4, <1>5, <1>6, <1>7 DEF WorkerStep

LEMMA HoldInvariance == Safety => []HoldInv
<1>1. Init => HoldInv
  <2>1. Init => Queued = {} /\ Done = {} /\ NoRepeat(m_workQueue) /\ NoRepeat(m_completedQueue)
    BY Empty DEF Init, TasksInit, Queued, Done
  <2> QED
    BY <2>1, TaskAssumption DEF Init, TasksInit, HoldInv, Apart, HeldIsPending, Held,
                                PushedIsFinished
<1>2. TypeInv /\ HoldInv /\ UNCHANGED vars => HoldInv'
  <2> SUFFICES ASSUME TypeInv, HoldInv, UNCHANGED vars PROVE HoldInv'
    OBVIOUS
  <2>1. Still /\ UNCHANGED <<taskVars, pc>>
    BY DEF vars, Still, workerVars, mainVars, pollVars, history
  <2> QED
    BY <2>1, QuietHolds DEF taskVars
<1>3. TypeInv /\ CancelInv /\ HoldInv /\ [Next]_vars => HoldInv'
  BY <1>2, UserHolds, MainHolds, WorkerHolds DEF Next
<1> QED
  BY TypeInvariance, CancelInvariance, <1>1, <1>3, PTL DEF Safety

(* Every pending task is in exactly one place, a slot of a queue, a worker *)
(* or the poll's frame, and an answered one in none.                       *)
THEOREM TasksHaveOneHolder == Safety => []OneHolder
<1>1. ASSUME TypeInv, HoldInv, NEW t \in Tasks
      PROVE  Cardinality(Holders(t)) = IF outcome[t] = "pending" THEN 1 ELSE 0
  <2> DEFINE A == {j \in DOMAIN m_workQueue : m_workQueue[j] = t}
             B == {j \in DOMAIN m_completedQueue : m_completedQueue[j] = t}
             C == {v \in Workers : task[v] = t}
             D == {m \in {0} : mainTask = t}
  <2>1. /\ (A = {} <=> t \notin Queued) /\ (\A i, j \in A : i = j)
        /\ (B = {} <=> t \notin Done) /\ (\A i, j \in B : i = j)
    BY <1>1 DEF HoldInv, Apart, NoRepeat, Queued, Done, InQueue
  <2>2. /\ (C = {} <=> \A w \in Workers : task[w] # t) /\ (\A v, w \in C : v = w)
        /\ (D = {} <=> mainTask # t) /\ (\A v, w \in D : v = w)
    BY <1>1, TaskAssumption DEF HoldInv, Apart
  <2>3. outcome[t] = "pending" <=> A # {} \/ B # {} \/ C # {} \/ D # {}
    BY <1>1, <2>1, <2>2 DEF HoldInv, HeldIsPending, Held
  <2>4. /\ A # {} => B = {} /\ C = {} /\ D = {}
        /\ B # {} => A = {} /\ C = {} /\ D = {}
        /\ C # {} => A = {} /\ B = {} /\ D = {}
        /\ D # {} => A = {} /\ B = {} /\ C = {}
    BY <1>1, <2>1, <2>2, TaskAssumption DEF HoldInv, Apart
  <2>5. Holders(t) = {<<"queued", i>> : i \in A} \cup {<<"completed", i>> : i \in B}
                     \cup {<<"worker", w>> : w \in C} \cup {<<"main", m>> : m \in D}
    BY DEF Holders
  <2> HIDE DEF A, B, C, D
  <2>6. CASE outcome[t] = "pending"
    <3>1. \E x : Holders(t) = {x}
      <4>1. CASE A # {}
        <5>1. PICK i : A = {i}
          BY <2>1, <4>1
        <5>2. Holders(t) = {<<"queued", i>>}
          BY <2>4, <2>5, <4>1, <5>1
        <5> QED
          BY <5>2
      <4>2. CASE B # {}
        <5>1. PICK i : B = {i}
          BY <2>1, <4>2
        <5>2. Holders(t) = {<<"completed", i>>}
          BY <2>4, <2>5, <4>2, <5>1
        <5> QED
          BY <5>2
      <4>3. CASE C # {}
        <5>1. PICK w : C = {w}
          BY <2>2, <4>3
        <5>2. Holders(t) = {<<"worker", w>>}
          BY <2>4, <2>5, <4>3, <5>1
        <5> QED
          BY <5>2
      <4>4. CASE D # {}
        <5>1. PICK m : D = {m}
          BY <2>2, <4>4
        <5>2. Holders(t) = {<<"main", m>>}
          BY <2>4, <2>5, <4>4, <5>1
        <5> QED
          BY <5>2
      <4> QED
        BY <2>3, <2>6, <4>1, <4>2, <4>3, <4>4
    <3> QED
      BY <2>6, <3>1, FS_Singleton
  <2>7. CASE outcome[t] # "pending"
    <3>1. A = {} /\ B = {} /\ C = {} /\ D = {}
      BY <2>3, <2>7
    <3>2. Holders(t) = {}
      BY <2>5, <3>1
    <3> QED
      BY <2>7, <3>2, FS_EmptySet
  <2> QED
    BY <2>6, <2>7
<1>2. TypeInv /\ HoldInv => OneHolder
  BY <1>1 DEF OneHolder
<1> QED
  BY TypeInvariance, HoldInvariance, <1>2, PTL

-----------------------------------------------------------------------------
(* The count of workers.                                                   *)

Counting(w) == pc[w] \in {"check", "execute", "push", "pushCancelled", "decrement"}
InFlight == {w \in Workers : Counting(w)}

LEMMA InFlightIsFinite == IsFiniteSet(InFlight)
BY WorkerAssumption, FS_Subset DEF InFlight

LEMMA SameInFlight ==
    ASSUME InFlightCounted, UNCHANGED m_inFlightCount,
           \A v \in Workers : Counting(v)' <=> Counting(v)
    PROVE  InFlightCounted'
<1>1. InFlight' = InFlight
  BY DEF InFlight
<1> QED
  BY <1>1 DEF InFlightCounted, InFlight, Counting

(* One worker passes one of the two points.                                *)
LEMMA WorkerCounts ==
    ASSUME TypeInv, InFlightCounted, NEW w \in Workers, WorkerStep(w) \/ SpuriousWakeup(w)
    PROVE  InFlightCounted'
<1>0. m_inFlightCount = Cardinality(InFlight) /\ m_inFlightCount \in Int
  BY DEF InFlightCounted, InFlight, Counting, TypeInv, TypeOK, TasksTypeOK
<1>1. \A v \in Workers \ {w} : Counting(v)' <=> Counting(v)
  BY DEF Counting, WorkerStep, SpuriousWakeup, Block, Exit, Take, CountInFlight,
         CheckCancelled, Execute, Push, Decrement, PushCancelled, Goto, TypeInv, TypeOK, TasksTypeOK
<1>2. CASE CountInFlight(w)
  <2>1. w \notin InFlight /\ InFlight' = InFlight \cup {w}
    BY <1>1, <1>2 DEF CountInFlight, Goto, InFlight, Counting, TypeInv, TypeOK, TasksTypeOK
  <2>2. Cardinality(InFlight') = Cardinality(InFlight) + 1
    BY <2>1, InFlightIsFinite, FS_AddElement
  <2> QED
    BY <1>0, <1>2, <2>2 DEF CountInFlight, InFlightCounted, InFlight, Counting
<1>3. CASE Decrement(w) \/ PushCancelled(w)
  <2>1. w \in InFlight /\ InFlight' = InFlight \ {w}
    BY <1>1, <1>3 DEF Decrement, PushCancelled, Goto, InFlight, Counting, TypeInv, TypeOK,
                      TasksTypeOK
  <2>2. Cardinality(InFlight') = Cardinality(InFlight) - 1
    BY <2>1, InFlightIsFinite, FS_RemoveElement
  <2> QED
    BY <1>0, <1>3, <2>2 DEF Decrement, PushCancelled, InFlightCounted, InFlight, Counting
<1>4. CASE Block(w) \/ Exit(w) \/ Take(w) \/ SpuriousWakeup(w)
  <2>1. UNCHANGED m_inFlightCount /\ (Counting(w)' <=> Counting(w))
    BY <1>4 DEF Block, Exit, Take, SpuriousWakeup, Goto, Counting, poolVars, TypeInv,
                TypeOK, TasksTypeOK
  <2> QED
    BY <1>1, <2>1, SameInFlight
<1>5. CASE CheckCancelled(w) \/ Execute(w) \/ Push(w)
  <2>1. UNCHANGED m_inFlightCount /\ (Counting(w)' <=> Counting(w))
    BY <1>5 DEF CheckCancelled, Execute, Push, Goto, Counting, poolVars, TypeInv, TypeOK,
                TasksTypeOK
  <2> QED
    BY <1>1, <2>1, SameInFlight
<1> QED
  BY <1>2, <1>3, <1>4, <1>5 DEF WorkerStep

LEMMA MainThreadCounts ==
    ASSUME TypeInv, InFlightCounted, UserStep \/ MainStep \/ UNCHANGED vars
    PROVE  InFlightCounted'
<1>1. UNCHANGED m_inFlightCount
  BY DEF UserStep, MainStep, Submit, CancelTask, CancelAllForOwner, HasInFlight, PollDirectly,
         Shutdown, NotifyOne, CancelCompleted, HasQueued, HasCompleted, PollPop, PollReturn,
         Deliver, CallbackReturns, NotifyAll, Drain, vars, poolVars
<1>2. \A v \in Workers : Counting(v)' <=> Counting(v)
  <2>1. CASE NotifyOne \/ NotifyAll
    BY <2>1 DEF NotifyOne, NotifyAll, Counting, TypeInv, TypeOK, TasksTypeOK
  <2>2. CASE ~(NotifyOne \/ NotifyAll)
    <3>1. UNCHANGED pc
      BY <2>2 DEF UserStep, MainStep, Submit, CancelTask, CancelAllForOwner, HasInFlight,
                  PollDirectly, Shutdown, CancelCompleted, HasQueued, HasCompleted, PollPop,
                  PollReturn, Deliver, CallbackReturns, Drain, vars, workerVars
    <3> QED
      BY <3>1 DEF Counting
  <2> QED
    BY <2>1, <2>2
<1> QED
  BY <1>1, <1>2, SameInFlight

(* The counter is the number of workers between a pop and the end of its   *)
(* push, on both of the paths that lower it.                               *)
THEOREM InFlightIsExact == Safety => []InFlightCounted
<1>1. Init => InFlightCounted
  <2>1. Init => InFlight = {} /\ m_inFlightCount = 0
    BY DEF Init, TasksInit, InFlight, Counting
  <2> QED
    BY <2>1, FS_EmptySet DEF InFlightCounted, InFlight, Counting
<1>2. TypeInv /\ InFlightCounted /\ [Next]_vars => InFlightCounted'
  BY WorkerCounts, MainThreadCounts DEF Next
<1> QED
  BY TypeInvariance, <1>1, <1>2, PTL DEF Safety

-----------------------------------------------------------------------------
(* WorkPool implements AsyncDelivery.  What is still missing is that       *)
(* nothing is cancelled that nobody asked to cancel.                       *)

RequestInv ==
    /\ \A t \in Tasks : m_cancelled[t] => outcome[t] # "unsubmitted"
    /\ \A t \in Pending : m_cancelled[t] \/ OwnerCancelled(t) => t \in cancelRequested
    /\ mainPc = "cancelCompleted" =>
           \A t \in Pending : OwnerOf[t] = cancelOwner => t \in cancelRequested

LEMMA UserRequests ==
    ASSUME TypeInv, CancelInv, HoldInv, RequestInv, UserStep
    PROVE  RequestInv'
<1> USE OwnerAssumption
<1>1. ASSUME NEW t \in Tasks, Submit(t) PROVE RequestInv'
  <2>1. /\ ~m_cancelled[t] /\ mainPc' = "notify"
        /\ UNCHANGED <<m_cancelled, m_cancelledOwners, cancelRequested>>
    BY <1>1 DEF Submit, RequestInv, cancelVars
  <2>2. ~OwnerCancelled(t)'
    <3>1. m_submitGeneration'[t] = m_cancelGeneration
      BY <1>1 DEF Submit, TypeInv, TypeOK, TasksTypeOK
    <3>2. m_cancelledOwners[OwnerOf[t]] <= m_cancelGeneration
      BY DEF CancelInv, GenerationBound
    <3> QED
      BY <2>1, <3>1, <3>2 DEF OwnerCancelled, TypeInv, TypeOK, TasksTypeOK
  <2>3. /\ \A r \in Tasks \ {t} : outcome'[r] = outcome[r] /\ (OwnerCancelled(r)' <=> OwnerCancelled(r))
        /\ outcome'[t] = "pending"
    BY <1>1, <2>1 DEF Submit, OwnerCancelled, TypeInv, TypeOK, TasksTypeOK
  <2> QED
    BY <2>1, <2>2, <2>3 DEF RequestInv, Pending
<1>2. ASSUME NEW t \in Tasks, CancelTask(t) PROVE RequestInv'
  BY <1>2 DEF CancelTask, RequestInv, Pending, OwnerCancelled, cancelVars, mainVars,
              pollVars, UserCode,
              TypeInv, TypeOK, TasksTypeOK
<1>3. ASSUME NEW o \in Owners, CancelAllForOwner(o) PROVE RequestInv'
  <2>1. /\ cancelRequested' = cancelRequested \cup {t \in Pending : OwnerOf[t] = o}
        /\ cancelOwner' = o /\ UNCHANGED <<outcome, m_submitGeneration>>
        /\ Pending' = Pending
    BY <1>3 DEF CancelAllForOwner, Pending
  <2>2. \A t \in Tasks : OwnerOf[t] # o => (OwnerCancelled(t)' <=> OwnerCancelled(t))
    BY <1>3 DEF CancelAllForOwner, OwnerCancelled, TypeInv, TypeOK, TasksTypeOK
  <2>3. \A t \in Tasks : m_cancelled'[t] => m_cancelled[t] \/ (OwnerOf[t] = o /\ t \in Queued)
    BY <1>3 DEF CancelAllForOwner, Flagged, Queued, InQueue
  <2>4. \A t \in Tasks : t \in Queued => outcome[t] = "pending"
    BY DEF HoldInv, HeldIsPending, Held
  <2> QED
    BY <2>1, <2>2, <2>3, <2>4 DEF RequestInv, Pending
<1>4. CASE HasInFlight \/ PollDirectly \/ Shutdown
  <2>1. UNCHANGED <<m_cancelled, m_cancelledOwners, m_submitGeneration, outcome,
                    cancelRequested>> /\ mainPc' # "cancelCompleted"
    BY <1>4 DEF HasInFlight, PollIf, BeginPoll, PollDirectly, Shutdown, cancelVars,
                taskVars, history
  <2> QED
    BY <2>1 DEF RequestInv, Pending, OwnerCancelled
<1> QED
  BY <1>1, <1>2, <1>3, <1>4 DEF UserStep

LEMMA MainRequests ==
    ASSUME TypeInv, HoldInv, RequestInv, MainStep
    PROVE  RequestInv'
<1>1. CASE CancelCompleted
  <2>1. \A t \in Tasks : m_cancelled'[t] =>
            m_cancelled[t] \/ (OwnerOf[t] = cancelOwner /\ t \in Done)
    BY <1>1 DEF CancelCompleted, Flagged, Done, InQueue
  <2>2. \A t \in Tasks : t \in Done => outcome[t] = "pending"
    BY DEF HoldInv, HeldIsPending, Held
  <2>3. /\ UNCHANGED <<m_cancelledOwners, m_submitGeneration, outcome, cancelRequested>>
        /\ mainPc = "cancelCompleted" /\ mainPc' # "cancelCompleted"
    BY <1>1 DEF CancelCompleted, UserPc, cancelVars, history
  <2> QED
    BY <2>1, <2>2, <2>3 DEF RequestInv, Pending, OwnerCancelled
<1>2. CASE Deliver
  <2>1. /\ UNCHANGED <<m_cancelled, m_cancelledOwners, m_submitGeneration, cancelRequested>>
        /\ mainPc' # "cancelCompleted"
        /\ \A t \in Tasks : t # mainTask => outcome'[t] = outcome[t]
        /\ outcome'[mainTask] \in {"cancelled", "completed", "failed", "pending"}
        /\ mainTask \in Tasks
    BY <1>2 DEF Deliver, Answer, cancelVars, TypeInv, TypeOK, TasksTypeOK, LocalsMatch
  <2>2. outcome[mainTask] = "pending"
    BY <2>1 DEF HoldInv, HeldIsPending, Held
  <2> QED
    BY <2>1, <2>2 DEF RequestInv, Pending, OwnerCancelled
<1>3. CASE Drain
  <2>1. /\ UNCHANGED <<m_cancelled, m_cancelledOwners, m_submitGeneration, cancelRequested>>
        /\ mainPc' # "cancelCompleted"
        /\ \A t \in Tasks : outcome'[t] \in {outcome[t], "cancelled", "dropped"}
    BY <1>3 DEF Drain, cancelVars
  <2> QED
    BY <2>1 DEF RequestInv, Pending, OwnerCancelled
<1>4. CASE PollPop \/ PollReturn \/ CallbackReturns \/ HasQueued \/ HasCompleted
           \/ NotifyOne \/ NotifyAll
  <2>1. UNCHANGED <<m_cancelled, m_cancelledOwners, m_submitGeneration, outcome,
                    cancelRequested>> /\ mainPc' # "cancelCompleted"
    BY <1>4 DEF PollPop, PollReturn, CallbackReturns, HasQueued, HasCompleted, PollIf,
                BeginPoll,
                EndPoll, NotifyOne,
                NotifyAll, UserPc, cancelVars, taskVars, history
  <2> QED
    BY <2>1 DEF RequestInv, Pending, OwnerCancelled
<1> QED
  BY <1>1, <1>2, <1>3, <1>4 DEF MainStep

LEMMA WorkerRequests ==
    ASSUME RequestInv,
           (\E w \in Workers : WorkerStep(w) \/ SpuriousWakeup(w)) \/ UNCHANGED vars
    PROVE  RequestInv'
<1>1. UNCHANGED <<m_cancelled, m_cancelledOwners, m_submitGeneration, outcome,
                  cancelRequested, mainPc, cancelOwner>>
  BY DEF WorkerStep, SpuriousWakeup, Block, Exit, Take, CountInFlight, CheckCancelled, Execute,
         Push, Decrement, PushCancelled, cancelVars, taskVars, mainVars, pollVars, history, vars
<1> QED
  BY <1>1 DEF RequestInv, Pending, OwnerCancelled

LEMMA RequestInvariance == Safety => []RequestInv
<1>1. Init => RequestInv
  BY DEF Init, TasksInit, RequestInv, Pending
<1>2. TypeInv /\ CancelInv /\ HoldInv /\ RequestInv /\ [Next]_vars => RequestInv'
  BY UserRequests, MainRequests, WorkerRequests DEF Next
<1> QED
  BY TypeInvariance, CancelInvariance, HoldInvariance, <1>1, <1>2, PTL DEF Safety

(* The steps of AsyncDelivery that the steps of the pool map to.           *)
LEMMA UserDelivers ==
    ASSUME TypeInv, UserStep
    PROVE  Delivery!AbsNext \/ UNCHANGED Delivery!avars
<1>1. ASSUME NEW t \in Tasks, Submit(t) PROVE Delivery!AbsSubmit(t)
  BY <1>1 DEF Submit, UserCode, Delivery!AbsSubmit
<1>2. ASSUME NEW t \in Tasks, CancelTask(t) PROVE Delivery!AbsCancel({t})
  BY <1>2 DEF CancelTask, UserCode, mainVars, pollVars, Delivery!AbsCancel, Delivery!AbsPending
<1>3. ASSUME NEW o \in Owners, CancelAllForOwner(o)
      PROVE  Delivery!AbsCancel({t \in Pending : OwnerOf[t] = o})
  BY <1>3 DEF CancelAllForOwner, UserCode, Pending, Delivery!AbsCancel, Delivery!AbsPending
<1>4. CASE HasInFlight \/ PollDirectly \/ Shutdown
  BY <1>4 DEF HasInFlight, PollIf, BeginPoll, PollDirectly, Shutdown, UserCode, history,
              Delivery!avars
<1> QED
  <2>1. \A o \in Owners : {t \in Pending : OwnerOf[t] = o} \in SUBSET Tasks
    BY DEF Pending
  <2>2. \A t \in Tasks : {t} \in SUBSET Tasks
    OBVIOUS
  <2> QED
    BY <1>1, <1>2, <1>3, <1>4, <2>1, <2>2 DEF UserStep, Delivery!AbsNext

LEMMA MainDelivers ==
    ASSUME TypeInv, CancelInv, HoldInv, RequestInv, MainStep
    PROVE  Delivery!AbsNext \/ UNCHANGED Delivery!avars
<1>1. CASE Deliver
  <2>1. PICK t \in Tasks : t = mainTask
    BY <1>1 DEF Deliver, TypeInv, TypeOK, TasksTypeOK, LocalsMatch
  <2>2. outcome[t] = "pending"
    BY <2>1 DEF HoldInv, HeldIsPending, Held
  <2>3. Answer(t) \in IF t \in cancelRequested THEN {"cancelled"} ELSE {"completed", "failed"}
    <3>1. CASE t \in cancelRequested
      BY <3>1 DEF CancelInv, CancelKnown, Answer
    <3>2. CASE t \notin cancelRequested
      <4>1. ~m_cancelled[t] /\ ~OwnerCancelled(t)
        BY <2>2, <3>2 DEF RequestInv, Pending
      <4>2. m_status[t] \in {"Completed", "Failed"}
        BY <2>1, <4>1 DEF HoldInv, PushedIsFinished, Finished
      <4> QED
        BY <3>2, <4>1, <4>2 DEF Answer
    <3> QED
      BY <3>1, <3>2
  <2>4. Delivery!AbsAnswer(t)
    BY <1>1, <2>1, <2>2, <2>3 DEF Deliver, Delivery!AbsAnswer
  <2> QED
    BY <2>4 DEF Delivery!AbsNext
<1>2. CASE Drain
  <2>1. \A t \in Tasks : outcome[t] = "pending" => t \in Queued \/ t \in Done
    <3>1. mainTask = NoTask /\ \A w \in Workers : task[w] = NoTask
      BY <1>2 DEF Drain, TypeInv, TypeOK, TasksTypeOK, LocalsMatch, HoldingPcs
    <3> QED
      BY <3>1, TaskAssumption DEF HoldInv, HeldIsPending, Held
  <2>2. \A t \in Tasks : t \in Queued \/ t \in Done => outcome[t] = "pending"
    BY DEF HoldInv, HeldIsPending, Held
  <2>3. ASSUME NEW t \in Tasks PROVE outcome'[t] \in Delivery!AbsClosedOutcome(t)
    <3>1. CASE outcome[t] # "pending"
      <4>1. outcome'[t] = outcome[t]
        BY <1>2, <2>2, <3>1 DEF Drain, Queued, Done
      <4> QED
        BY <3>1, <4>1 DEF Delivery!AbsClosedOutcome
    <3>2. CASE outcome[t] = "pending" /\ m_cancelled[t]
      <4>1. outcome'[t] = "cancelled"
        BY <1>2, <2>1, <3>2 DEF Drain, Queued, Done
      <4>2. t \in cancelRequested
        BY <3>2 DEF RequestInv, Pending
      <4> QED
        BY <3>2, <4>1, <4>2 DEF Delivery!AbsClosedOutcome
    <3>3. CASE outcome[t] = "pending" /\ ~m_cancelled[t]
      <4>1. outcome'[t] = "dropped"
        BY <1>2, <2>1, <3>3 DEF Drain, Queued, Done
      <4> QED
        BY <3>3, <4>1 DEF Delivery!AbsClosedOutcome
    <3> QED
      BY <3>1, <3>2, <3>3
  <2>4. outcome' \in [Tasks -> Delivery!Outcomes]
    <3>1. DOMAIN outcome' = Tasks /\ outcome' = [t \in Tasks |-> outcome'[t]]
      BY <1>2 DEF Drain
    <3>2. \A t \in Tasks : outcome'[t] \in {outcome[t], "cancelled", "dropped"}
      BY <1>2 DEF Drain
    <3>3. \A t \in Tasks : outcome'[t] \in Delivery!Outcomes
      BY <3>2 DEF TypeInv, TypeOK, TasksTypeOK, Delivery!Outcomes
    <3> QED
      BY <3>1, <3>3
  <2>5. mainPc = "join" /\ mainPc' = "destroyed" /\ UNCHANGED cancelRequested
    BY <1>2 DEF Drain
  <2>6. Delivery!AbsClose
    BY <2>3, <2>4, <2>5 DEF Delivery!AbsClose
  <2> QED
    BY <2>6 DEF Delivery!AbsNext
<1>3. CASE PollPop \/ PollReturn \/ CallbackReturns \/ HasQueued \/ HasCompleted
           \/ NotifyOne \/ NotifyAll \/ CancelCompleted
  BY <1>3 DEF PollPop, PollReturn, CallbackReturns, HasQueued, HasCompleted, PollIf, BeginPoll,
                EndPoll, NotifyOne,
              NotifyAll, CancelCompleted, UserPc, history, Delivery!avars
<1> QED
  BY <1>1, <1>2, <1>3 DEF MainStep

LEMMA WorkerDelivers ==
    ASSUME (\E w \in Workers : WorkerStep(w) \/ SpuriousWakeup(w)) \/ UNCHANGED vars
    PROVE  UNCHANGED Delivery!avars
BY DEF WorkerStep, SpuriousWakeup, Block, Exit, Take, CountInFlight, CheckCancelled, Execute,
       Push, Decrement, PushCancelled, mainVars, pollVars, history, vars, Delivery!avars

(* The pool keeps the promises of AsyncDelivery: one answer per task, only *)
(* onCancel once that was asked for, and only then; and the destructor     *)
(* leaves no task pending.                                                 *)
THEOREM PoolImplementsDelivery == Safety => ImplementsDelivery
<1>1. Init => Delivery!AbsInit
  BY DEF Init, TasksInit, Delivery!AbsInit
<1>2. TypeInv /\ CancelInv /\ HoldInv /\ RequestInv /\ [Next]_vars
        => [Delivery!AbsNext]_Delivery!avars
  BY UserDelivers, MainDelivers, WorkerDelivers DEF Next
<1> QED
  BY TypeInvariance, CancelInvariance, HoldInvariance, RequestInvariance, <1>1, <1>2, PTL
     DEF Safety, ImplementsDelivery, Delivery!AbsSpec

-----------------------------------------------------------------------------
(* The build without threads.  Its type invariant: only the innermost poll *)
(* may have run its last callback, and it alone holds a task.              *)

InlineTypeInv ==
    /\ InlineTypeOK
    /\ mainPc \in {"poll", "execute", "callback"} <=> depth > 0
    /\ \A d \in 1..depth : d < depth \/ mainPc # "poll" => processed[d] < MaxCallbacks
    /\ mainPc = "execute" <=> mainTask # NoTask

LEMMA InlineInitHasType == InlineInit => InlineTypeInv
<1> SUFFICES ASSUME InlineInit PROVE InlineTypeInv
  OBVIOUS
<1> USE DEF InlineInit, TasksInit
<1>1. TasksTypeOK
  <2>1. m_workQueue \in Seq(Tasks) /\ m_nextHandle \in Nat \ {0}
    OBVIOUS
  <2>2. depth \in 0..MaxNesting /\ processed \in [1..MaxNesting -> 0..MaxCallbacks]
    BY PollAssumption
  <2>3. /\ m_status \in [Tasks -> Statuses] /\ m_cancelled \in [Tasks -> BOOLEAN]
        /\ mainTask \in Tasks \cup {NoTask} /\ cancelRequested \in SUBSET Tasks
        /\ outcome \in [Tasks -> {"unsubmitted", "pending", "completed", "failed",
                                  "cancelled", "dropped"}]
    BY DEF Statuses
  <2> QED
    BY <2>1, <2>2, <2>3 DEF TasksTypeOK
<1> QED
  BY <1>1 DEF InlineTypeInv, InlineTypeOK

LEMMA InlineUserKeepsType ==
    ASSUME InlineTypeInv, InlineUserStep
    PROVE  InlineTypeInv'
<1> USE PollAssumption, TaskAssumption, OwnerAssumption
    DEF InlineTypeInv, InlineTypeOK, TasksTypeOK, UserCode, pollVars, history
<1>1. ASSUME NEW t \in Tasks, InlineSubmit(t) PROVE InlineTypeInv'
  <2>1. m_workQueue' \in Seq(Tasks) /\ m_status' \in [Tasks -> Statuses]
    BY <1>1 DEF InlineSubmit, Statuses
  <2>2. /\ handle' \in [Tasks -> Nat] /\ m_nextHandle' \in Nat \ {0}
        /\ outcome' \in [Tasks -> {"unsubmitted", "pending", "completed", "failed",
                                   "cancelled", "dropped"}]
    BY <1>1 DEF InlineSubmit
  <2> QED
    BY <1>1, <2>1, <2>2 DEF InlineSubmit
<1>2. ASSUME NEW t \in Tasks, InlineCancelTask(t) PROVE InlineTypeInv'
  BY <1>2 DEF InlineCancelTask
<1>3. ASSUME NEW o \in Owners, InlineCancelAllForOwner(o) PROVE InlineTypeInv'
  BY <1>3 DEF InlineCancelAllForOwner, Flagged, Pending
<1>4. CASE InlinePoll
  <2>1. /\ depth + 1 \in 1..MaxNesting /\ depth' = depth + 1 /\ mainPc' = "poll"
        /\ processed' = [processed EXCEPT ![depth + 1] = 0]
        /\ UNCHANGED <<m_workQueue, m_nextHandle, m_status, m_cancelled, mainTask, outcome,
                       cancelRequested, handle>>
    BY <1>4 DEF InlinePoll, BeginPoll
  <2>2. processed' \in [1..MaxNesting -> 0..MaxCallbacks]
    BY <2>1
  <2>3. mainTask = NoTask /\ \A d \in 1..depth : processed[d] < MaxCallbacks
    BY <1>4 DEF InlinePoll
  <2> QED
    BY <2>1, <2>2, <2>3
<1>5. CASE InlineDestroy
  <2>1. m_workQueue' \in Seq(Tasks)
    BY <1>5 DEF InlineDestroy
  <2>2. m_status' \in [Tasks -> Statuses]
    BY <1>5 DEF InlineDestroy, Statuses
  <2>3. outcome' \in [Tasks -> {"unsubmitted", "pending", "completed", "failed",
                                "cancelled", "dropped"}]
    BY <1>5 DEF InlineDestroy
  <2> QED
    BY <1>5, <2>1, <2>2, <2>3 DEF InlineDestroy
<1> QED
  BY <1>1, <1>2, <1>3, <1>4, <1>5 DEF InlineUserStep

LEMMA InlineMainKeepsType ==
    ASSUME InlineTypeInv, InlineMainStep
    PROVE  InlineTypeInv'
<1> USE PollAssumption, TaskAssumption
    DEF InlineTypeInv, InlineTypeOK, TasksTypeOK, pollVars, history
<1>1. CASE InlineTake
  <2>1. Head(m_workQueue) \in Tasks /\ m_workQueue' \in Seq(Tasks)
    BY <1>1 DEF InlineTake
  <2>2. m_status' \in [Tasks -> Statuses]
    BY <1>1, <2>1 DEF InlineTake, Statuses
  <2>3. outcome' \in [Tasks -> {"unsubmitted", "pending", "completed", "failed",
                                "cancelled", "dropped"}]
    BY <1>1, <2>1 DEF InlineTake
  <2> QED
    BY <1>1, <2>1, <2>2, <2>3 DEF InlineTake
<1>2. CASE InlineExecute
  <2>1. PICK answer \in {<<"Cancelled", "cancelled">>, <<"Completed", "completed">>,
                         <<"Failed", "failed">>} :
            /\ m_status' = [m_status EXCEPT ![mainTask] = answer[1]]
            /\ outcome' = [outcome EXCEPT ![mainTask] = answer[2]]
    BY <1>2 DEF InlineExecute
  <2>4. /\ answer[1] \in {"Cancelled", "Completed", "Failed"}
        /\ answer[2] \in {"cancelled", "completed", "failed"}
    OBVIOUS
  <2>2. m_status' \in [Tasks -> Statuses]
    BY <2>1, <2>4 DEF Statuses
  <2>3. outcome' \in [Tasks -> {"unsubmitted", "pending", "completed", "failed",
                                "cancelled", "dropped"}]
    BY <2>1, <2>4
  <2> QED
    BY <1>2, <2>2, <2>3 DEF InlineExecute
<1>3. CASE InlineCallbackReturns
  <2>1. /\ depth \in 1..MaxNesting /\ processed[depth] \in 0..(MaxCallbacks - 1)
        /\ processed' = [processed EXCEPT ![depth] = processed[depth] + 1]
    BY <1>3 DEF InlineCallbackReturns
  <2>2. processed' \in [1..MaxNesting -> 0..MaxCallbacks]
    BY <2>1
  <2> QED
    BY <1>3, <2>1, <2>2 DEF InlineCallbackReturns
<1>4. CASE InlinePollReturn
  <2>1. /\ mainPc = "poll" /\ mainPc' = IF depth > 1 THEN "callback" ELSE "idle"
        /\ depth \in 1..MaxNesting /\ depth' = depth - 1
        /\ processed' = [processed EXCEPT ![depth] = 0]
        /\ UNCHANGED <<m_workQueue, m_nextHandle, m_status, m_cancelled, mainTask, outcome,
                       cancelRequested, handle>>
    BY <1>4 DEF InlinePollReturn, EndPoll
  <2>2. processed' \in [1..MaxNesting -> 0..MaxCallbacks]
    BY <2>1
  <2> QED
    BY <2>1, <2>2
<1> QED
  BY <1>1, <1>2, <1>3, <1>4 DEF InlineMainStep

LEMMA InlineTypeInvariance == InlineSafety => []InlineTypeInv
<1>1. InlineTypeInv /\ UNCHANGED inlineVars => InlineTypeInv'
  BY DEF InlineTypeInv, InlineTypeOK, TasksTypeOK, inlineVars, pollVars, history
<1>2. InlineTypeInv /\ [InlineStep]_inlineVars => InlineTypeInv'
  BY <1>1, InlineUserKeepsType, InlineMainKeepsType DEF InlineStep
<1> QED
  BY InlineInitHasType, <1>2, PTL DEF InlineSafety

(* In the build without threads every variable keeps its type, and a poll  *)
(* answers at most maxCallbacks tasks, however polls nest.                 *)
THEOREM InlineTypeCorrect == InlineSafety => []InlineTypeOK
<1>1. InlineTypeInv => InlineTypeOK
  BY DEF InlineTypeInv
<1> QED
  BY InlineTypeInvariance, <1>1, PTL

-----------------------------------------------------------------------------
(* Without threads a pending task is in the queue or is being executed,    *)
(* its flag says exactly whether its cancel was asked for, and the queue   *)
(* holds the tasks in the order of their handles, after all that have left. *)

Sorted(q, h) == \A i, j \in DOMAIN q : i < j => h[q[i]] < h[q[j]]

InlineHoldInv ==
    /\ mainTask \notin Queued
    /\ \A t \in Tasks : outcome[t] = "pending" <=> t \in Queued \/ t = mainTask

InlineCancelInv ==
    /\ \A t \in Tasks : m_cancelled[t] <=> t \in cancelRequested
    /\ \A t \in cancelRequested : outcome[t] # "unsubmitted"

InlineOrderInv ==
    /\ \A t \in Tasks : handle[t] < m_nextHandle
    /\ Sorted(m_workQueue, handle)
    /\ \A t \in Queued : mainTask \in Tasks => handle[mainTask] < handle[t]
    /\ AnsweredInOrder

InlineInv == InlineTypeInv /\ InlineHoldInv /\ InlineCancelInv /\ InlineOrderInv

LEMMA SortedHasNoRepeat ==
    ASSUME NEW q \in Seq(Tasks), NEW h \in [Tasks -> Nat], Sorted(q, h)
    PROVE  NoRepeat(q)
<1> SUFFICES ASSUME NEW i \in DOMAIN q, NEW j \in DOMAIN q, q[i] = q[j]
             PROVE  i = j
  BY DEF NoRepeat
<1>1. /\ i \in Nat /\ j \in Nat /\ q[i] \in Tasks /\ q[j] \in Tasks
  OBVIOUS
<1>2. ~(h[q[i]] < h[q[j]]) /\ ~(h[q[j]] < h[q[i]])
  BY <1>1
<1> QED
  BY <1>1, <1>2 DEF Sorted

LEMMA SortedAppended ==
    ASSUME NEW q \in Seq(Tasks), NEW h \in [Tasks -> Nat], NEW g \in [Tasks -> Nat],
           NEW t \in Tasks, Sorted(q, h),
           \A x \in InQueue(q) : g[x] = h[x] /\ g[x] < g[t]
    PROVE  Sorted(Append(q, t), g)
<1> DEFINE r == Append(q, t)
<1>1. /\ DOMAIN q = 1..Len(q) /\ DOMAIN r = 1..(Len(q) + 1) /\ Len(q) \in Nat
      /\ \A i \in 1..Len(q) : r[i] = q[i] /\ r[i] \in InQueue(q)
      /\ r[Len(q) + 1] = t
  BY DEF InQueue
<1> HIDE DEF r
<1> SUFFICES ASSUME NEW i \in DOMAIN r, NEW j \in DOMAIN r, i < j
             PROVE  g[r[i]] < g[r[j]]
  BY DEF Sorted, r
<1>2. CASE j = Len(q) + 1
  BY <1>1, <1>2
<1>3. CASE j \in 1..Len(q)
  <2>1. i \in 1..Len(q) /\ h[q[i]] < h[q[j]]
    BY <1>1, <1>3 DEF Sorted
  <2> QED
    BY <1>1, <1>3, <2>1
<1> QED
  BY <1>1, <1>2, <1>3

LEMMA SortedPopped ==
    ASSUME NEW q \in Seq(Tasks), NEW h, q # <<>>, Sorted(q, h)
    PROVE  /\ Sorted(Tail(q), h)
           /\ \A x \in InQueue(Tail(q)) : h[Head(q)] < h[x]
<1> DEFINE r == Tail(q)
<1>1. /\ DOMAIN q = 1..Len(q) /\ Len(q) \in Nat \ {0} /\ DOMAIN r = 1..(Len(q) - 1)
      /\ \A i \in 1..(Len(q) - 1) : r[i] = q[i + 1] /\ Head(q) = q[1]
  OBVIOUS
<1> HIDE DEF r
<1>2. ASSUME NEW i \in DOMAIN r, NEW j \in DOMAIN r, i < j PROVE h[r[i]] < h[r[j]]
  <2>1. i + 1 \in DOMAIN q /\ j + 1 \in DOMAIN q /\ i + 1 < j + 1
    BY <1>1, <1>2
  <2> QED
    BY <1>1, <2>1 DEF Sorted
<1>3. ASSUME NEW i \in DOMAIN r PROVE h[Head(q)] < h[r[i]]
  <2>1. 1 \in DOMAIN q /\ i + 1 \in DOMAIN q /\ 1 < i + 1
    BY <1>1
  <2> QED
    BY <1>1, <2>1 DEF Sorted
<1> QED
  BY <1>2, <1>3 DEF Sorted, InQueue, r

(* What leaves the queue at its head, and what stays.                      *)
LEMMA InlineTakes ==
    ASSUME InlineInv, InlineTake
    PROVE  /\ Head(m_workQueue) \in Queued /\ Head(m_workQueue) \in Tasks
           /\ Queued' = Queued \ {Head(m_workQueue)}
           /\ Sorted(m_workQueue, handle)'
           /\ \A x \in Queued' : handle[Head(m_workQueue)] < handle[x]
           /\ mainPc = "poll" /\ mainTask = NoTask
<1>1. /\ m_workQueue \in Seq(Tasks) /\ m_workQueue # <<>> /\ handle \in [Tasks -> Nat]
      /\ m_workQueue' = Tail(m_workQueue) /\ handle' = handle
      /\ mainPc = "poll" /\ mainTask = NoTask
  BY DEF InlineTake, InlineInv, InlineTypeInv, InlineTypeOK, TasksTypeOK
<1>2. Sorted(m_workQueue, handle) /\ NoRepeat(m_workQueue)
  BY <1>1, SortedHasNoRepeat DEF InlineInv, InlineOrderInv
<1> QED
  BY <1>1, <1>2, Popped, SortedPopped DEF Queued

LEMMA InlineInitHolds == InlineInit => InlineInv
<1>1. InlineInit => InlineHoldInv /\ InlineCancelInv
  BY Empty, TaskAssumption DEF InlineInit, TasksInit, InlineHoldInv, InlineCancelInv, Queued
<1>2. InlineInit => InlineOrderInv
  BY Empty DEF InlineInit, TasksInit, InlineOrderInv, Sorted, Queued, AnsweredInOrder
<1> QED
  BY <1>1, <1>2, InlineInitHasType DEF InlineInv

LEMMA InlineUserHolds ==
    ASSUME InlineInv, InlineUserStep
    PROVE  InlineHoldInv' /\ InlineCancelInv' /\ InlineOrderInv'
<1>0. InlineTypeInv /\ InlineHoldInv /\ InlineCancelInv /\ InlineOrderInv
  BY DEF InlineInv
<1>t. /\ m_workQueue \in Seq(Tasks) /\ m_nextHandle \in Nat \ {0}
      /\ handle \in [Tasks -> Nat] /\ mainTask \in Tasks \cup {NoTask}
      /\ m_cancelled \in [Tasks -> BOOLEAN] /\ cancelRequested \subseteq Tasks
      /\ Queued \subseteq Tasks /\ NoTask \notin Queued /\ DOMAIN outcome = Tasks
  BY <1>0, TaskAssumption DEF InlineTypeInv, InlineTypeOK, TasksTypeOK, Queued, InQueue
<1>u. UserCode => mainTask = NoTask
  BY <1>0 DEF UserCode, InlineTypeInv
<1>1. ASSUME NEW t \in Tasks, InlineSubmit(t)
      PROVE  InlineHoldInv' /\ InlineCancelInv' /\ InlineOrderInv'
  <2>1. /\ outcome[t] = "unsubmitted" /\ mainTask = NoTask /\ mainTask' = NoTask
        /\ m_workQueue' = Append(m_workQueue, t)
        /\ handle' = [handle EXCEPT ![t] = m_nextHandle] /\ m_nextHandle' = m_nextHandle + 1
        /\ outcome' = [outcome EXCEPT ![t] = "pending"]
        /\ UNCHANGED <<m_cancelled, cancelRequested>>
    BY <1>1, <1>u DEF InlineSubmit
  <2>2. t \notin Queued /\ NoRepeat(m_workQueue)
    BY <1>0, <1>t, <2>1, SortedHasNoRepeat DEF InlineHoldInv, InlineOrderInv
  <2>3. Queued' = Queued \cup {t}
    BY <1>t, <2>1, <2>2, Appended DEF Queued
  <2>4. InlineHoldInv'
    BY <1>0, <1>t, <2>1, <2>3, TaskAssumption DEF InlineHoldInv
  <2>5. InlineCancelInv'
    BY <1>0, <1>t, <2>1 DEF InlineCancelInv
  <2>6. /\ handle' \in [Tasks -> Nat] /\ handle'[t] = m_nextHandle
        /\ \A x \in Tasks \ {t} : handle'[x] = handle[x] /\ handle[x] < m_nextHandle
    BY <1>0, <1>t, <2>1 DEF InlineOrderInv
  <2>7. Sorted(m_workQueue, handle)'
    <3>1. \A x \in Queued : handle'[x] = handle[x] /\ handle'[x] < handle'[t]
      BY <1>t, <2>2, <2>6
    <3> QED
      BY <1>0, <1>t, <2>1, <2>6, <3>1, SortedAppended DEF InlineOrderInv, Queued
  <2>8. AnsweredInOrder'
    <3>1. SUFFICES ASSUME NEW x \in Tasks, NEW y \in Tasks, outcome'[x] = "pending",
                          outcome'[y] \notin {"unsubmitted", "pending"}
                   PROVE  handle'[y] < handle'[x]
      BY DEF AnsweredInOrder
    <3>2. y # t /\ outcome[y] \notin {"unsubmitted", "pending"}
      BY <1>t, <2>1, <3>1
    <3>3. CASE x = t
      BY <2>6, <3>2, <3>3
    <3>4. CASE x # t
      <4>1. outcome[x] = "pending"
        BY <1>t, <2>1, <3>1, <3>4
      <4>2. handle[y] < handle[x]
        BY <1>0, <3>2, <4>1 DEF InlineOrderInv, AnsweredInOrder
      <4> QED
        BY <2>6, <3>2, <3>4, <4>2
    <3> QED
      BY <3>3, <3>4
  <2>9. \A x \in Tasks : handle'[x] < m_nextHandle'
    BY <1>t, <2>1, <2>6
  <2> QED
    BY <2>1, <2>4, <2>5, <2>7, <2>8, <2>9, TaskAssumption DEF InlineOrderInv
<1>2. ASSUME UNCHANGED <<m_workQueue, mainTask, outcome, handle, m_nextHandle>>
      PROVE  InlineHoldInv' /\ InlineOrderInv'
  BY <1>0, <1>2 DEF InlineHoldInv, InlineOrderInv, AnsweredInOrder, Sorted, Queued
<1>3. ASSUME NEW t \in Tasks, InlineCancelTask(t)
      PROVE  InlineHoldInv' /\ InlineCancelInv' /\ InlineOrderInv'
  BY <1>0, <1>t, <1>2, <1>3 DEF InlineCancelTask, InlineCancelInv
<1>4. ASSUME NEW o \in Owners, InlineCancelAllForOwner(o)
      PROVE  InlineHoldInv' /\ InlineCancelInv' /\ InlineOrderInv'
  <2>1. Queued = Pending
    BY <1>0, <1>t, <1>u, <1>4, TaskAssumption DEF InlineCancelAllForOwner, InlineHoldInv,
        Pending
  <2>2. /\ cancelRequested' = cancelRequested \cup {x \in Pending : OwnerOf[x] = o}
        /\ UNCHANGED <<m_workQueue, mainTask, outcome, handle, m_nextHandle>>
    BY <1>4 DEF InlineCancelAllForOwner
  <2>3. \A x \in Tasks : m_cancelled'[x] <=> m_cancelled[x] \/ (OwnerOf[x] = o /\ x \in Queued)
    BY <1>4 DEF InlineCancelAllForOwner, Flagged, Queued, InQueue
  <2>4. InlineCancelInv'
    BY <1>0, <2>1, <2>2, <2>3 DEF InlineCancelInv, Pending
  <2> QED
    BY <1>2, <2>2, <2>4
<1>5. CASE InlinePoll
  BY <1>0, <1>2, <1>5 DEF InlinePoll, InlineCancelInv, history
<1>6. CASE InlineDestroy
  <2>1. /\ Queued' = {} /\ m_workQueue' = <<>> /\ mainTask = NoTask
        /\ UNCHANGED <<mainTask, handle, m_nextHandle, m_cancelled, cancelRequested>>
    BY <1>6, <1>u, Empty DEF InlineDestroy, Queued, UserCode
  <2>2. \A t \in Tasks : outcome'[t] # "pending"
            /\ (outcome[t] # "unsubmitted" => outcome'[t] # "unsubmitted")
    <3> TAKE t \in Tasks
    <3>1. CASE t \in Queued
      BY <1>6, <3>1 DEF InlineDestroy, Queued
    <3>2. CASE t \notin Queued
      <4>1. outcome'[t] = outcome[t] /\ outcome[t] # "pending"
        BY <1>0, <1>6, <2>1, <3>2, TaskAssumption DEF InlineDestroy, InlineHoldInv, Queued
      <4> QED
        BY <4>1
    <3> QED
      BY <3>1, <3>2
  <2>3. InlineHoldInv' /\ InlineCancelInv'
    BY <1>0, <1>t, <2>1, <2>2, TaskAssumption DEF InlineHoldInv, InlineCancelInv
  <2>4. InlineOrderInv'
    BY <1>0, <2>1, <2>2 DEF InlineOrderInv, AnsweredInOrder, Sorted
  <2> QED
    BY <2>3, <2>4
<1> QED
  BY <1>1, <1>3, <1>4, <1>5, <1>6 DEF InlineUserStep

(* A task leaves the pool with an answer; all that are left come after it. *)
LEMMA InlineAnswered ==
    ASSUME InlineInv, NEW t \in Tasks, outcome[t] = "pending",
           NEW a \in {"cancelled", "completed", "failed"},
           outcome' = [outcome EXCEPT ![t] = a],
           t \notin Queued', mainTask' = NoTask,
           \A r \in Tasks \ {t} : r \in Queued' <=> r \in Queued \/ r = mainTask,
           Queued' \subseteq Tasks, \A r \in Queued' : handle[t] < handle[r],
           Sorted(m_workQueue, handle)',
           UNCHANGED <<handle, m_nextHandle, m_cancelled, cancelRequested>>
    PROVE  InlineHoldInv' /\ InlineCancelInv' /\ InlineOrderInv'
<1>0. InlineTypeInv /\ InlineHoldInv /\ InlineCancelInv /\ InlineOrderInv
  BY DEF InlineInv
<1>1. /\ outcome'[t] = a /\ \A r \in Tasks \ {t} : outcome'[r] = outcome[r]
      /\ cancelRequested \subseteq Tasks
  BY <1>0 DEF InlineTypeInv, InlineTypeOK, TasksTypeOK
<1>2. InlineHoldInv'
  BY <1>0, <1>1, TaskAssumption DEF InlineHoldInv
<1>3. InlineCancelInv'
  BY <1>0, <1>1 DEF InlineCancelInv
<1>4. AnsweredInOrder'
  <2>1. SUFFICES ASSUME NEW x \in Tasks, NEW y \in Tasks, outcome'[x] = "pending",
                        outcome'[y] \notin {"unsubmitted", "pending"}
                 PROVE  handle[y] < handle[x]
    BY DEF AnsweredInOrder
  <2>2. x # t /\ x \in Queued' /\ outcome[x] = "pending"
    BY <1>1, <1>2, <2>1, TaskAssumption DEF InlineHoldInv
  <2>3. CASE y = t
    BY <2>2, <2>3
  <2>4. CASE y # t
    BY <1>0, <1>1, <2>1, <2>2, <2>4 DEF InlineOrderInv, AnsweredInOrder
  <2> QED
    BY <2>3, <2>4
<1>5. InlineOrderInv'
  BY <1>0, <1>4, TaskAssumption DEF InlineOrderInv
<1> QED
  BY <1>2, <1>3, <1>5

LEMMA InlineMainHolds ==
    ASSUME InlineInv, InlineMainStep
    PROVE  InlineHoldInv' /\ InlineCancelInv' /\ InlineOrderInv'
<1>0. InlineTypeInv /\ InlineHoldInv /\ InlineCancelInv /\ InlineOrderInv
  BY DEF InlineInv
<1>1. CASE InlineTake
  <2> DEFINE first == Head(m_workQueue)
  <2>1. /\ first \in Queued /\ first \in Tasks /\ Queued' = Queued \ {first}
        /\ Sorted(m_workQueue, handle)' /\ \A x \in Queued' : handle[first] < handle[x]
        /\ mainTask = NoTask
    BY <1>1, InlineTakes
  <2>2. /\ UNCHANGED <<handle, m_nextHandle, m_cancelled, cancelRequested>>
        /\ IF m_cancelled[first]
           THEN outcome' = [outcome EXCEPT ![first] = "cancelled"] /\ mainTask' = mainTask
           ELSE outcome' = outcome /\ mainTask' = first
    BY <1>1 DEF InlineTake
  <2> HIDE DEF first
  <2>3. CASE m_cancelled[first]
    <3>1. Queued \subseteq Tasks /\ outcome[first] = "pending"
      BY <1>0, <2>1 DEF InlineHoldInv, InlineTypeInv, InlineTypeOK, TasksTypeOK, Queued, InQueue
    <3>2. first \notin Queued' /\ \A r \in Tasks \ {first} : r \in Queued' <=> r \in Queued \/ r = mainTask
      BY <2>1, TaskAssumption
    <3> QED
      BY <2>1, <2>2, <2>3, <3>1, <3>2, InlineAnswered
  <2>4. CASE ~m_cancelled[first]
    <3>1. InlineHoldInv'
      BY <1>0, <2>1, <2>2, <2>4, TaskAssumption DEF InlineHoldInv
    <3>2. InlineCancelInv'
      BY <1>0, <2>2, <2>4 DEF InlineCancelInv
    <3>3. InlineOrderInv'
      BY <1>0, <2>1, <2>2, <2>4 DEF InlineOrderInv, AnsweredInOrder
    <3> QED
      BY <3>1, <3>2, <3>3
  <2> QED
    BY <2>3, <2>4
<1>2. CASE InlineExecute
  <2>1. PICK t \in Tasks : t = mainTask
    BY <1>0, <1>2 DEF InlineExecute, InlineTypeInv, InlineTypeOK, TasksTypeOK
  <2>2. PICK a \in {"cancelled", "completed", "failed"} : outcome' = [outcome EXCEPT ![t] = a]
    <3>1. PICK answer \in {<<"Cancelled", "cancelled">>, <<"Completed", "completed">>,
                           <<"Failed", "failed">>} :
              outcome' = [outcome EXCEPT ![t] = answer[2]]
      BY <1>2, <2>1 DEF InlineExecute
    <3>2. answer[2] \in {"cancelled", "completed", "failed"}
      OBVIOUS
    <3> QED
      BY <3>1, <3>2
  <2>3. /\ mainTask' = NoTask /\ Queued' = Queued /\ Queued \subseteq Tasks
        /\ UNCHANGED <<handle, m_nextHandle, m_cancelled, cancelRequested, m_workQueue>>
    BY <1>0, <1>2 DEF InlineExecute, Queued, InlineTypeInv, InlineTypeOK, TasksTypeOK, InQueue
  <2>4. t \notin Queued /\ outcome[t] = "pending" /\ \A r \in Queued : handle[t] < handle[r]
    BY <1>0, <2>1 DEF InlineHoldInv, InlineOrderInv
  <2>5. Sorted(m_workQueue, handle)'
    BY <1>0, <2>3 DEF InlineOrderInv, Sorted
  <2> QED
    BY <2>1, <2>2, <2>3, <2>4, <2>5, InlineAnswered
<1>3. CASE InlineCallbackReturns \/ InlinePollReturn
  <2>1. UNCHANGED <<m_workQueue, mainTask, outcome, handle, m_nextHandle, m_cancelled,
                    cancelRequested>>
    BY <1>3 DEF InlineCallbackReturns, InlinePollReturn, history
  <2> QED
    BY <1>0, <2>1 DEF InlineHoldInv, InlineCancelInv, InlineOrderInv, AnsweredInOrder, Sorted,
                      Queued
<1> QED
  BY <1>1, <1>2, <1>3 DEF InlineMainStep

LEMMA InlineInvariance == InlineSafety => []InlineInv
<1>1. InlineInv /\ UNCHANGED inlineVars => InlineInv'
  BY DEF InlineInv, InlineTypeInv, InlineTypeOK, TasksTypeOK, InlineHoldInv, InlineCancelInv,
         InlineOrderInv, AnsweredInOrder, Sorted, Queued, inlineVars, pollVars, history
<1>2. InlineInv /\ [InlineStep]_inlineVars => InlineInv'
  <2>1. InlineInv => InlineTypeInv
    BY DEF InlineInv
  <2>2. InlineInv /\ InlineStep => InlineTypeInv'
    BY <2>1, InlineUserKeepsType, InlineMainKeepsType DEF InlineStep
  <2> QED
    BY <1>1, <2>2, InlineUserHolds, InlineMainHolds DEF InlineInv, InlineStep
<1> QED
  BY InlineInitHolds, <1>2, PTL DEF InlineSafety

(* hasPendingWork of the build without threads sees every pending task     *)
(* whenever user code can ask, in a callback of a poll too: what           *)
(* work_pool.hpp says of it is true there.                                 *)
THEOREM InlineHasPendingWorkIsExact == InlineSafety => []HasPendingWorkSeesAll
<1>1. InlineInv => HasPendingWorkSeesAll
  <2> SUFFICES ASSUME InlineInv, UserCode PROVE InQueue(m_workQueue) = Pending
    BY DEF HasPendingWorkSeesAll
  <2>1. mainTask = NoTask /\ Queued \subseteq Tasks
    BY DEF InlineInv, InlineTypeInv, InlineTypeOK, TasksTypeOK, UserCode, Queued, InQueue
  <2> QED
    BY <2>1, TaskAssumption DEF InlineInv, InlineHoldInv, Pending, Queued
<1> QED
  BY InlineInvariance, <1>1, PTL

(* Without threads tasks are answered in the order they were submitted,    *)
(* whatever callbacks submit, cancel and poll.                             *)
THEOREM InlineAnswersInOrder == InlineSafety => []AnsweredInOrder
<1>1. InlineInv => AnsweredInOrder
  BY DEF InlineInv, InlineOrderInv
<1> QED
  BY InlineInvariance, <1>1, PTL

LEMMA InlineUserDelivers ==
    ASSUME InlineInv, InlineUserStep
    PROVE  Delivery!AbsNext \/ UNCHANGED Delivery!avars
<1>0. InlineTypeInv /\ InlineHoldInv /\ InlineCancelInv
  BY DEF InlineInv
<1>1. ASSUME NEW t \in Tasks, InlineSubmit(t) PROVE Delivery!AbsSubmit(t)
  BY <1>1 DEF InlineSubmit, UserCode, Delivery!AbsSubmit
<1>2. ASSUME NEW t \in Tasks, InlineCancelTask(t) PROVE Delivery!AbsCancel({t})
  BY <1>2 DEF InlineCancelTask, UserCode, Delivery!AbsCancel, Delivery!AbsPending
<1>3. ASSUME NEW o \in Owners, InlineCancelAllForOwner(o)
      PROVE  Delivery!AbsCancel({t \in Pending : OwnerOf[t] = o})
  BY <1>3 DEF InlineCancelAllForOwner, UserCode, Pending, Delivery!AbsCancel,
              Delivery!AbsPending
<1>4. CASE InlinePoll
  BY <1>4 DEF InlinePoll, BeginPoll, UserCode, history, Delivery!avars
<1>5. CASE InlineDestroy
  <2>1. mainTask = NoTask /\ mainPc = "idle" /\ mainPc' = "destroyed" /\ UNCHANGED cancelRequested
    BY <1>0, <1>5 DEF InlineDestroy, InlineTypeInv
  <2>2. ASSUME NEW t \in Tasks
        PROVE  /\ outcome'[t] \in Delivery!AbsClosedOutcome(t)
               /\ outcome'[t] \in {outcome[t], "cancelled", "dropped"}
    <3>1. CASE t \notin Queued
      <4>1. outcome'[t] = outcome[t] /\ outcome[t] # "pending"
        BY <1>0, <1>5, <2>1, <3>1, TaskAssumption DEF InlineDestroy, InlineHoldInv, Queued
      <4> QED
        BY <4>1 DEF Delivery!AbsClosedOutcome
    <3>2. CASE t \in Queued /\ m_cancelled[t]
      <4>1. outcome'[t] = "cancelled" /\ outcome[t] = "pending" /\ t \in cancelRequested
        BY <1>0, <1>5, <3>2 DEF InlineDestroy, InlineHoldInv, InlineCancelInv, Queued
      <4> QED
        BY <4>1 DEF Delivery!AbsClosedOutcome
    <3>3. CASE t \in Queued /\ ~m_cancelled[t]
      <4>1. outcome'[t] = "dropped" /\ outcome[t] = "pending" /\ t \notin cancelRequested
        BY <1>0, <1>5, <3>3 DEF InlineDestroy, InlineHoldInv, InlineCancelInv, Queued
      <4> QED
        BY <4>1 DEF Delivery!AbsClosedOutcome
    <3> QED
      BY <3>1, <3>2, <3>3
  <2>3. outcome' \in [Tasks -> Delivery!Outcomes]
    <3>1. DOMAIN outcome' = Tasks /\ outcome' = [t \in Tasks |-> outcome'[t]]
      BY <1>5 DEF InlineDestroy
    <3>2. \A t \in Tasks : outcome'[t] \in Delivery!Outcomes
      BY <1>0, <2>2 DEF InlineTypeInv, InlineTypeOK, TasksTypeOK, Delivery!Outcomes
    <3> QED
      BY <3>1, <3>2
  <2>4. Delivery!AbsClose
    BY <2>1, <2>2, <2>3 DEF Delivery!AbsClose
  <2> QED
    BY <2>4 DEF Delivery!AbsNext
<1> QED
  <2>1. \A o \in Owners : {t \in Pending : OwnerOf[t] = o} \in SUBSET Tasks
    BY DEF Pending
  <2>2. \A t \in Tasks : {t} \in SUBSET Tasks
    OBVIOUS
  <2> QED
    BY <1>1, <1>2, <1>3, <1>4, <1>5, <2>1, <2>2 DEF InlineUserStep, Delivery!AbsNext

LEMMA InlineMainDelivers ==
    ASSUME InlineInv, InlineMainStep
    PROVE  Delivery!AbsNext \/ UNCHANGED Delivery!avars
<1>0. InlineTypeInv /\ InlineHoldInv /\ InlineCancelInv
  BY DEF InlineInv
<1>1. CASE InlineTake
  <2> DEFINE first == Head(m_workQueue)
  <2>1. /\ first \in Tasks /\ outcome[first] = "pending" /\ mainPc = "poll"
        /\ (m_cancelled[first] <=> first \in cancelRequested)
    BY <1>0, <1>1, InlineTakes DEF InlineHoldInv, InlineCancelInv
  <2>2. CASE m_cancelled[first]
    <3>1. Delivery!AbsAnswer(first)
      BY <1>1, <2>1, <2>2 DEF InlineTake, Delivery!AbsAnswer
    <3> QED
      BY <2>1, <3>1 DEF Delivery!AbsNext
  <2>3. CASE ~m_cancelled[first]
    BY <1>1, <2>3 DEF InlineTake, Delivery!avars
  <2> QED
    BY <2>2, <2>3
<1>2. CASE InlineExecute
  <2>1. PICK t \in Tasks : t = mainTask
    BY <1>0, <1>2 DEF InlineExecute, InlineTypeInv, InlineTypeOK, TasksTypeOK
  <2>2. outcome[t] = "pending" /\ (m_cancelled[t] <=> t \in cancelRequested)
    BY <1>0, <2>1 DEF InlineHoldInv, InlineCancelInv
  <2>3. \E o \in IF t \in cancelRequested THEN {"cancelled"} ELSE {"completed", "failed"} :
            outcome' = [outcome EXCEPT ![t] = o]
    <3>1. CASE m_cancelled[t]
      <4>1. outcome' = [outcome EXCEPT ![t] = <<"Cancelled", "cancelled">>[2]]
        BY <1>2, <2>1, <3>1 DEF InlineExecute
      <4> QED
        BY <2>2, <3>1, <4>1
    <3>2. CASE ~m_cancelled[t]
      <4>1. \/ outcome' = [outcome EXCEPT ![t] = <<"Completed", "completed">>[2]]
            \/ outcome' = [outcome EXCEPT ![t] = <<"Failed", "failed">>[2]]
        BY <1>2, <2>1, <3>2 DEF InlineExecute
      <4> QED
        BY <2>2, <3>2, <4>1
    <3> QED
      BY <3>1, <3>2
  <2>4. Delivery!AbsAnswer(t)
    BY <1>2, <2>2, <2>3 DEF InlineExecute, Delivery!AbsAnswer
  <2> QED
    BY <2>4 DEF Delivery!AbsNext
<1>3. CASE InlineCallbackReturns \/ InlinePollReturn
  BY <1>3 DEF InlineCallbackReturns, InlinePollReturn, EndPoll, history, Delivery!avars
<1> QED
  BY <1>1, <1>2, <1>3 DEF InlineMainStep

(* The build without threads keeps the same promises as the one with       *)
(* threads, although it has no generations: a cancelled task is in the     *)
(* queue, where its flag can be raised, or is answered already.            *)
THEOREM InlinePoolImplementsDelivery == InlineSafety => ImplementsDelivery
<1>1. InlineInit => Delivery!AbsInit
  BY DEF InlineInit, TasksInit, Delivery!AbsInit
<1>2. UNCHANGED inlineVars => UNCHANGED Delivery!avars
  BY DEF inlineVars, history, Delivery!avars
<1>3. InlineInv /\ [InlineStep]_inlineVars => [Delivery!AbsNext]_Delivery!avars
  BY <1>2, InlineUserDelivers, InlineMainDelivers DEF InlineStep
<1> QED
  BY InlineInvariance, <1>1, <1>3, PTL DEF InlineSafety, ImplementsDelivery, Delivery!AbsSpec
=============================================================================
