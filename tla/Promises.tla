------------------------------ MODULE Promises ------------------------------
(* Promises of the scripting layer (lua_promise.cpp): Promise.new, resolve *)
(* and reject, all, andThen, catch, finally, cancel, onCancel, async and   *)
(* await.                                                                  *)
(*                                                                         *)
(* Everything runs on one thread, but every operation may call a handler,  *)
(* a hook or a coroutine, and those are scripts that may call any          *)
(* operation again.  stack holds the calls under way, innermost first: a   *)
(* frame of the promise code, or a script that is running.  With no frame  *)
(* the host runs the script.                                               *)
(*                                                                         *)
(* A promise may be chained from while its lists are being walked.  A      *)
(* second walk starts then, and runs the entry under way again; the first  *)
(* one has lost its list (dangling), which it finds out only when what it  *)
(* called returns.  What follows is `undefined`, and the model stops there,*)
(* as it does when a registry number is used after its release: it may     *)
(* name anything by then.                                                  *)
EXTENDS Integers, FiniteSets, Sequences

CONSTANTS Promises,
          None, Plain,      \* no promise; a value that is not a promise
          HandlerSets,      \* the sets of handlers that andThen is given
          MaxInputs,        \* bound: the inputs of a Promise.all
          MaxSize           \* bound: the promises that scripts have and their operations

Settled == {"Fulfilled", "Rejected", "Cancelled"}

ASSUME NoneAssumption == None \notin Promises /\ Plain \notin Promises
ASSUME BoundAssumption ==
    MaxSize \in Nat /\ MaxInputs \in Nat /\ HandlerSets \subseteq SUBSET Settled

VARIABLES
    m_promiseState,      \* promise -> its state, "unused" before it is made
    origin,              \* promise -> what made it: "new", "then", "async" or "all"
    m_parentRef,         \* promise -> the promise it was chained from, or None
    m_consumerRefs,      \* promise -> the promises chained from it
    m_thenCallbacks,     \* promise -> its andThen, catch and await callbacks
    m_finallyCallbacks,  \* promise -> its finally callbacks
    m_onCancelRef,       \* the promises that have a cancellation hook
    circular,            \* the promises fulfilled with themselves
    alls,                \* promise -> what the closures of its Promise.all share
    stack,               \* the calls under way, the innermost first
    ops,                 \* how many operations scripts have performed
    calls,               \* promise -> how often its callback's handler ran
    strayed,             \* the promises that left a pending parent for another
    late,                \* the promises chained from one already cancelled
    dangling,            \* the height in the stack, from the outermost call, of
                         \* the innermost one whose list was changed, or 0
    undefined            \* such a list, or a released number, was used

links == <<m_parentRef, m_consumerRefs>>
results == <<circular, alls>>
lists == <<m_thenCallbacks, m_finallyCallbacks>>
ghosts == <<calls, strayed, late, dangling, undefined>>
vars == <<m_promiseState, origin, links, lists, m_onCancelRef, results,
          stack, ops, ghosts>>

Values == Promises \cup {Plain}

(* The state and chainedRefs tables of a Promise.all: its inputs, whether  *)
(* something that is no promise comes after them, their chained promises,  *)
(* how many of those are in the table, which numbers of the table are      *)
(* released, and whether the hook is the table's.                          *)
NoAll == [inputs |-> <<>>, bad |-> FALSE, chained |-> <<>>, wired |-> 0, remaining |-> 0,
          done |-> FALSE, freed |-> {}, hooked |-> FALSE]

Init ==
    /\ m_promiseState = [p \in Promises |-> "unused"]
    /\ origin = [p \in Promises |-> "new"]
    /\ m_parentRef = [p \in Promises |-> None]
    /\ m_consumerRefs = [p \in Promises |-> <<>>]
    /\ m_thenCallbacks = [p \in Promises |-> <<>>]
    /\ m_finallyCallbacks = [p \in Promises |-> <<>>]
    /\ m_onCancelRef = {} /\ circular = {} /\ alls = [p \in Promises |-> NoAll]
    /\ stack = <<>> /\ ops = 0
    /\ calls = [p \in Promises |-> 0] /\ strayed = {} /\ late = {}
    /\ dangling = 0 /\ undefined = FALSE

isPending(p) == m_promiseState[p] = "Pending"
isCancelled(p) == m_promiseState[p] = "Cancelled"
Made == {p \in Promises : m_promiseState[p] # "unused"}

(* A frame: what is done to promise p; i and v are its place and argument. *)
Frame(op, p, i, v) == [op |-> op, p |-> p, i |-> i, v |-> v]
Call(op, p) == Frame(op, p, 1, Plain)
Script(p, what) == Frame("script", p, 1, what)
Top == Head(stack)
Running(op) == ~undefined /\ stack # <<>> /\ Len(stack) # dangling /\ Top.op = op

(* The innermost call is replaced by these.                                *)
Continue(frames) == stack' = frames \o Tail(stack)
Leave == stack' = Tail(stack)

(* The calls of these kinds that are in the middle of a list of p.         *)
Walks(p, by) == {k \in DOMAIN stack : stack[k].p = p /\ stack[k].op \in by /\ stack[k].i > 1}
Height(k) == Len(stack) + 1 - k

(* An entry is added to a list that these calls walk.  The walk that is    *)
(* started then finds released numbers in the entries that are done.       *)
Disturb(p, by) ==
    /\ LET lost == {dangling} \cup {Height(k) : k \in Walks(p, by)} IN
       \E innermost \in lost : dangling' = innermost /\ \A h \in lost : h <= innermost
    /\ undefined' = \E k \in Walks(p, {"notify", "renotify"}) : stack[k].i > 2

(* The call goes on, or its caller does, with a list that was changed.     *)
LoseList ==
    /\ stack # <<>> /\ Len(stack) = dangling /\ ~undefined
    /\ undefined' = TRUE
    /\ UNCHANGED <<m_promiseState, origin, links, lists, m_onCancelRef, results, stack, ops,
                   calls, strayed, late, dangling>>
CallerLost == Len(stack) = dangling + 1

-----------------------------------------------------------------------------
(* What a script does: the host's, or the innermost frame's.               *)

(* The promises that Promise.all chains: no script has them, nor one that  *)
(* is still to be returned by andThen, catch, finally or Promise.all.      *)
ChainedByAll == UNION {{alls[r].chained[k] : k \in DOMAIN alls[r].chained} : r \in Promises}
Unreturned == {IF stack[k].op = "all" THEN stack[k].p ELSE stack[k].v :
                  k \in {j \in DOMAIN stack : stack[j].op \in {"all", "renotify"}}}
Known == {p \in Made \ (ChainedByAll \cup Unreturned) : ~alls[p].bad}
Fresh(p) == m_promiseState[p] = "unused" /\ p \notin ChainedByAll

Scripting == ~undefined /\ IF stack = <<>> THEN TRUE ELSE Top.op = "script"
Room == ops + Cardinality(Made \ ChainedByAll) < MaxSize
Spend == Room /\ ops' = ops + 1

(* Promise.new, whose executor only keeps what it is given.                *)
New(p) ==
    /\ Scripting /\ Room /\ Fresh(p)
    /\ m_promiseState' = [m_promiseState EXCEPT ![p] = "Pending"]
    /\ UNCHANGED <<origin, links, lists, m_onCancelRef, results, stack, ops, ghosts>>

(* The functions that Promise.new hands to its executor.                   *)
Settle(p, v) ==
    /\ Scripting /\ Spend
    /\ isPending(p) /\ origin[p] = "new" /\ v \in Known \cup {Plain}
    /\ \E f \in {Frame("resolve", p, 1, v)} \cup
                IF v = Plain THEN {Call("reject", p)} ELSE {} :
           stack' = <<f>> \o stack
    /\ UNCHANGED <<m_promiseState, origin, links, lists, m_onCancelRef, results, ghosts>>

(* A new promise c, chained from p: each refers to the other.              *)
promise_wireLinks(p, c) ==
    /\ m_promiseState' = [m_promiseState EXCEPT ![c] = "Pending"]
    /\ origin' = [origin EXCEPT ![c] = "then"]
    /\ m_consumerRefs' = [m_consumerRefs EXCEPT ![p] = Append(@, c)]
    /\ m_parentRef' = [m_parentRef EXCEPT ![c] = p]
    /\ late' = IF isCancelled(p) THEN late \cup {c} ELSE late

(* A settled promise answers the new one at once, but for a cancelled one. *)
NotifyIfSettled(p, c) ==
    IF isPending(p) \/ isCancelled(p) THEN <<>> ELSE <<Frame("renotify", p, 1, c)>>

(* p:andThen(onFulfilled, onRejected), and p:catch(onRejected).            *)
AndThen(p, c, on) ==
    /\ Scripting /\ Spend /\ p \in Known /\ Fresh(c)
    /\ promise_wireLinks(p, c)
    /\ m_thenCallbacks' = [m_thenCallbacks EXCEPT
           ![p] = Append(@, [kind |-> "then", on |-> on, chained |-> c])]
    /\ stack' = NotifyIfSettled(p, c) \o stack
    /\ Disturb(p, {"notify", "renotify", "down", "drop"})
    /\ UNCHANGED <<m_finallyCallbacks, m_onCancelRef, results, calls, strayed>>

(* p:finally(callback): the callback may be missing.                       *)
Finally(p, c, called) ==
    /\ Scripting /\ Spend /\ p \in Known /\ Fresh(c)
    /\ promise_wireLinks(p, c)
    /\ m_finallyCallbacks' = [m_finallyCallbacks EXCEPT
           ![p] = Append(@, [called |-> called, chained |-> c])]
    /\ stack' = NotifyIfSettled(p, c) \o stack
    /\ Disturb(p, {"notify", "renotify", "down"})
    /\ UNCHANGED <<m_thenCallbacks, m_onCancelRef, results, calls, strayed>>

(* p:cancel()                                                              *)
Cancel(p) ==
    /\ Scripting /\ Spend /\ isPending(p) /\ p \in Known
    /\ stack' = <<Call("cancel", p)>> \o stack
    /\ UNCHANGED <<m_promiseState, origin, links, lists, m_onCancelRef, results, ghosts>>

(* p:onCancel(fn): one hook, the last, which may replace Promise.all's.    *)
OnCancel(p) ==
    /\ Scripting /\ Spend
    /\ p \in Known /\ (p \in m_onCancelRef => alls[p].hooked)
    /\ m_onCancelRef' = m_onCancelRef \cup {p}
    /\ alls' = [alls EXCEPT ![p].hooked = FALSE]
    /\ UNCHANGED <<m_promiseState, origin, links, lists, circular, stack, ghosts>>

(* What its closures share: even what is no promise is counted.            *)
NewAll(inputs, bad, chained) ==
    [NoAll EXCEPT !.inputs = inputs, !.bad = bad, !.chained = chained,
                  !.remaining = IF bad THEN Len(inputs) + 1 ELSE Len(inputs)]

(* Promise.all(inputs): the chained promises cs are made one by one, for   *)
(* the inputs before the first that is no promise.                         *)
All(r) ==
    /\ Scripting /\ Spend /\ Fresh(r)
    /\ m_promiseState' = [m_promiseState EXCEPT ![r] = "Pending"]
    /\ origin' = [origin EXCEPT ![r] = "all"]
    /\ \E n \in 0..MaxInputs, bad \in BOOLEAN :
          \E inputs \in [1..n -> Known], cs \in [1..n -> {c \in Promises \ {r} : Fresh(c)}] :
             /\ bad => 0 < n /\ n < MaxInputs
             /\ \A j, k \in 1..n : cs[j] = cs[k] => j = k
             /\ alls' = [alls EXCEPT ![r] = NewAll(inputs, bad, cs)]
             /\ stack' = <<IF n = 0 THEN Frame("resolve", r, 1, Plain)
                                    ELSE Call("all", r)>> \o stack
    /\ UNCHANGED <<links, lists, m_onCancelRef, circular, ghosts>>

(* async(fn): a promise, and a coroutine that runs at once.                *)
lua_async(p) ==
    /\ Scripting /\ Spend /\ Fresh(p)
    /\ m_promiseState' = [m_promiseState EXCEPT ![p] = "Pending"]
    /\ origin' = [origin EXCEPT ![p] = "async"]
    /\ stack' = <<Script(p, "coroutine")>> \o stack
    /\ UNCHANGED <<links, lists, m_onCancelRef, results, ghosts>>

(* await(p) yields the coroutine until p settles; of a settled promise it  *)
(* returns at once, and outside of a coroutine it is an error (Throw).     *)
Awaitable(p) == Running("script") /\ Top.v = "coroutine" /\ isPending(p) /\ p \in Known

(* Nothing else yields, so there always is a promise to wait for.          *)
lua_await(p) ==
    /\ Awaitable(p) /\ Spend
    /\ m_thenCallbacks' = [m_thenCallbacks EXCEPT
           ![p] = Append(@, [kind |-> "await", on |-> {}, chained |-> Top.p])]
    /\ Leave
    /\ UNCHANGED <<m_promiseState, origin, links, m_finallyCallbacks, m_onCancelRef,
                   results, ghosts>>

(* What p tells a chained promise that has no handler for it.              *)
Propagate(p, c) ==
    IF m_promiseState[p] = "Fulfilled"
    THEN Frame("resolve", c, 1, IF p \in circular THEN p ELSE Plain)
    ELSE Call("reject", c)

(* A script ends.  A handler's value goes to the chained promise, a        *)
(* coroutine's to its own; after a finally callback the promise below      *)
(* tells its own result, and a hook's value is dropped.                    *)
Return(v) ==
    /\ Running("script")
    /\ \/ v = Plain /\ UNCHANGED ops
       \/ v \in Known /\ Top.v \in {"handler", "coroutine"} /\ Spend
    /\ Continue(CASE Top.v = "hook" -> <<>>
                  [] Top.v = "finally" -> <<Propagate(stack[2].p, Top.p)>>
                  [] OTHER -> <<Frame("resolve", Top.p, 1, v)>>)
    /\ undefined' = (Top.v \in {"handler", "finally"} /\ CallerLost)
    /\ UNCHANGED <<m_promiseState, origin, links, lists, m_onCancelRef, results,
                   calls, strayed, late, dangling>>

(* A script fails: its promise is rejected with the error.                 *)
Throw ==
    /\ Running("script") /\ Top.v # "hook"
    /\ Continue(<<Call("reject", Top.p)>>)
    /\ UNCHANGED <<m_promiseState, origin, links, lists, m_onCancelRef, results, ops, ghosts>>

-----------------------------------------------------------------------------
(* What the promise code does, one step of the innermost frame each.       *)

(* MUTANT: the reference to the parent is kept.                            *)
CleanupKeepsParent(p) ==
    /\ m_consumerRefs' = [m_consumerRefs EXCEPT ![p] = <<>>]
    /\ m_onCancelRef' = m_onCancelRef \ {p}
    /\ UNCHANGED m_parentRef

(* Release every link of a promise that has settled.                       *)
promise_cleanupLinks(p) ==
    /\ m_parentRef' = [m_parentRef EXCEPT ![p] = None]
    /\ m_consumerRefs' = [m_consumerRefs EXCEPT ![p] = <<>>]
    /\ m_onCancelRef' = m_onCancelRef \ {p}

(* resolve: only a pending promise takes the value.                        *)
ResolveIgnored ==
    /\ Running("resolve") /\ ~isPending(Top.p)
    /\ Leave
    /\ UNCHANGED <<m_promiseState, origin, links, lists, m_onCancelRef, results, ops, ghosts>>

Resolving(p, v) == Running("resolve") /\ Top.p = p /\ Top.v = v /\ isPending(p)

(* A value that is no other promise fulfils p.                             *)
ResolveValue(p) ==
    \E v \in {Plain, p} :
        /\ Resolving(p, v)
        /\ m_promiseState' = [m_promiseState EXCEPT ![p] = "Fulfilled"]
        /\ circular' = IF v = p THEN circular \cup {p} ELSE circular
        /\ Continue(<<Call("notify", p)>>)
        /\ UNCHANGED <<origin, links, lists, m_onCancelRef, alls, ops, ghosts>>

(* A settled promise as the value: p takes its state.  One that was        *)
(* fulfilled with itself makes resolve call itself without end.            *)
ResolveSettled(p, inner) ==
    /\ p # inner /\ Resolving(p, inner)
    /\ m_promiseState[inner] \in Settled
    /\ Continue(<<CASE m_promiseState[inner] = "Fulfilled" -> Frame("resolve", p, 1, Plain)
                    [] m_promiseState[inner] = "Rejected" -> Call("reject", p)
                    [] isCancelled(inner) -> Call("cancel", p)>>)
    /\ undefined' = (inner \in circular)
    /\ UNCHANGED <<m_promiseState, origin, links, lists, m_onCancelRef, results,
                   ops, calls, strayed, late, dangling>>

(* A pending promise as the value: p becomes its consumer, with no handler *)
(* of its own, and leaves the parent it had.                               *)
ResolveAdopts(p, inner) ==
    /\ p # inner /\ Resolving(p, inner) /\ isPending(inner)
    /\ m_parentRef' = [m_parentRef EXCEPT ![p] = inner]
    /\ m_consumerRefs' = [m_consumerRefs EXCEPT ![inner] = Append(@, p)]
    /\ m_thenCallbacks' = [m_thenCallbacks EXCEPT
           ![inner] = Append(@, [kind |-> "adopt", on |-> {}, chained |-> p])]
    /\ LET old == m_parentRef[p] IN
       strayed' = IF old \notin {None, inner} /\ isPending(old)
                  THEN strayed \cup {p} ELSE strayed
    /\ Leave
    /\ UNCHANGED <<m_promiseState, origin, m_finallyCallbacks, m_onCancelRef,
                   results, ops, calls, late, dangling, undefined>>

(* MUTANT: reject does not ask whether p is pending.                       *)
RejectAlways(p) ==
    /\ Running("reject") /\ Top.p = p
    /\ m_promiseState' = [m_promiseState EXCEPT ![p] = "Rejected"]
    /\ Continue(<<Call("notify", p)>>)
    /\ UNCHANGED <<origin, links, lists, m_onCancelRef, results, ops, ghosts>>

(* Only a pending promise takes the error.                                 *)
reject(p) ==
    /\ Running("reject") /\ Top.p = p
    /\ IF isPending(p)
       THEN /\ m_promiseState' = [m_promiseState EXCEPT ![p] = "Rejected"]
            /\ Continue(<<Call("notify", p)>>)
       ELSE Leave /\ UNCHANGED m_promiseState
    /\ UNCHANGED <<origin, links, lists, m_onCancelRef, results, ops, ghosts>>

(* promise_notifyCallbacks, the loop over the andThen callbacks: a handler *)
(* for the result is called, a coroutine resumed, and a chained promise    *)
(* without a handler told the result.  A coroutine that is resumed again   *)
(* by a second walk, as the entry under way, is dead by then, or running:  *)
(* two values are put onto its stack before that is found out.             *)
Resumed(p) ==
    \E k \in DOMAIN stack : k # 1 /\ stack[k].p = p /\ stack[k].op \in {"notify", "renotify"}
Coroutine(c) == \E k \in DOMAIN stack : stack[k] = Script(c, "coroutine")

NotifyThen(p) ==
    /\ Running("notify") \/ Running("renotify")
    /\ Top.p = p /\ Top.i <= Len(m_thenCallbacks[p])
    /\ LET cb == m_thenCallbacks[p][Top.i]
           handled == m_promiseState[p] \in cb.on
           resumed == cb.kind = "await" /\ Top.i = 1 /\ Resumed(p)
       IN  /\ Continue(<<CASE resumed -> Call("reject", cb.chained)
                           [] cb.kind = "await" /\ ~resumed -> Script(cb.chained, "coroutine")
                           [] cb.kind = "all" -> Call(IF m_promiseState[p] = "Fulfilled"
                                                      THEN "allFulfilled" ELSE "allRejected",
                                                      cb.chained)
                           [] cb.kind = "then" /\ handled -> Script(cb.chained, "handler")
                           [] OTHER -> Propagate(p, cb.chained),
                         [Top EXCEPT !.i = @ + 1]>>)
           /\ calls' = IF handled THEN [calls EXCEPT ![cb.chained] = @ + 1] ELSE calls
           /\ undefined' = (resumed /\ Coroutine(cb.chained))
    /\ UNCHANGED <<m_promiseState, origin, links, lists, m_onCancelRef, results,
                   ops, strayed, late, dangling>>

(* The loop over the finally callbacks.                                    *)
NotifyFinally(p) ==
    /\ Running("notify") \/ Running("renotify")
    /\ Top.p = p
    /\ LET k == Top.i - Len(m_thenCallbacks[p]) IN
       /\ k \in DOMAIN m_finallyCallbacks[p]
       /\ LET cb == m_finallyCallbacks[p][k] IN
          /\ Continue(<<IF cb.called THEN Script(cb.chained, "finally")
                        ELSE Propagate(p, cb.chained),
                        [Top EXCEPT !.i = @ + 1]>>)
          /\ calls' = IF cb.called THEN [calls EXCEPT ![cb.chained] = @ + 1] ELSE calls
    /\ UNCHANGED <<m_promiseState, origin, links, lists, m_onCancelRef, results,
                   ops, strayed, late, dangling, undefined>>

(* MUTANT: the callbacks stay in their lists.                              *)
KeepCallbacks(p) == UNCHANGED lists

ClearCallbacks(p) ==
    /\ m_thenCallbacks' = [m_thenCallbacks EXCEPT ![p] = <<>>]
    /\ m_finallyCallbacks' = [m_finallyCallbacks EXCEPT ![p] = <<>>]

(* Both lists are cleared; a promise that settles releases its links too.  *)
NotifyEnds(p) ==
    /\ Running("notify") \/ Running("renotify")
    /\ Top.p = p /\ Top.i > Len(m_thenCallbacks[p]) + Len(m_finallyCallbacks[p])
    /\ ClearCallbacks(p)
    /\ IF Top.op = "notify" THEN promise_cleanupLinks(p) ELSE UNCHANGED <<links, m_onCancelRef>>
    /\ Leave
    /\ UNCHANGED <<m_promiseState, origin, results, ops, ghosts>>

(* MUTANT: the state is set after the propagation.                         *)
CancelStateLast(p) ==
    /\ Running("cancel") /\ Top.p = p
    /\ Continue(IF isPending(p) THEN <<Call("down", p)>> ELSE <<>>)
    /\ UNCHANGED <<m_promiseState, origin, links, lists, m_onCancelRef, results, ops, ghosts>>

(* cancel: the state first, then the hook.                                 *)
CancelStarts(p) ==
    /\ Running("cancel") /\ Top.p = p
    /\ IF isPending(p)
       THEN /\ m_promiseState' = [m_promiseState EXCEPT ![p] = "Cancelled"]
            /\ Continue(IF p \in m_onCancelRef
                        THEN <<IF alls[p].hooked THEN Frame("allCancel", p, 1, p)
                               ELSE Script(p, "hook"),
                               Call("cancelled", p)>>
                        ELSE <<Call("down", p)>>)
       ELSE Leave /\ UNCHANGED m_promiseState
    /\ UNCHANGED <<origin, links, lists, m_onCancelRef, results, ops, ghosts>>

HookCalled(p) ==
    /\ Running("cancelled") /\ Top.p = p
    /\ Continue(<<Call("down", p)>>)
    /\ UNCHANGED <<m_promiseState, origin, links, lists, m_onCancelRef, results, ops, ghosts>>

(* Then down, to the consumers that are pending when their turn comes,     *)
(* and up, to a pending parent whose consumers are all cancelled.          *)
AllConsumersCancelled(q) ==
    \A k \in DOMAIN m_consumerRefs[q] : isCancelled(m_consumerRefs[q][k])

(* MUTANT: the parent is never told.                                       *)
CancelDownOnly(p) ==
    /\ Running("down") /\ Top.p = p
    /\ IF Top.i <= Len(m_consumerRefs[p])
       THEN Continue(<<Call("cancel", m_consumerRefs[p][Top.i]), [Top EXCEPT !.i = @ + 1]>>)
       ELSE Continue(<<Call("drop", p)>>)
    /\ UNCHANGED <<m_promiseState, origin, links, lists, m_onCancelRef, results, ops, ghosts>>

(* MUTANT: only the parent is told.                                        *)
CancelUpOnly(p) ==
    /\ Running("down") /\ Top.p = p
    /\ LET q == m_parentRef[p] IN
       Continue(IF q # None /\ isPending(q) /\ AllConsumersCancelled(q)
                THEN <<Call("cancel", q), Call("drop", p)>>
                ELSE <<Call("drop", p)>>)
    /\ UNCHANGED <<m_promiseState, origin, links, lists, m_onCancelRef, results, ops, ghosts>>

CancelLinked(p) ==
    /\ Running("down") /\ Top.p = p
    /\ LET q == m_parentRef[p] IN
       Continue(IF Top.i <= Len(m_consumerRefs[p])
                THEN <<Call("cancel", m_consumerRefs[p][Top.i]), [Top EXCEPT !.i = @ + 1]>>
                ELSE IF q # None /\ isPending(q) /\ AllConsumersCancelled(q)
                THEN <<Call("cancel", q), Call("drop", p)>>
                ELSE <<Call("drop", p)>>)
    /\ UNCHANGED <<m_promiseState, origin, links, lists, m_onCancelRef, results, ops, ghosts>>

(* Last, a coroutine that awaits p is closed and its promise rejected, the *)
(* other callbacks are dropped, and the links released.                    *)
CancelCallback(p) ==
    /\ Running("drop") /\ Top.p = p /\ Top.i <= Len(m_thenCallbacks[p])
    /\ LET cb == m_thenCallbacks[p][Top.i] IN
       Continue((IF cb.kind = "await" THEN <<Call("reject", cb.chained)>> ELSE <<>>)
                \o <<[Top EXCEPT !.i = @ + 1]>>)
    /\ UNCHANGED <<m_promiseState, origin, links, lists, m_onCancelRef, results, ops, ghosts>>

CancelEnds(p) ==
    /\ Running("drop") /\ Top.p = p /\ Top.i > Len(m_thenCallbacks[p])
    /\ ClearCallbacks(p) /\ promise_cleanupLinks(p)
    /\ Leave
    /\ UNCHANGED <<m_promiseState, origin, results, ops, ghosts>>

-----------------------------------------------------------------------------
(* Promise.all: its loop and the closures it hangs on its inputs.          *)

(* The next input gets a chained promise, which is entered in the table of *)
(* numbers, and the closures; a settled one calls them at once.            *)
AllInput(r) ==
    /\ Running("all") /\ Top.p = r /\ Top.i <= Len(alls[r].inputs)
    /\ LET p == alls[r].inputs[Top.i]
           c == alls[r].chained[Top.i]
       IN  /\ m_promiseState[c] = "unused" /\ promise_wireLinks(p, c)
           /\ m_thenCallbacks' = [m_thenCallbacks EXCEPT
                  ![p] = Append(@, [kind |-> "all", on |-> {"Fulfilled", "Rejected"},
                                    chained |-> c])]
           /\ alls' = [alls EXCEPT ![r].wired = Top.i]
           /\ Disturb(p, {"notify", "renotify", "down", "drop"})
           /\ Continue(NotifyIfSettled(p, c) \o <<[Top EXCEPT !.i = @ + 1]>>)
    /\ UNCHANGED <<m_finallyCallbacks, m_onCancelRef, circular, ops, calls, strayed>>

(* The result gets its hook, settled or not, and is returned; an element   *)
(* that is no promise is an error, and nobody ever gets the result.        *)
AllEnds(r) ==
    /\ Running("all") /\ Top.p = r /\ Top.i > Len(alls[r].inputs)
    /\ IF alls[r].bad THEN UNCHANGED <<m_onCancelRef, alls>>
       ELSE /\ m_onCancelRef' = m_onCancelRef \cup {r}
            /\ alls' = [alls EXCEPT ![r].hooked = TRUE]
    /\ Leave
    /\ UNCHANGED <<m_promiseState, origin, links, lists, circular, ops, ghosts>>

Closure(op, r) == Running(op) /\ \E k \in DOMAIN alls[r].chained : alls[r].chained[k] = Top.p
(* A closure returns nil, with which its chained promise is resolved.      *)
ClosureReturns == <<Frame("resolve", Top.p, 1, Plain)>>

(* MUTANT: only the inputs that the loop has reached are counted.          *)
CountsWired(r) ==
    /\ Closure("allFulfilled", r)
    /\ LET a == alls[r]
           last == a.remaining = 1 + Len(a.inputs) - a.wired
       IN  IF a.done THEN Continue(ClosureReturns) /\ UNCHANGED alls
           ELSE /\ alls' = [alls EXCEPT ![r].remaining = @ - 1, ![r].done = last]
                /\ Continue(IF last
                            THEN <<Frame("resolve", r, 1, Plain), Call("allRelease", Top.p)>>
                            ELSE ClosureReturns)
    /\ UNCHANGED <<m_promiseState, origin, links, lists, m_onCancelRef, circular, ops, ghosts>>

(* The success closure: the last input to be fulfilled fulfils the result. *)
AllFulfilled(r) ==
    /\ Closure("allFulfilled", r)
    /\ LET a == alls[r] IN
       IF a.done THEN Continue(ClosureReturns) /\ UNCHANGED alls
       ELSE /\ alls' = [alls EXCEPT ![r].remaining = @ - 1, ![r].done = a.remaining = 1]
            /\ Continue(IF a.remaining = 1
                        THEN <<Frame("resolve", r, 1, Plain), Call("allRelease", Top.p)>>
                        ELSE ClosureReturns)
    /\ UNCHANGED <<m_promiseState, origin, links, lists, m_onCancelRef, circular, ops, ghosts>>

(* ... and releases every number of the table, once more if they were.     *)
AllRelease(r) ==
    /\ Closure("allRelease", r)
    /\ alls' = [alls EXCEPT ![r].freed = 1..alls[r].wired]
    /\ undefined' = (alls[r].freed # {} \/ CallerLost)
    /\ Continue(ClosureReturns)
    /\ UNCHANGED <<m_promiseState, origin, links, lists, m_onCancelRef, circular, ops,
                   calls, strayed, late, dangling>>

(* The failure closure: the first input to be rejected rejects the result. *)
AllRejected(r) ==
    /\ Closure("allRejected", r)
    /\ IF alls[r].done THEN Continue(ClosureReturns) /\ UNCHANGED alls
       ELSE /\ alls' = [alls EXCEPT ![r].done = TRUE]
            /\ Continue(<<Call("reject", r), Frame("allCancel", Top.p, 1, r)>>)
    /\ UNCHANGED <<m_promiseState, origin, links, lists, m_onCancelRef, circular, ops, ghosts>>

(* The failure closure, and the hook, cancel the chained promises and      *)
(* release their numbers one after the other.                              *)
AllCancel(r) ==
    /\ Running("allCancel") /\ Top.v = r
    /\ LET a == alls[r]
           released == {Top.i - 1} \ {0}
       IN  /\ alls' = [alls EXCEPT ![r].freed = @ \cup released]
           /\ undefined' = \/ (released \cup ({Top.i} \cap 1..a.wired)) \cap a.freed # {}
                           \/ Top.i > a.wired /\ Top.p # r /\ CallerLost
           /\ Continue(CASE Top.i <= a.wired -> <<Call("cancel", a.chained[Top.i]),
                                                  [Top EXCEPT !.i = @ + 1]>>
                         [] Top.i > a.wired /\ Top.p = r -> <<>>
                         [] OTHER -> ClosureReturns)
    /\ UNCHANGED <<m_promiseState, origin, links, lists, m_onCancelRef, circular, ops,
                   calls, strayed, late, dangling>>

(* The host need not run scripts for ever.                                 *)
Rest == (stack = <<>> \/ undefined) /\ UNCHANGED vars

ScriptStep ==
    /\ Scripting
    /\ \/ Room /\ \E p \in Promises :
             \/ New(p) \/ Cancel(p) \/ OnCancel(p) \/ All(p) \/ lua_async(p) \/ lua_await(p)
             \/ \E v \in Values : Settle(p, v)
             \/ \E c \in Promises : \/ \E on \in HandlerSets : AndThen(p, c, on)
                                    \/ \E called \in BOOLEAN : Finally(p, c, called)
       \/ \E v \in Values : Return(v)
       \/ Throw

PromiseStep ==
    /\ stack # <<>>
    /\ \/ ResolveIgnored
       \/ \E p \in Promises \cap {Top.p} :
             \/ ResolveValue(p) \/ reject(p)
             \/ \E inner \in Promises : ResolveSettled(p, inner) \/ ResolveAdopts(p, inner)
             \/ NotifyThen(p) \/ NotifyFinally(p) \/ NotifyEnds(p)
             \/ CancelStarts(p) \/ HookCalled(p) \/ CancelLinked(p)
             \/ CancelCallback(p) \/ CancelEnds(p)
             \/ AllInput(p) \/ AllEnds(p)
       \/ \E r \in Promises : AllFulfilled(r) \/ AllRejected(r) \/ AllRelease(r) \/ AllCancel(r)

Next == ScriptStep \/ PromiseStep \/ LoseList \/ Rest

Spec == Init /\ [][Next]_vars

-----------------------------------------------------------------------------
(* Properties.                                                             *)

Frames ==
    [op : {"resolve", "reject", "notify", "renotify", "cancel", "cancelled", "down",
           "drop", "script", "all", "allFulfilled", "allRejected", "allRelease", "allCancel"},
     p : Promises, i : Nat, v : Values \cup {"handler", "finally", "hook", "coroutine"}]

AtRest == stack = <<>> /\ ~undefined

Awaits(q, p) ==
    \/ \E k \in DOMAIN m_thenCallbacks[q] : m_thenCallbacks[q][k].chained = p
    \/ \E k \in DOMAIN m_finallyCallbacks[q] : m_finallyCallbacks[q][k].chained = p
    \/ \E k \in DOMAIN m_thenCallbacks[q], j \in DOMAIN alls[p].chained :
          m_thenCallbacks[q][k].chained = alls[p].chained[j]

(* No answer is lost: when no call is under way, a pending promise that    *)
(* came from andThen, catch, finally, async or Promise.all has a callback  *)
(* with some pending promise, whatever handlers, hooks and coroutines did  *)
(* to the chain meanwhile.  Left out are a promise chained from one        *)
(* already cancelled and a Promise.all of one, which stay pending, and a   *)
(* Promise.all that ended in an error, which nobody has.                   *)
AnswerIsComing ==
    AtRest => \A p \in Promises :
        /\ isPending(p) /\ origin[p] # "new" /\ p \notin late
        /\ ~alls[p].bad /\ \A k \in DOMAIN alls[p].inputs : ~isCancelled(alls[p].inputs[k])
        =>
            \E q \in Promises : isPending(q) /\ Awaits(q, p)

(* A cancellation goes up when all consumers are cancelled, whichever of   *)
(* them goes last and from within whatever call, but for promises that     *)
(* left a pending parent by being resolved twice.                          *)
CancelGoesUp ==
    AtRest => \A q \in Promises :
        isPending(q) /\ m_consumerRefs[q] # <<>> =>
            \E k \in DOMAIN m_consumerRefs[q] :
                LET c == m_consumerRefs[q][k] IN ~isCancelled(c) \/ c \in strayed

(* A handler runs at most once, although several calls walk the lists.     *)
(* This is Promise/A+, and not what promise_notifyCallbacks does when a    *)
(* handler chains from the promise that it is called for.                  *)
HandlersOnce == \A p \in Promises : calls[p] <= 1

(* No call under way has lost the list that it walks.                      *)
Intact == dangling = 0 /\ ~undefined

(* But for that no handler runs twice: not when the lists are walked again *)
(* later, when handlers settle or cancel their promises or one another's,  *)
(* or when Promise.all waits for the same promise twice.                   *)
OnlyRechainingRepeats == Intact => HandlersOnce

(* Promise.all answers for all its inputs: it is fulfilled only when every *)
(* one is, rejected only when one is, and a rejection is not kept back,    *)
(* in whatever order the inputs settle, some twice in the list, some from  *)
(* inside of the closures of others.                                       *)
AllOrNothing ==
    ~undefined =>
        \A r \in Promises : origin[r] = "all" =>
            LET Inputs(state) == {k \in DOMAIN alls[r].inputs :
                                     m_promiseState[alls[r].inputs[k]] = state}
            IN  /\ m_promiseState[r] = "Fulfilled" => Inputs("Fulfilled") = DOMAIN alls[r].inputs
                /\ m_promiseState[r] = "Rejected" => Inputs("Rejected") # {}
                /\ AtRest /\ isPending(r) => Inputs("Rejected") = {}

(* Calls do not nest without bound: a promise is settled, or its lists     *)
(* walked, by one frame at a time, cycles of promises included.  A second  *)
(* walk comes only within one that has lost its list, to a callback that   *)
(* was chained from its promise under way, and none within the second.     *)
OneFramePerPromise ==
    ~undefined =>
        \A j, k \in DOMAIN stack :
            /\ j # k /\ stack[j].p = stack[k].p
            /\ Height(j) > dangling /\ Height(k) > dangling
            /\ stack[j].op \in {"notify", "renotify", "cancelled", "down", "drop"}
            => stack[k].op \notin {"notify", "renotify", "cancelled", "down", "drop"}

(* The cycle of parents and consumers is broken by whatever settles a      *)
(* promise, adopted and readopted ones included: it keeps no parent.       *)
LinksReleased ==
    AtRest => \A p \in Promises : m_promiseState[p] \in Settled => m_parentRef[p] = None

(* The states are one-way and immutable: no late answer, second settlement *)
(* or cancellation changes a promise that has settled.                     *)
StatesAreOneWay ==
    [][\A p \in Promises : m_promiseState[p] \in Settled =>
                              m_promiseState'[p] = m_promiseState[p]]_vars

=============================================================================
