--------------------------- MODULE PromisesProofs ---------------------------
(* Proofs, for any number of promises, any scripts and any depth of calls: *)
(* the states of promises are one-way, one call at a time walks the lists  *)
(* of a promise but for those that have lost theirs, what has settled has  *)
(* left its parent, a handler runs at most once until a promise is chained *)
(* from in its own walk, a cancellation goes up, Promise.all answers for   *)
(* all its inputs, and no answer is lost.                                  *)
EXTENDS Promises, SequenceTheorems, FiniteSetTheorems, TLAPS

StateType == m_promiseState \in [Promises -> Settled \cup {"unused", "Pending"}]

(* What a step may do to the states: one promise is made or settles.       *)
OneMoves ==
    \E p, s :
        /\ s \in Settled \cup {"Pending"}
        /\ m_promiseState[p] \in {"unused", "Pending"}
        /\ m_promiseState' = [m_promiseState EXCEPT ![p] = s]

(* A script's step makes at most one promise, and settles none itself.     *)
LEMMA ScriptMoves ==
    ASSUME ScriptStep
    PROVE  UNCHANGED m_promiseState \/ OneMoves
<1>1. ASSUME NEW p \in Promises, New(p) \/ lua_async(p) \/ All(p) PROVE OneMoves
  BY <1>1 DEF New, lua_async, All, Fresh, OneMoves
<1>3. ASSUME NEW p, NEW c, m_promiseState[c] = "unused", promise_wireLinks(p, c)
      PROVE  OneMoves
  BY <1>3 DEF promise_wireLinks, OneMoves
<1>4. ASSUME NEW p \in Promises, NEW c \in Promises, NEW on \in HandlerSets, AndThen(p, c, on)
      PROVE  OneMoves
  BY <1>3, <1>4 DEF AndThen, Fresh
<1>5. ASSUME NEW p \in Promises, NEW c \in Promises, NEW called \in BOOLEAN,
             Finally(p, c, called)
      PROVE  OneMoves
  BY <1>3, <1>5 DEF Finally, Fresh
<1>6. ASSUME NEW p \in Promises, Cancel(p) \/ OnCancel(p) \/ lua_await(p)
      PROVE  UNCHANGED m_promiseState
  BY <1>6 DEF Cancel, OnCancel, lua_await
<1>7. ASSUME NEW p \in Promises, NEW v \in Values, Settle(p, v)
      PROVE  UNCHANGED m_promiseState
  BY <1>7 DEF Settle
<1>8. ASSUME (\E v \in Values : Return(v)) \/ Throw
      PROVE  UNCHANGED m_promiseState
  BY <1>8 DEF Return, Throw
<1> QED
  BY <1>1, <1>4, <1>5, <1>6, <1>7, <1>8 DEF ScriptStep

(* A frame settles a promise only when it finds it pending.                *)
LEMMA FrameMoves ==
    ASSUME PromiseStep
    PROVE  UNCHANGED m_promiseState \/ OneMoves
<1>1. ASSUME NEW p, ResolveValue(p) PROVE OneMoves
  BY <1>1 DEF ResolveValue, Resolving, isPending, OneMoves, Settled
<1>2. ASSUME NEW p, reject(p) PROVE UNCHANGED m_promiseState \/ OneMoves
  BY <1>2 DEF reject, isPending, OneMoves, Settled
<1>3. ASSUME NEW p, CancelStarts(p) PROVE UNCHANGED m_promiseState \/ OneMoves
  BY <1>3 DEF CancelStarts, isPending, OneMoves, Settled
<1>4. ASSUME NEW p, NEW inner \in Promises,
             ResolveSettled(p, inner) \/ ResolveAdopts(p, inner)
      PROVE  UNCHANGED m_promiseState
  BY <1>4 DEF ResolveSettled, ResolveAdopts
<1>5. ASSUME NEW p, NotifyThen(p) \/ NotifyFinally(p) \/ NotifyEnds(p)
      PROVE  UNCHANGED m_promiseState
  BY <1>5 DEF NotifyThen, NotifyFinally, NotifyEnds
<1>6. ASSUME NEW p,
             HookCalled(p) \/ CancelLinked(p) \/ CancelCallback(p) \/ CancelEnds(p)
      PROVE  UNCHANGED m_promiseState
  BY <1>6 DEF HookCalled, CancelLinked, CancelCallback, CancelEnds
<1>7. ASSUME ResolveIgnored PROVE UNCHANGED m_promiseState
  BY <1>7 DEF ResolveIgnored
<1>8. ASSUME NEW r, AllInput(r) PROVE OneMoves
  <2> DEFINE c == alls[r].chained[Top.i]
  <2>1. m_promiseState[c] = "unused"
    BY <1>8 DEF AllInput
  <2>2. m_promiseState' = [m_promiseState EXCEPT ![c] = "Pending"]
    BY <1>8, Zenon DEF AllInput, promise_wireLinks
  <2> HIDE DEF c
  <2> QED
    BY <2>1, <2>2 DEF OneMoves
<1>9. ASSUME NEW r, AllEnds(r) \/ AllFulfilled(r) \/ AllRelease(r) \/ AllRejected(r) \/ AllCancel(r)
      PROVE  UNCHANGED m_promiseState
  BY <1>9 DEF AllEnds, AllFulfilled, AllRelease, AllRejected, AllCancel
<1> QED
  BY <1>1, <1>2, <1>3, <1>4, <1>5, <1>6, <1>7, <1>8, <1>9 DEF PromiseStep

LEMMA EveryStepMoves ==
    ASSUME [Next]_vars
    PROVE  UNCHANGED m_promiseState \/ OneMoves
BY ScriptMoves, FrameMoves DEF Next, Rest, LoseList, vars

(* The states of promises are states.                                      *)
THEOREM StatesAreTyped == Spec => []StateType
<1>1. Init => StateType
  BY DEF Init, StateType
<1>2. StateType /\ [Next]_vars => StateType'
  BY EveryStepMoves DEF StateType, OneMoves
<1> QED
  BY <1>1, <1>2, PTL DEF Spec

(* No step changes the state of a promise that has settled.                *)
THEOREM SettledForGood == Spec => StatesAreOneWay
<1> DEFINE OneWay == \A p \in Promises :
        m_promiseState[p] \in Settled => m_promiseState'[p] = m_promiseState[p]
<1>1. StateType /\ [Next]_vars => [OneWay]_vars
  <2> SUFFICES ASSUME StateType, [Next]_vars PROVE OneWay
    OBVIOUS
  <2>1. CASE UNCHANGED m_promiseState
    BY <2>1
  <2>2. CASE OneMoves
    BY <2>2 DEF OneMoves, StateType, Settled
  <2> QED
    BY <2>1, <2>2, EveryStepMoves
<1> QED
  BY <1>1, StatesAreTyped, PTL DEF Spec, StatesAreOneWay

-----------------------------------------------------------------------------
(* One call at a time walks the lists of a promise.                        *)

(* The calls that settle a promise or walk its lists.                      *)
Walking == {"notify", "renotify", "cancelled", "down", "drop"}
Cancelling == {"cancelled", "down", "drop"}

IsFrame(f) == \E op, p, v : \E i \in Nat \ {0} : f = Frame(op, p, i, v)
IsStack(s) == \E S : s \in Seq(S) /\ \A f \in S : IsFrame(f)

(* With the states m, a call f walks the lists of a settled promise only,  *)
(* no other call does in the stack s, and none does for p.                 *)
Good(m, f) ==
    f.op \in Walking =>
        /\ f.p \in Promises /\ m[f.p] \in Settled
        /\ f.op \in Cancelling => m[f.p] = "Cancelled"
Alone(s) ==
    \A j, k \in DOMAIN s :
        s[j].op \in Walking /\ s[k].op \in Walking /\ s[j].p = s[k].p => j = k
Free(s, p) == \A k \in DOMAIN s : s[k].op \in Walking => s[k].p # p

(* Only the innermost call may still be about to begin with p's lists.     *)
Begun(f) == f.op \in {"notify", "renotify"} => f.i > 1
AllBegun(s) == \A k \in DOMAIN s : Begun(s[k])

StackOK(m, s) ==
    /\ IsStack(s) /\ Alone(s)
    /\ \A k \in DOMAIN s : Good(m, s[k])
    /\ \A k \in DOMAIN s \ {1} : Begun(s[k])

LEMMA PushOne ==
    ASSUME NEW m, NEW s, NEW f, StackOK(m, s), AllBegun(s), IsFrame(f), Good(m, f),
           f.op \in Walking => Free(s, f.p)
    PROVE  /\ StackOK(m, <<f>> \o s)
           /\ \A p : Free(s, p) /\ (f.op \in Walking => f.p # p) => Free(<<f>> \o s, p)
           /\ Begun(f) => AllBegun(<<f>> \o s)
<1>1. PICK S : s \in Seq(S) /\ \A g \in S : IsFrame(g)
  BY DEF StackOK, IsStack
<1> DEFINE T == S \cup {f}
           t == <<f>> \o s
<1>2. s \in Seq(T) /\ <<f>> \in Seq(T) /\ Len(<<f>>) = 1 /\ <<f>>[1] = f
  BY <1>1, SeqMonotonic
<1>3. t \in Seq(T) /\ Len(t) = 1 + Len(s) /\ Len(s) \in Nat
  BY <1>2, ConcatProperties
<1>4. \A k \in 1..Len(t) : t[k] = IF k = 1 THEN f ELSE s[k - 1]
  BY <1>2, ConcatProperties
<1>5. DOMAIN t = 1..Len(t) /\ DOMAIN s = 1..Len(s)
  BY <1>2, <1>3
<1>6. \A k \in DOMAIN t : \/ k = 1 /\ t[k] = f
                          \/ k - 1 \in DOMAIN s /\ t[k] = s[k - 1]
  BY <1>3, <1>4, <1>5
<1> HIDE DEF t
<1>7. IsStack(t)
  BY <1>1, <1>3 DEF IsStack
<1>8. \A k \in DOMAIN t : Good(m, t[k])
  BY <1>6 DEF StackOK
<1>9. Alone(t)
  BY <1>3, <1>5, <1>6, SMTT(20) DEF StackOK, Alone, Free
<1>10. \A p : Free(s, p) /\ (f.op \in Walking => f.p # p) => Free(t, p)
  BY <1>6 DEF Free
<1>11. /\ \A k \in DOMAIN t \ {1} : Begun(t[k])
       /\ Begun(f) => AllBegun(t)
  BY <1>6 DEF AllBegun
<1> QED
  BY <1>7, <1>8, <1>9, <1>10, <1>11 DEF t, StackOK

LEMMA PopOne ==
    ASSUME NEW m, NEW s, StackOK(m, s), s # <<>>
    PROVE  /\ StackOK(m, Tail(s)) /\ AllBegun(Tail(s))
           /\ IsFrame(Head(s)) /\ Good(m, Head(s))
           /\ Begun(Head(s)) => AllBegun(s)
           /\ Head(s).op \in Walking => Free(Tail(s), Head(s).p)
           /\ \A p : Free(s, p) => Free(Tail(s), p)
<1>1. PICK S : s \in Seq(S) /\ \A g \in S : IsFrame(g)
  BY DEF StackOK, IsStack
<1> DEFINE t == Tail(s)
<1>2. /\ t \in Seq(S) /\ Len(t) = Len(s) - 1 /\ Len(s) \in Nat \ {0} /\ Head(s) = s[1]
      /\ \A k \in 1..Len(t) : t[k] = s[k + 1]
  BY <1>1, HeadTailProperties, EmptySeq
<1>3. DOMAIN t = 1..Len(t) /\ DOMAIN s = 1..Len(s)
  BY <1>1, <1>2
<1>4. 1 \in DOMAIN s /\ \A k \in DOMAIN t : k + 1 \in DOMAIN s /\ k # 0 /\ t[k] = s[k + 1]
  BY <1>2, <1>3
<1>5. Head(s) = s[1] /\ IsFrame(Head(s))
  BY <1>1, <1>2, <1>4
<1> HIDE DEF t
<1>6. IsStack(t)
  BY <1>1, <1>2 DEF IsStack
<1>7. (\A k \in DOMAIN t : Good(m, t[k])) /\ Good(m, Head(s))
  BY <1>4, <1>5 DEF StackOK
<1>8. Alone(t)
  BY <1>2, <1>3, <1>4 DEF StackOK, Alone
<1>9. Head(s).op \in Walking => Free(t, Head(s).p)
  BY <1>2, <1>3, <1>4, <1>5 DEF StackOK, Alone, Free
<1>10. \A p : Free(s, p) => Free(t, p)
  BY <1>4 DEF Free
<1>11. AllBegun(t)
  <2>1. \A k \in DOMAIN t : k + 1 \in DOMAIN s \ {1}
    BY <1>3, <1>4
  <2> QED
    BY <1>4, <2>1 DEF StackOK, AllBegun
<1>12. Begun(Head(s)) => AllBegun(s)
  BY <1>5 DEF StackOK, AllBegun
<1> QED
  BY <1>5, <1>6, <1>7, <1>8, <1>9, <1>10, <1>11, <1>12 DEF t, StackOK, AllBegun

LEMMA TwoOnTop ==
    ASSUME NEW s, IsStack(s), NEW f, NEW g
    PROVE  <<f, g>> \o s = <<f>> \o (<<g>> \o s)
<1>1. PICK S : s \in Seq(S)
  BY DEF IsStack
<1> DEFINE T == S \cup {f, g}
           a == <<f, g>> \o s
           b == <<g>> \o s
           c == <<f>> \o b
<1>2. s \in Seq(T)
  BY <1>1, SeqMonotonic
<1>3. /\ <<f, g>> \in Seq(T) /\ Len(<<f, g>>) = 2 /\ <<f, g>>[1] = f /\ <<f, g>>[2] = g
      /\ <<f>> \in Seq(T) /\ Len(<<f>>) = 1 /\ <<f>>[1] = f
      /\ <<g>> \in Seq(T) /\ Len(<<g>>) = 1 /\ <<g>>[1] = g
  OBVIOUS
<1> HIDE DEF T
<1>4. /\ a \in Seq(T) /\ Len(a) = 2 + Len(s)
      /\ \A i \in 1..2 + Len(s) : a[i] = IF i <= 2 THEN <<f, g>>[i] ELSE s[i - 2]
  BY <1>2, <1>3, ConcatProperties
<1>5. /\ b \in Seq(T) /\ Len(b) = 1 + Len(s)
      /\ \A i \in 1..1 + Len(s) : b[i] = IF i <= 1 THEN <<g>>[i] ELSE s[i - 1]
  BY <1>2, <1>3, ConcatProperties
<1>6. /\ c \in Seq(T) /\ Len(c) = 1 + Len(b)
      /\ \A i \in 1..1 + Len(b) : c[i] = IF i <= 1 THEN <<f>>[i] ELSE b[i - 1]
  BY <1>3, <1>5, ConcatProperties
<1>7. Len(s) \in Nat
  BY <1>2
<1> HIDE DEF a, b, c
<1>8. ASSUME NEW i \in 1..Len(a) PROVE a[i] = c[i]
  <2>1. CASE i = 1
    BY <1>3, <1>4, <1>5, <1>6, <1>7, <2>1
  <2>2. CASE i = 2
    <3>1. a[i] = g
      BY <1>3, <1>4, <1>7, <2>2
    <3>2. c[i] = b[1]
      BY <1>5, <1>6, <1>7, <2>2
    <3>3. b[1] = g
      BY <1>3, <1>5, <1>7
    <3> QED
      BY <3>1, <3>2, <3>3
  <2>3. CASE i > 2
    <3>1. a[i] = s[i - 2]
      BY <1>4, <1>7, <2>3
    <3>2. c[i] = b[i - 1]
      BY <1>4, <1>5, <1>6, <1>7, <2>3
    <3>3. b[i - 1] = s[i - 2]
      BY <1>4, <1>5, <1>7, <2>3
    <3> QED
      BY <3>1, <3>2, <3>3
  <2> QED
    BY <1>4, <1>7, <2>1, <2>2, <2>3
<1>9. a = c
  BY <1>4, <1>5, <1>6, <1>7, <1>8, SeqEqual
<1> QED
  BY <1>9 DEF a, b, c

-----------------------------------------------------------------------------
(* A call that walks nothing may go anywhere.                              *)
Quiet(f) == IsFrame(f) /\ f.op \notin Walking

LEMMA FrameFields ==
    ASSUME NEW op, NEW p, NEW v, NEW i \in Nat \ {0}
    PROVE  LET f == Frame(op, p, i, v) IN IsFrame(f) /\ f.op = op /\ f.p = p /\ f.i = i
<1> DEFINE f == Frame(op, p, i, v)
<1>1. IsFrame(f)
  BY Zenon DEF IsFrame
<1>2. f.op = op /\ f.p = p /\ f.i = i
  BY DEF Frame
<1> HIDE DEF f
<1> QED
  BY <1>1, <1>2 DEF f

LEMMA NextPlace ==
    ASSUME NEW f, IsFrame(f), NEW g, g = [f EXCEPT !.i = @ + 1]
    PROVE  /\ IsFrame(g) /\ g.op = f.op /\ g.p = f.p
           /\ f.i \in Nat \ {0} /\ g.i = f.i + 1 /\ g.v = f.v
<1>1. PICK op, p, v : \E i \in Nat \ {0} : f = Frame(op, p, i, v)
  BY DEF IsFrame
<1>2. PICK i \in Nat \ {0} : f = Frame(op, p, i, v)
  BY <1>1
<1>3. [f EXCEPT !.i = @ + 1] = Frame(op, p, i + 1, v) /\ i + 1 \in Nat \ {0}
  BY <1>2 DEF Frame
<1>4. f.v = v /\ g.v = v
  BY <1>2, <1>3 DEF Frame
<1> QED
  BY <1>2, <1>3, <1>4, FrameFields

LEMMA CallsAreQuiet ==
    /\ \A op, p : op \notin Walking => Quiet(Call(op, p))
    /\ \A op, p, v : op \notin Walking => Quiet(Frame(op, p, 1, v))
    /\ \A p, what : Quiet(Script(p, what))
    /\ \A p, c : Quiet(Propagate(p, c))
BY FrameFields, 1 \in Nat \ {0} DEF Quiet, Call, Script, Propagate, Walking

(* What has settled stays so, and with it the calls that walk.             *)
LEMMA SettledPersists ==
    ASSUME StateType, [Next]_vars, NEW p \in Promises, m_promiseState[p] \in Settled
    PROVE  m_promiseState'[p] = m_promiseState[p]
<1>1. CASE UNCHANGED m_promiseState
  BY <1>1
<1>2. CASE OneMoves
  BY <1>2 DEF OneMoves, StateType, Settled
<1> QED
  BY <1>1, <1>2, EveryStepMoves

LEMMA StackPersists ==
    ASSUME StateType, [Next]_vars
    PROVE  /\ \A f : Good(m_promiseState, f) => Good(m_promiseState', f)
           /\ \A s : StackOK(m_promiseState, s) => StackOK(m_promiseState', s)
<1>1. \A f : Good(m_promiseState, f) => Good(m_promiseState', f)
  BY SettledPersists DEF Good
<1> QED
  BY <1>1 DEF StackOK

LEMMA PushQuiet ==
    ASSUME NEW m, NEW s, StackOK(m, s), AllBegun(s), NEW f, Quiet(f)
    PROVE  /\ StackOK(m, <<f>> \o s) /\ AllBegun(<<f>> \o s)
           /\ \A p : Free(s, p) => Free(<<f>> \o s, p)
BY PushOne DEF Quiet, Good, Begun, Walking

LEMMA PushNone ==
    ASSUME NEW m, NEW s, StackOK(m, s)
    PROVE  <<>> \o s = s
BY ConcatEmptySeq DEF StackOK, IsStack

LEMMA EmptyStack == IsStack(<<>>)
<1> DEFINE S == {f \in {} : IsFrame(f)}
<1>1. <<>> \in Seq(S) /\ \A f \in S : IsFrame(f)
  BY EmptySeq
<1> HIDE DEF S
<1> QED
  BY <1>1, Zenon DEF IsStack

LEMMA OneByOne ==
    ASSUME NEW f, NEW g
    PROVE  <<f>> \o <<g>> = <<f, g>> /\ <<>> \o <<g>> = <<g>>
<1>1. <<>> \in Seq({f, g}) /\ <<g>> \in Seq({f, g}) /\ <<f, g>> \in Seq({f, g})
  BY EmptySeq
<1>2. IsStack(<<>>)
  BY EmptyStack
<1>3. <<f, g>> \o <<>> = <<f>> \o (<<g>> \o <<>>)
  BY <1>2, TwoOnTop
<1> QED
  BY <1>1, <1>3, ConcatEmptySeq

(* The innermost call is replaced by f, and a quiet one may come before.   *)
LEMMA GoOn ==
    ASSUME StateType, [Next]_vars, NEW s, StackOK(m_promiseState, s), s # <<>>,
           NEW f, IsFrame(f), Good(m_promiseState', f), f.op \in Walking => Free(Tail(s), f.p)
    PROVE  /\ StackOK(m_promiseState', <<f>> \o Tail(s))
           /\ \A g : Quiet(g) /\ Begun(f) => StackOK(m_promiseState', <<g, f>> \o Tail(s))
<1>1. StackOK(m_promiseState', Tail(s)) /\ AllBegun(Tail(s))
  BY PopOne, StackPersists
<1>2. StackOK(m_promiseState', <<f>> \o Tail(s)) /\ (Begun(f) => AllBegun(<<f>> \o Tail(s)))
  BY <1>1, PushOne
<1>3. ASSUME NEW g, Quiet(g), Begun(f) PROVE StackOK(m_promiseState', <<g, f>> \o Tail(s))
  <2>1. StackOK(m_promiseState', <<g>> \o (<<f>> \o Tail(s)))
    BY <1>2, <1>3, PushQuiet
  <2>2. IsStack(Tail(s))
    BY <1>1 DEF StackOK
  <2>3. <<g, f>> \o Tail(s) = <<g>> \o (<<f>> \o Tail(s))
    BY <2>2, TwoOnTop
  <2> QED
    BY <2>1, <2>3
<1> QED
  BY <1>1, <1>2, <1>3

(* It goes on where it was, or with another part of the same walk.         *)
LEMMA SameWalk ==
    ASSUME StateType, [Next]_vars, NEW s, StackOK(m_promiseState, s), s # <<>>, Head(s) = Top,
           NEW f, \/ f = [Top EXCEPT !.i = @ + 1]
                  \/ \E op \in {"down", "drop"} : f = Call(op, Top.p) /\ Top.op \in Cancelling
    PROVE  /\ StackOK(m_promiseState', <<f>> \o Tail(s))
           /\ \A g : Quiet(g) => StackOK(m_promiseState', <<g, f>> \o Tail(s))
<1>1. /\ IsFrame(Top) /\ Good(m_promiseState', Top)
      /\ Top.op \in Walking => Free(Tail(s), Top.p)
  BY PopOne, StackPersists
<1>2. /\ IsFrame(f) /\ f.p = Top.p /\ Begun(f)
      /\ \/ f.op = Top.op
         \/ f.op \in {"down", "drop"} /\ Top.op \in Cancelling
  <2>1. CASE f = [Top EXCEPT !.i = @ + 1]
    BY <1>1, <2>1, NextPlace DEF Begun
  <2>2. ASSUME NEW op \in {"down", "drop"}, f = Call(op, Top.p), Top.op \in Cancelling
        PROVE  IsFrame(f) /\ f.p = Top.p /\ f.op = op /\ Begun(f)
    BY <2>2, FrameFields, 1 \in Nat \ {0} DEF Call, Begun
  <2> QED
    BY <2>1, <2>2
<1>3. Good(m_promiseState', f) /\ (f.op \in Walking => Free(Tail(s), f.p))
  BY <1>1, <1>2 DEF Good, Walking, Cancelling
<1> QED
  BY <1>2, <1>3, GoOn

(* A pending promise settles, and its lists are walked from now on.        *)
LEMMA FirstWalk ==
    ASSUME StateType, [Next]_vars, NEW s, StackOK(m_promiseState, s), s # <<>>,
           NEW p \in Promises, isPending(p),
           NEW op, NEW state \in Settled, op \in Cancelling => state = "Cancelled",
           m_promiseState' = [m_promiseState EXCEPT ![p] = state]
    PROVE  /\ StackOK(m_promiseState', <<Call(op, p)>> \o Tail(s))
           /\ \A g : Quiet(g) /\ op \in Cancelling =>
                  StackOK(m_promiseState', <<g, Call(op, p)>> \o Tail(s))
<1>1. IsFrame(Call(op, p)) /\ Call(op, p).op = op /\ Call(op, p).p = p
  BY FrameFields, 1 \in Nat \ {0} DEF Call
<1>2. m_promiseState'[p] = state
  BY DEF StateType
<1>3. Good(m_promiseState', Call(op, p))
  BY <1>1, <1>2 DEF Good
<1>4. Free(s, p)
  BY DEF StackOK, Good, Free, isPending, Settled
<1>5. Free(Tail(s), p)
  BY <1>4, PopOne
<1>6. op \in Cancelling => Begun(Call(op, p))
  BY <1>1 DEF Begun, Cancelling
<1> QED
  BY <1>1, <1>3, <1>5, <1>6, GoOn

(* A promise that has settled answers a new callback at once, within calls *)
(* that do not walk its lists.                                             *)
LEMMA Renotified ==
    ASSUME StateType, [Next]_vars, NEW p \in Promises, NEW c, p \in Made,
           NEW s, StackOK(m_promiseState, s),
           \A k \in DOMAIN s : s[k].p = p => s[k].op \notin {"notify", "renotify"}
    PROVE  \/ NotifyIfSettled(p, c) = <<>>
           \/ \E f : /\ NotifyIfSettled(p, c) = <<f>>
                     /\ IsFrame(f) /\ Good(m_promiseState', f) /\ Free(s, f.p)
<1>1. CASE isPending(p) \/ isCancelled(p)
  BY <1>1 DEF NotifyIfSettled
<1>2. CASE ~isPending(p) /\ ~isCancelled(p)
  <2> DEFINE f == Frame("renotify", p, 1, c)
  <2>1. NotifyIfSettled(p, c) = <<f>>
    BY <1>2 DEF NotifyIfSettled
  <2>2. IsFrame(f) /\ f.op = "renotify" /\ f.p = p
    BY FrameFields, 1 \in Nat \ {0}
  <2>3. m_promiseState[p] \in Settled /\ m_promiseState[p] # "Cancelled"
    BY <1>2 DEF isPending, isCancelled, StateType, Made, Settled
  <2>4. m_promiseState'[p] \in Settled
    BY <2>3, SettledPersists
  <2>5. Free(s, p)
    BY <2>3 DEF StackOK, Good, Free, Walking, Cancelling
  <2> HIDE DEF f
  <2> QED
    BY <2>1, <2>2, <2>4, <2>5 DEF Good, Cancelling
<1> QED
  BY <1>1, <1>2

-----------------------------------------------------------------------------
(* The innermost calls, within those whose list was changed.               *)
Cut(s, n) == SubSeq(s, 1, Len(s) - n)

LEMMA CutIs ==
    ASSUME NEW s, IsStack(s), NEW n \in Nat, n <= Len(s)
    PROVE  /\ Len(s) \in Nat /\ DOMAIN s = 1..Len(s) /\ IsStack(Cut(s, n))
           /\ DOMAIN Cut(s, n) = 1..Len(s) - n /\ Len(Cut(s, n)) = Len(s) - n
           /\ \A k \in 1..Len(s) - n : Cut(s, n)[k] = s[k]
           /\ Cut(s, 0) = s
<1>1. PICK S : s \in Seq(S) /\ \A g \in S : IsFrame(g)
  BY DEF IsStack
<1>2. Len(s) \in Nat /\ DOMAIN s = 1..Len(s)
  BY <1>1
<1>3. \A k \in 1..Len(s) - n : s[k] \in S
  BY <1>1, <1>2
<1>4. /\ Cut(s, n) \in Seq(S) /\ Len(Cut(s, n)) = Len(s) - n
      /\ \A k \in 1..Len(s) - n : Cut(s, n)[k] = s[k]
  <2>1. \A k \in 1..Len(s) - n : k \in 1..Len(s)
    BY <1>2
  <2> QED
    BY <1>1, <1>2, <2>1, SubSeqProperties DEF Cut
<1>5. Cut(s, 0) = s
  BY <1>1, <1>2, SubSeqFull DEF Cut
<1> QED
  BY <1>1, <1>2, <1>4, <1>5 DEF IsStack

LEMMA CutPush ==
    ASSUME NEW s, IsStack(s), NEW n \in Nat, n <= Len(s), NEW f, IsFrame(f)
    PROVE  /\ IsStack(<<f>> \o s) /\ Len(<<f>> \o s) = Len(s) + 1
           /\ Cut(<<f>> \o s, n) = <<f>> \o Cut(s, n)
<1>1. PICK S : s \in Seq(S) /\ \A g \in S : IsFrame(g)
  BY DEF IsStack
<1> DEFINE T == S \cup {f}
           t == <<f>> \o s
           u == Cut(s, n)
           v == <<f>> \o u
<1>2. s \in Seq(T) /\ <<f>> \in Seq(T) /\ Len(<<f>>) = 1 /\ <<f>>[1] = f /\ Len(s) \in Nat
  BY <1>1, SeqMonotonic
<1>3. \A g \in T : IsFrame(g)
  BY <1>1
<1> HIDE DEF T
<1>4. /\ t \in Seq(T) /\ Len(t) = 1 + Len(s)
      /\ \A k \in 1..Len(t) : t[k] = IF k <= 1 THEN f ELSE s[k - 1]
  BY <1>2, ConcatProperties
<1>5. u \in Seq(T) /\ Len(u) = Len(s) - n /\ \A k \in 1..Len(s) - n : u[k] = s[k]
  <2>1. \A k \in 1..Len(s) - n : s[k] \in T
    BY <1>2
  <2> QED
    BY <1>2, <2>1, SubSeqProperties DEF Cut
<1> HIDE DEF t, u
<1>6. /\ v \in Seq(T) /\ Len(v) = 1 + Len(u)
      /\ \A k \in 1..Len(v) : v[k] = IF k <= 1 THEN f ELSE u[k - 1]
  <2>1. u \in Seq(T) /\ Len(u) \in Nat
    BY <1>5
  <2> QED
    BY <1>2, <2>1, ConcatProperties
<1>7. IsStack(t)
  BY <1>3, <1>4 DEF IsStack
<1>8. /\ Cut(t, n) \in Seq(T) /\ Len(Cut(t, n)) = Len(t) - n
      /\ \A k \in 1..Len(t) - n : Cut(t, n)[k] = t[k]
  <2>1. \A k \in 1..Len(t) - n : t[k] \in T
    BY <1>2, <1>4
  <2> QED
    BY <1>2, <1>4, <2>1, SubSeqProperties DEF Cut
<1> HIDE DEF v
<1>9. \A k \in 1..Len(v) : Cut(t, n)[k] = v[k]
  <2> SUFFICES ASSUME NEW k \in 1..Len(v) PROVE Cut(t, n)[k] = v[k]
    OBVIOUS
  <2>1. k \in 1..Len(t) - n /\ k \in 1..Len(t)
    BY <1>2, <1>4, <1>5, <1>6
  <2>2. CASE k = 1
    BY <1>4, <1>6, <1>8, <2>1, <2>2
  <2>3. CASE k # 1
    <3>1. k - 1 \in 1..Len(s) - n /\ ~(k <= 1)
      BY <1>2, <1>5, <1>6, <2>3
    <3> QED
      BY <1>4, <1>5, <1>6, <1>8, <2>1, <3>1
  <2> QED
    BY <2>2, <2>3
<1>10. Len(Cut(t, n)) = Len(v)
  BY <1>2, <1>4, <1>5, <1>6, <1>8
<1>11. Cut(t, n) = v
  BY <1>6, <1>8, <1>9, <1>10, SeqEqual
<1> QED
  BY <1>2, <1>4, <1>7, <1>11 DEF t, u, v

LEMMA CutPop ==
    ASSUME NEW s, IsStack(s), s # <<>>, NEW n \in Nat, n < Len(s)
    PROVE  /\ IsStack(Tail(s)) /\ Len(Tail(s)) = Len(s) - 1 /\ Len(s) \in Nat
           /\ Cut(s, n) # <<>> /\ Head(Cut(s, n)) = Head(s)
           /\ Tail(Cut(s, n)) = Cut(Tail(s), n)
<1>1. PICK S : s \in Seq(S) /\ \A g \in S : IsFrame(g)
  BY DEF IsStack
<1> DEFINE t == Tail(s)
           u == Cut(s, n)
<1>2. /\ t \in Seq(S) /\ Len(t) = Len(s) - 1 /\ Len(s) \in Nat \ {0} /\ Head(s) = s[1]
      /\ \A k \in 1..Len(t) : t[k] = s[k + 1]
  BY <1>1, HeadTailProperties, EmptySeq
<1>3. u \in Seq(S) /\ Len(u) = Len(s) - n /\ \A k \in 1..Len(s) - n : u[k] = s[k]
  <2>1. \A k \in 1..Len(s) - n : s[k] \in S
    BY <1>1, <1>2
  <2>2. Len(s) - n \in Int /\ Len(s) - n + 1 > 1
    BY <1>2
  <2> HIDE DEF t
  <2> QED
    BY <1>1, <1>2, <2>1, <2>2, SubSeqProperties DEF Cut
<1>4. /\ Cut(t, n) \in Seq(S) /\ Len(Cut(t, n)) = Len(t) - n
      /\ \A k \in 1..Len(t) - n : Cut(t, n)[k] = t[k]
  <2> HIDE DEF t
  <2>1. \A k \in 1..Len(t) - n : t[k] \in S
    BY <1>2
  <2> QED
    BY <1>2, <2>1, SubSeqProperties DEF Cut
<1> HIDE DEF t, u
<1>5. u # <<>>
  BY <1>2, <1>3, EmptySeq
<1>6. /\ Tail(u) \in Seq(S) /\ Len(Tail(u)) = Len(u) - 1 /\ Head(u) = u[1]
      /\ \A k \in 1..Len(Tail(u)) : Tail(u)[k] = u[k + 1]
  BY <1>3, <1>5, HeadTailProperties
<1>7. Head(u) = Head(s)
  BY <1>2, <1>3, <1>6
<1>8. Len(Tail(u)) = Len(Cut(t, n))
  <2>1. Len(u) = Len(s) - n /\ Len(t) = Len(s) - 1 /\ Len(s) \in Nat
    BY <1>2, <1>3
  <2>2. Len(Tail(u)) = Len(u) - 1
    BY <1>6
  <2>3. Len(Cut(t, n)) = Len(t) - n
    BY <1>4
  <2> QED
    BY <2>1, <2>2, <2>3
<1>9. \A k \in 1..Len(Tail(u)) : Tail(u)[k] = Cut(t, n)[k]
  <2> SUFFICES ASSUME NEW k \in 1..Len(Tail(u)) PROVE Tail(u)[k] = Cut(t, n)[k]
    OBVIOUS
  <2>1. k + 1 \in 1..Len(s) - n /\ k \in 1..Len(t) - n /\ k \in 1..Len(t)
    BY <1>2, <1>3, <1>6
  <2> QED
    BY <1>2, <1>3, <1>4, <1>6, <2>1
<1>10. Tail(u) = Cut(t, n)
  BY <1>4, <1>6, <1>8, <1>9, SeqEqual
<1>11. IsStack(t)
  BY <1>1, <1>2 DEF IsStack
<1> QED
  BY <1>2, <1>5, <1>7, <1>10, <1>11 DEF t, u

(* What holds of these calls holds of fewer of them.                       *)
LEMMA CutMore ==
    ASSUME NEW m, NEW s, IsStack(s), NEW n \in Nat, NEW d \in Nat, n <= d, d <= Len(s),
           StackOK(m, Cut(s, n))
    PROVE  StackOK(m, Cut(s, d)) /\ (AllBegun(Cut(s, n)) => AllBegun(Cut(s, d)))
<1>1. /\ IsStack(Cut(s, d)) /\ Len(s) \in Nat
      /\ DOMAIN Cut(s, n) = 1..Len(s) - n /\ DOMAIN Cut(s, d) = 1..Len(s) - d
      /\ \A k \in 1..Len(s) - n : Cut(s, n)[k] = s[k]
      /\ \A k \in 1..Len(s) - d : Cut(s, d)[k] = s[k]
  BY CutIs
<1>2. \A k \in DOMAIN Cut(s, d) : k \in DOMAIN Cut(s, n) /\ Cut(s, d)[k] = Cut(s, n)[k]
  BY <1>1
<1> QED
  BY <1>1, <1>2 DEF StackOK, Alone, AllBegun

-----------------------------------------------------------------------------
(* The inputs of a Promise.all are promises that have been made, and there *)
(* is a promise to be chained from each.                                   *)

Table(inputs, bad, chained, wired, remaining, done, freed, hooked) ==
    [inputs |-> inputs, bad |-> bad, chained |-> chained, wired |-> wired,
     remaining |-> remaining, done |-> done, freed |-> freed, hooked |-> hooked]
Inputs == {pair \in Seq(Made) \X Seq(Promises) : Len(pair[1]) = Len(pair[2])}
IsAll(a) ==
    \E pair \in Inputs : \E bad \in BOOLEAN : \E wired, remaining, done, freed, hooked :
        a = Table(pair[1], bad, pair[2], wired, remaining, done, freed, hooked)
AllsInv == DOMAIN alls = Promises /\ \A r \in Promises : IsAll(alls[r])

LEMMA EmptyTable == IsAll(NoAll)
<1>1. <<>> \in Seq(Made) /\ <<>> \in Seq(Promises)
  BY EmptySeq
<1>2. <<<<>>, <<>>>> \in Inputs
  BY <1>1 DEF Inputs
<1>3. NoAll = Table(<<<<>>, <<>>>>[1], FALSE, <<<<>>, <<>>>>[2], 0, 0, FALSE, {}, FALSE)
  BY DEF NoAll, Table
<1> QED
  BY <1>2, <1>3, Zenon DEF IsAll

LEMMA NewTable ==
    ASSUME NEW i, NEW bad, NEW c
    PROVE  NewAll(i, bad, c)
              = Table(i, bad, c, 0, IF bad THEN Len(i) + 1 ELSE Len(i), FALSE, {}, FALSE)
<1> DEFINE e == <<>>
           z == 0
           b == FALSE
           s == {}
           n == IF bad THEN Len(i) + 1 ELSE Len(i)
           w == [NoAll EXCEPT !.inputs = i]
           x == [w EXCEPT !.bad = bad]
           y == [x EXCEPT !.chained = c]
<1>1. NoAll = Table(e, b, e, z, z, b, s, b)
  BY DEF NoAll, Table
<1>2. NewAll(i, bad, c) = [y EXCEPT !.remaining = n]
  BY DEF NewAll
<1> HIDE DEF e, z, b, s, n, NoAll
<1>3. w = Table(i, b, e, z, z, b, s, b)
  BY <1>1 DEF Table
<1> HIDE DEF w
<1>4. x = Table(i, bad, e, z, z, b, s, b)
  BY <1>3 DEF Table
<1> HIDE DEF x
<1>5. y = Table(i, bad, c, z, z, b, s, b)
  BY <1>4 DEF Table
<1> HIDE DEF y
<1>6. [y EXCEPT !.remaining = n] = Table(i, bad, c, z, n, b, s, b)
  BY <1>5 DEF Table
<1> QED
  BY <1>2, <1>6 DEF e, z, b, s, n

LEMMA AllsInit == Init => AllsInv
BY EmptyTable DEF Init, AllsInv

(* Closures and hooks change anything else of a table.                     *)
LEMMA FieldsAreFree ==
    ASSUME NEW a, IsAll(a), NEW x
    PROVE  /\ IsAll([a EXCEPT !.wired = x]) /\ IsAll([a EXCEPT !.remaining = x])
           /\ IsAll([a EXCEPT !.done = x]) /\ IsAll([a EXCEPT !.freed = x])
           /\ IsAll([a EXCEPT !.hooked = x])
<1>1. PICK pair \in Inputs, b \in BOOLEAN : \E w, n, d, f, h :
          a = Table(pair[1], b, pair[2], w, n, d, f, h)
  BY DEF IsAll
<1>2. PICK w, n, d, f, h : a = Table(pair[1], b, pair[2], w, n, d, f, h)
  BY <1>1
<1> DEFINE i == pair[1]
           c == pair[2]
<1> HIDE DEF i, c
<1>3. a = Table(i, b, c, w, n, d, f, h)
  BY <1>2 DEF i, c
<1>4. [a EXCEPT !.wired = x] = Table(i, b, c, x, n, d, f, h)
  BY <1>3 DEF Table
<1>5. [a EXCEPT !.remaining = x] = Table(i, b, c, w, x, d, f, h)
  BY <1>3 DEF Table
<1>6. [a EXCEPT !.done = x] = Table(i, b, c, w, n, x, f, h)
  BY <1>3 DEF Table
<1>7. [a EXCEPT !.freed = x] = Table(i, b, c, w, n, d, x, h)
  BY <1>3 DEF Table
<1>8. [a EXCEPT !.hooked = x] = Table(i, b, c, w, n, d, f, x)
  BY <1>3 DEF Table
<1>9. \A ww, nn, dd, ff, hh : IsAll(Table(i, b, c, ww, nn, dd, ff, hh))
  BY Zenon DEF IsAll, i, c
<1> QED
  BY <1>4, <1>5, <1>6, <1>7, <1>8, <1>9

LEMMA TableFields ==
    ASSUME NEW a, IsAll(a)
    PROVE  /\ a.inputs \in Seq(Made) /\ a.chained \in Seq(Promises)
           /\ Len(a.inputs) = Len(a.chained) /\ a.bad \in BOOLEAN
<1>1. PICK pair \in Inputs, b \in BOOLEAN : \E w, n, d, f, h :
          a = Table(pair[1], b, pair[2], w, n, d, f, h)
  BY DEF IsAll
<1>2. a.inputs = pair[1] /\ a.chained = pair[2] /\ a.bad = b
  BY <1>1 DEF Table
<1> QED
  BY <1>2 DEF Inputs

LEMMA AllsStep ==
    ASSUME StateType, AllsInv, [Next]_vars
    PROVE  AllsInv'
<1>1. Made \subseteq Made'
  <2>1. CASE UNCHANGED m_promiseState
    BY <2>1 DEF Made
  <2>2. CASE OneMoves
    BY <2>2 DEF OneMoves, StateType, Made, Settled
  <2> QED
    BY <2>1, <2>2, EveryStepMoves
<1>2. \A a : IsAll(a) => IsAll(a)'
  <2>1. Seq(Made) \subseteq Seq(Made')
    BY <1>1, SeqMonotonic
  <2> QED
    BY <2>1 DEF IsAll, Inputs
<1>3. ASSUME NEW r \in Promises, NEW a, IsAll(a), alls' = [alls EXCEPT ![r] = a]
      PROVE  AllsInv'
  BY <1>2, <1>3 DEF AllsInv
<1>4. CASE UNCHANGED alls
  BY <1>2, <1>4 DEF AllsInv
<1>5. ASSUME NEW r \in Promises, All(r) PROVE AllsInv'
  <2> DEFINE Unmade(n) == [1..n -> {c \in Promises \ {r} : Fresh(c)}]
  <2>1. PICK n \in 0..MaxInputs, bad \in BOOLEAN :
            \E inputs \in [1..n -> Known], cs \in Unmade(n) :
                alls' = [alls EXCEPT ![r] = NewAll(inputs, bad, cs)]
    BY <1>5 DEF All
  <2>2. PICK inputs \in [1..n -> Known], cs \in Unmade(n) :
            alls' = [alls EXCEPT ![r] = NewAll(inputs, bad, cs)]
    BY <2>1
  <2>3. Known \subseteq Made /\ n \in Nat
    BY BoundAssumption DEF Known
  <2>4. inputs \in Seq(Made)
    BY <2>3, IsASeq
  <2>5. cs \in Seq(Promises) /\ Len(inputs) = n /\ Len(cs) = n
    <3>1. cs \in [1..n -> Promises]
      OBVIOUS
    <3> QED
      BY <2>3, <3>1, IsASeq
  <2> DEFINE pair == <<inputs, cs>>
             number == IF bad THEN Len(inputs) + 1 ELSE Len(inputs)
  <2>6. NewAll(inputs, bad, cs) = Table(pair[1], bad, pair[2], 0, number, FALSE, {}, FALSE)
    <3>1. pair[1] = inputs /\ pair[2] = cs
      OBVIOUS
    <3>2. NewAll(inputs, bad, cs) = Table(inputs, bad, cs, 0, number, FALSE, {}, FALSE)
      BY NewTable
    <3> QED
      BY <3>1, <3>2
  <2>7. pair \in Inputs
    BY <2>4, <2>5 DEF Inputs
  <2> HIDE DEF pair, number
  <2>8. IsAll(NewAll(inputs, bad, cs))
    BY <2>6, <2>7, Zenon DEF IsAll
  <2> QED
    BY <1>3, <2>2, <2>8
<1>6. ASSUME NEW p \in Promises, OnCancel(p) \/ AllEnds(p) PROVE AllsInv'
  <2>1. UNCHANGED alls \/ \E x : alls' = [alls EXCEPT ![p].hooked = x]
    BY <1>6 DEF OnCancel, AllEnds
  <2>2. ASSUME NEW x, alls' = [alls EXCEPT ![p].hooked = x] PROVE AllsInv'
    <3>1. alls' = [alls EXCEPT ![p] = [alls[p] EXCEPT !.hooked = x]]
      BY <2>2
    <3> QED
      BY <1>3, <3>1, FieldsAreFree DEF AllsInv
  <2> QED
    BY <1>4, <2>1, <2>2
<1>7. ASSUME NEW p \in Promises, AllInput(p) PROVE AllsInv'
  <2>1. alls' = [alls EXCEPT ![p] = [alls[p] EXCEPT !.wired = Top.i]]
    BY <1>7 DEF AllInput
  <2> QED
    BY <1>3, <2>1, FieldsAreFree DEF AllsInv
<1>8. ASSUME NEW r \in Promises, AllFulfilled(r) PROVE AllsInv'
  <2>1. CASE ~alls[r].done
    <3> DEFINE b == [alls[r] EXCEPT !.remaining = alls[r].remaining - 1]
               d == alls[r].remaining = 1
    <3>1. alls' = [alls EXCEPT ![r] = [b EXCEPT !.done = d]]
      BY <1>8, <2>1 DEF AllFulfilled, AllsInv
    <3>2. IsAll(b)
      BY FieldsAreFree DEF AllsInv
    <3> HIDE DEF b, d
    <3> QED
      BY <1>3, <3>1, <3>2, FieldsAreFree
  <2> QED
    BY <1>4, <1>8, <2>1 DEF AllFulfilled
<1>9. ASSUME NEW r \in Promises, AllRejected(r) PROVE AllsInv'
  <2>1. UNCHANGED alls \/ alls' = [alls EXCEPT ![r] = [alls[r] EXCEPT !.done = TRUE]]
    BY <1>9 DEF AllRejected
  <2> QED
    BY <1>3, <1>4, <2>1, FieldsAreFree DEF AllsInv
<1>10. ASSUME NEW r \in Promises, AllRelease(r) \/ AllCancel(r) PROVE AllsInv'
  <2>1. PICK x : alls' = [alls EXCEPT ![r] = [alls[r] EXCEPT !.freed = x]]
    BY <1>10 DEF AllRelease, AllCancel
  <2> QED
    BY <1>3, <2>1, FieldsAreFree DEF AllsInv
<1>11. CASE ScriptStep
  <2>1. ASSUME NEW p \in Promises, NEW c \in Promises,
               \/ \E on \in HandlerSets : AndThen(p, c, on)
               \/ \E called \in BOOLEAN : Finally(p, c, called)
        PROVE  UNCHANGED alls
    BY <2>1 DEF AndThen, Finally, results
  <2>2. ASSUME NEW p \in Promises, \/ New(p) \/ Cancel(p) \/ lua_async(p) \/ lua_await(p)
                                   \/ \E v \in Values : Settle(p, v)
        PROVE  UNCHANGED alls
    BY <2>2 DEF New, Cancel, lua_async, lua_await, Settle, results
  <2>3. ASSUME (\E v \in Values : Return(v)) \/ Throw PROVE UNCHANGED alls
    BY <2>3 DEF Return, Throw, results
  <2> QED
    BY <1>4, <1>5, <1>6, <1>11, <2>1, <2>2, <2>3 DEF ScriptStep
<1>12. CASE PromiseStep
  <2>1. ASSUME NEW p, ResolveValue(p) \/ reject(p) \/ CancelStarts(p) PROVE UNCHANGED alls
    BY <2>1 DEF ResolveValue, reject, CancelStarts, results
  <2>2. ASSUME NEW p, NEW inner, ResolveSettled(p, inner) \/ ResolveAdopts(p, inner)
        PROVE  UNCHANGED alls
    BY <2>2 DEF ResolveSettled, ResolveAdopts, results
  <2>3. ASSUME NEW p, NotifyThen(p) \/ NotifyFinally(p) \/ NotifyEnds(p) PROVE UNCHANGED alls
    BY <2>3 DEF NotifyThen, NotifyFinally, NotifyEnds, results
  <2>4. ASSUME NEW p, HookCalled(p) \/ CancelLinked(p) \/ CancelCallback(p) \/ CancelEnds(p)
        PROVE  UNCHANGED alls
    BY <2>4 DEF HookCalled, CancelLinked, CancelCallback, CancelEnds, results
  <2>5. ASSUME ResolveIgnored PROVE UNCHANGED alls
    BY <2>5 DEF ResolveIgnored, results
  <2> QED
    BY <1>4, <1>6, <1>7, <1>8, <1>9, <1>10, <1>12, <2>1, <2>2, <2>3, <2>4, <2>5 DEF PromiseStep
<1> QED
  BY <1>4, <1>11, <1>12 DEF Next, Rest, LoseList, vars, results

(* The calls that have not lost the list they walk.                        *)
Live == Cut(stack, dangling)
LiveOK ==
    /\ dangling \in Nat /\ IsStack(stack) /\ dangling <= Len(stack)
    /\ StackOK(m_promiseState, Live)

WalkInv ==
    /\ dangling \in Nat /\ (~undefined => LiveOK)
    /\ Intact => StackOK(m_promiseState, stack)

LEMMA WalkInit == Init => WalkInv
<1> SUFFICES ASSUME Init PROVE WalkInv
  OBVIOUS
<1>1. stack = <<>> /\ dangling = 0 /\ IsStack(<<>>) /\ Len(<<>>) = 0
  BY EmptyStack DEF Init
<1>2. Cut(<<>>, 0) = <<>>
  BY <1>1, CutIs, 0 \in Nat
<1>3. StackOK(m_promiseState, <<>>)
  BY <1>1 DEF StackOK, Alone
<1> QED
  BY <1>1, <1>2, <1>3 DEF WalkInv, LiveOK, Live

(* Nothing happens any more once something is undefined.                   *)
LEMMA ScriptsRun ==
    ASSUME ScriptStep
    PROVE  ~undefined
BY DEF ScriptStep, Scripting

LEMMA FramesRun ==
    ASSUME PromiseStep
    PROVE  ~undefined /\ stack # <<>> /\ Len(stack) # dangling
<1>1. ASSUME NEW p, ResolveValue(p) \/ reject(p) \/ \E inner : ResolveSettled(p, inner) \/ ResolveAdopts(p, inner)
      PROVE  ~undefined /\ stack # <<>> /\ Len(stack) # dangling
  BY <1>1, Zenon DEF ResolveValue, reject, ResolveSettled, ResolveAdopts, Resolving, Running
<1>2. ASSUME NEW p, NotifyThen(p) \/ NotifyFinally(p) \/ NotifyEnds(p)
      PROVE  ~undefined /\ stack # <<>> /\ Len(stack) # dangling
  BY <1>2 DEF NotifyThen, NotifyFinally, NotifyEnds, Running
<1>3. ASSUME NEW p, \/ CancelStarts(p) \/ HookCalled(p) \/ CancelLinked(p)
                    \/ CancelCallback(p) \/ CancelEnds(p)
      PROVE  ~undefined /\ stack # <<>> /\ Len(stack) # dangling
  BY <1>3 DEF CancelStarts, HookCalled, CancelLinked, CancelCallback, CancelEnds, Running
<1>4. ASSUME NEW r, \/ AllInput(r) \/ AllEnds(r) \/ AllFulfilled(r) \/ AllRejected(r)
                    \/ AllRelease(r) \/ AllCancel(r)
      PROVE  ~undefined /\ stack # <<>> /\ Len(stack) # dangling
  BY <1>4, Zenon DEF AllInput, AllEnds, AllFulfilled, AllRejected, AllRelease, AllCancel, Closure, Running
<1>5. ASSUME ResolveIgnored PROVE ~undefined /\ stack # <<>> /\ Len(stack) # dangling
  BY <1>5 DEF ResolveIgnored, Running
<1> QED
  BY <1>1, <1>2, <1>3, <1>4, <1>5 DEF PromiseStep

(* A list that a call walks is changed, and the call is not live any more. *)
LEMMA WalksLost ==
    ASSUME LiveOK, NEW p, NEW by, Disturb(p, by)
    PROVE  /\ dangling' \in Nat /\ dangling <= dangling' /\ dangling' <= Len(stack)
           /\ \A k \in DOMAIN stack : stack[k].p = p /\ stack[k].op \in by /\ stack[k].i > 1 =>
                  dangling' > 0 /\ ~(k <= Len(stack) - dangling')
<1>1. Len(stack) \in Nat /\ DOMAIN stack = 1..Len(stack) /\ dangling \in Nat /\ dangling <= Len(stack)
  BY CutIs DEF LiveOK
<1> DEFINE lost == {dangling} \cup {Height(k) : k \in Walks(p, by)}
<1>2. dangling' \in lost /\ \A h \in lost : h <= dangling'
  BY DEF Disturb
<1>3. \A k \in DOMAIN stack : Height(k) \in Nat /\ 0 < Height(k) /\ Height(k) <= Len(stack)
  BY <1>1 DEF Height
<1>4. \A h \in lost : h \in Nat /\ h <= Len(stack)
  BY <1>1, <1>3 DEF Walks
<1>5. dangling' \in Nat /\ dangling <= dangling' /\ dangling' <= Len(stack)
  BY <1>2, <1>4
<1> HIDE DEF lost
<1>6. ASSUME NEW k \in DOMAIN stack, stack[k].p = p, stack[k].op \in by, stack[k].i > 1
      PROVE  dangling' > 0 /\ ~(k <= Len(stack) - dangling')
  <2>1. Height(k) \in lost
    BY <1>6 DEF Walks, lost
  <2>2. Height(k) <= dangling' /\ Height(k) > 0 /\ Height(k) \in Nat
    BY <1>2, <1>3, <2>1
  <2> QED
    BY <1>1, <1>5, <2>2 DEF Height
<1> QED
  BY <1>5, <1>6

(* The live part of the stack when a call goes on, or a script calls.      *)
LEMMA LiveTop ==
    ASSUME LiveOK, stack # <<>>, Len(stack) # dangling
    PROVE  /\ Live # <<>> /\ Head(Live) = Top /\ Tail(Live) = Cut(Tail(stack), dangling)
           /\ IsStack(Tail(stack)) /\ dangling <= Len(Tail(stack)) /\ dangling \in Nat
<1>1. dangling \in Nat /\ dangling < Len(stack) /\ IsStack(stack) /\ Len(stack) \in Nat
  BY CutIs DEF LiveOK
<1> QED
  BY <1>1, CutPop DEF Live, Top

LEMMA LiveNext ==
    ASSUME dangling' \in Nat, NEW s, stack' = s, IsStack(s), dangling' <= Len(s),
           NEW l, Cut(s, dangling') = l, StackOK(m_promiseState', l)
    PROVE  LiveOK'
BY DEF LiveOK, Live

LEMMA LiveGoesOn ==
    ASSUME StateType, [Next]_vars, LiveOK, stack # <<>>, Len(stack) # dangling, UNCHANGED dangling
    PROVE  /\ Leave \/ Continue(<<>>) => LiveOK'
           /\ \A f : IsFrame(f) /\ Continue(<<f>>) /\ StackOK(m_promiseState', <<f>> \o Tail(Live))
                     => LiveOK'
           /\ \A f, g : /\ IsFrame(f) /\ IsFrame(g) /\ Continue(<<f, g>>)
                        /\ StackOK(m_promiseState', <<f, g>> \o Tail(Live))
                        => LiveOK'
<1> DEFINE t == Tail(stack)
           u == Tail(Live)
<1>1. /\ Live # <<>> /\ u = Cut(t, dangling) /\ IsStack(t) /\ dangling <= Len(t)
      /\ dangling \in Nat /\ Len(t) \in Nat
  BY LiveTop, CutIs
<1>2. StackOK(m_promiseState', u) /\ IsStack(u)
  BY <1>1, PopOne, StackPersists DEF LiveOK, StackOK
<1> HIDE DEF u
<1>3. ASSUME Leave \/ Continue(<<>>) PROVE LiveOK'
  <2>1. <<>> \o t = t
    BY <1>1, ConcatEmptySeq DEF IsStack
  <2>2. stack' = t
    BY <1>3, <2>1 DEF Leave, Continue
  <2> HIDE DEF t
  <2> QED
    BY <1>1, <1>2, <2>2 DEF LiveOK, Live
<1>4. ASSUME NEW f, IsFrame(f), Continue(<<f>>), StackOK(m_promiseState', <<f>> \o u) PROVE LiveOK'
  <2>1. stack' = <<f>> \o t
    BY <1>4 DEF Continue
  <2> HIDE DEF t
  <2>2. /\ IsStack(<<f>> \o t) /\ Len(<<f>> \o t) = Len(t) + 1
        /\ Cut(<<f>> \o t, dangling) = <<f>> \o u
    BY <1>1, <1>4, CutPush
  <2> DEFINE x == <<f>> \o t
  <2>3. dangling' <= Len(x) /\ dangling' \in Nat
    BY <1>1, <2>2
  <2> HIDE DEF x
  <2> QED
    BY <1>4, <2>1, <2>2, <2>3, LiveNext DEF x
<1>5. ASSUME NEW f, NEW g, IsFrame(f), IsFrame(g), Continue(<<f, g>>),
             StackOK(m_promiseState', <<f, g>> \o u)
      PROVE  LiveOK'
  <2>1. stack' = <<f, g>> \o t
    BY <1>5 DEF Continue
  <2> HIDE DEF t
  <2> DEFINE x == <<g>> \o t
             y == <<g>> \o u
  <2>2. stack' = <<f>> \o x /\ <<f, g>> \o u = <<f>> \o y
    BY <1>1, <1>2, <2>1, TwoOnTop
  <2>3. IsStack(x) /\ Len(x) = Len(t) + 1 /\ Cut(x, dangling) = y
    BY <1>1, <1>5, CutPush
  <2> HIDE DEF x, y
  <2>4. dangling <= Len(x) /\ Len(x) \in Nat
    BY <1>1, <2>3
  <2>5. /\ IsStack(<<f>> \o x) /\ Len(<<f>> \o x) = Len(x) + 1
        /\ Cut(<<f>> \o x, dangling) = <<f>> \o y
    BY <1>1, <1>5, <2>3, <2>4, CutPush
  <2>6. StackOK(m_promiseState', <<f>> \o y)
    BY <1>5, <2>2
  <2> DEFINE z == <<f>> \o x
  <2>7. dangling' <= Len(z) /\ dangling' \in Nat
    BY <1>1, <2>4, <2>5
  <2> HIDE DEF z
  <2> QED
    BY <2>2, <2>5, <2>6, <2>7, LiveNext DEF z
<1> QED
  BY <1>3, <1>4, <1>5 DEF u

(* No call that is live walks the lists of p but for one that has yet to   *)
(* begin, and that is the innermost one.                                   *)
LEMMA LiveWalks ==
    ASSUME LiveOK, NEW p, NEW by, {"notify", "renotify"} \subseteq by, Disturb(p, by),
           stack = <<>> \/ Begun(Top)
    PROVE  LET s == Cut(stack, dangling') IN
           /\ StackOK(m_promiseState, s) /\ AllBegun(s)
           /\ dangling' \in Nat /\ dangling' <= Len(stack)
           /\ \A k \in DOMAIN s : s[k].p = p => s[k].op \notin {"notify", "renotify"}
<1> DEFINE s == Cut(stack, dangling')
<1>1. /\ dangling' \in Nat /\ dangling <= dangling' /\ dangling' <= Len(stack)
      /\ \A k \in DOMAIN stack : stack[k].p = p /\ stack[k].op \in by /\ stack[k].i > 1 =>
             ~(k <= Len(stack) - dangling')
  BY WalksLost
<1>2. /\ Len(stack) \in Nat /\ DOMAIN stack = 1..Len(stack) /\ DOMAIN s = 1..Len(stack) - dangling'
      /\ \A k \in 1..Len(stack) - dangling' : s[k] = stack[k]
      /\ Len(Live) = Len(stack) - dangling /\ dangling \in Nat
  BY <1>1, CutIs DEF LiveOK, Live
<1>3. AllBegun(Live)
  <2>1. CASE Len(stack) = dangling
    <3>1. DOMAIN Live = {}
      BY <1>2, <2>1, CutIs DEF LiveOK, Live
    <3> QED
      BY <3>1 DEF AllBegun
  <2>2. CASE Len(stack) # dangling
    <3>1. stack # <<>>
      <4>1. CASE stack = <<>>
        BY <1>1, <1>2, <2>2, <4>1, EmptySeq
      <4> QED
        BY <4>1
    <3>2. Live # <<>> /\ Head(Live) = Top
      BY <2>2, <3>1, LiveTop
    <3> QED
      BY <3>1, <3>2, PopOne DEF LiveOK
  <2> QED
    BY <2>1, <2>2
<1>4. StackOK(m_promiseState, s) /\ AllBegun(s)
  BY <1>1, <1>2, <1>3, CutMore DEF LiveOK, Live
<1>5. ASSUME NEW k \in DOMAIN s, s[k].p = p, s[k].op \in {"notify", "renotify"} PROVE FALSE
  <2>1. k \in DOMAIN stack /\ k <= Len(stack) - dangling' /\ s[k] = stack[k]
    BY <1>1, <1>2, <1>5
  <2>2. s[k].i > 1
    BY <1>4, <1>5 DEF AllBegun, Begun
  <2> QED
    BY <1>1, <1>5, <2>1, <2>2
<1> QED
  BY <1>1, <1>4, <1>5

LEMMA WalkStep ==
    ASSUME StateType, AllsInv, WalkInv, [Next]_vars
    PROVE  WalkInv'
<1>1. CASE UNCHANGED vars
  BY <1>1, StackPersists DEF vars, ghosts, WalkInv, LiveOK, Live, Intact
<1>2. CASE LoseList
  BY <1>2 DEF LoseList, WalkInv, Intact
<1>3. ASSUME ScriptStep \/ PromiseStep PROVE LiveOK
  BY <1>3, ScriptsRun, FramesRun DEF WalkInv
<1>4. ASSUME LiveOK' PROVE WalkInv'
  <2>1. Intact' => StackOK(m_promiseState', stack')
    BY <1>4, CutIs DEF LiveOK, Live, Intact
  <2> QED
    BY <1>4, <2>1 DEF WalkInv, LiveOK
<1>7. ASSUME NEW p, NEW op, op \notin Walking, NEW what
      PROVE  Quiet(Call(op, p)) /\ Quiet(Script(p, what)) /\ Quiet(Frame(op, p, 1, what))
  BY <1>7, CallsAreQuiet
<1> DEFINE Goes == stack # <<>> /\ Len(stack) # dangling /\ UNCHANGED dangling
<1>8. ASSUME LiveOK, Goes, Leave \/ Continue(<<>>) PROVE LiveOK'
  BY <1>8, LiveGoesOn
<1>9. ASSUME LiveOK, Goes PROVE StackOK(m_promiseState', Tail(Live)) /\ AllBegun(Tail(Live))
  <2>1. Live # <<>>
    BY <1>9, LiveTop
  <2> QED
    BY <1>9, <2>1, PopOne, StackPersists DEF LiveOK
<1>10. ASSUME LiveOK, Goes, NEW f, Quiet(f), Continue(<<f>>) PROVE LiveOK'
  <2>1. StackOK(m_promiseState', <<f>> \o Tail(Live)) /\ IsFrame(f)
    BY <1>9, <1>10, PushQuiet DEF Quiet
  <2> QED
    BY <1>10, <2>1, LiveGoesOn
<1>11. CASE ScriptStep
  <2>1. LiveOK /\ (stack = <<>> \/ Begun(Top))
    BY <1>3, <1>11 DEF ScriptStep, Scripting, Begun
  <2>2. ASSUME UNCHANGED <<stack, dangling>> PROVE LiveOK'
    BY <2>1, <2>2, StackPersists DEF LiveOK, Live
  <2>3. AllBegun(Live) /\ StackOK(m_promiseState', Live)
    <3>1. CASE Len(stack) = dangling
      <4>1. DOMAIN Live = {}
        BY <2>1, <3>1, CutIs DEF LiveOK, Live
      <4> QED
        BY <2>1, <4>1, StackPersists DEF LiveOK, AllBegun
    <3>2. CASE Len(stack) # dangling /\ stack # <<>>
      <4>1. Live # <<>> /\ Head(Live) = Top
        BY <2>1, <3>2, LiveTop
      <4> QED
        BY <2>1, <3>2, <4>1, PopOne, StackPersists DEF LiveOK
    <3>3. stack = <<>> => Len(stack) = dangling
      <4>1. Len(<<>>) = 0
        OBVIOUS
      <4> QED
        BY <2>1, <4>1 DEF LiveOK
    <3> QED
      BY <3>1, <3>2, <3>3
  <2>4. ASSUME NEW f, Quiet(f), stack' = <<f>> \o stack, UNCHANGED dangling PROVE LiveOK'
    <3>1. StackOK(m_promiseState', <<f>> \o Live) /\ IsFrame(f)
      BY <2>3, <2>4, PushQuiet DEF Quiet
    <3>2. /\ IsStack(<<f>> \o stack) /\ Len(<<f>> \o stack) = Len(stack) + 1
          /\ Cut(<<f>> \o stack, dangling) = <<f>> \o Live /\ Len(stack) \in Nat
      BY <2>1, <3>1, CutPush, CutIs DEF LiveOK, Live
    <3> DEFINE x == <<f>> \o stack
    <3>3. dangling' <= Len(x) /\ dangling' \in Nat
      BY <2>1, <2>4, <3>2 DEF LiveOK
    <3> HIDE DEF x
    <3> QED
      BY <2>4, <3>1, <3>2, <3>3, LiveNext DEF x
  <2>5. ASSUME NEW p \in Promises, NEW c, p \in Known, NEW by, {"notify", "renotify"} \subseteq by,
               Disturb(p, by), stack' = NotifyIfSettled(p, c) \o stack
        PROVE  LiveOK'
    <3> DEFINE s == Cut(stack, dangling')
    <3>1. /\ StackOK(m_promiseState, s) /\ AllBegun(s)
          /\ dangling' \in Nat /\ dangling' <= Len(stack) /\ IsStack(stack) /\ Len(stack) \in Nat
          /\ \A k \in DOMAIN s : s[k].p = p => s[k].op \notin {"notify", "renotify"}
      BY <2>1, <2>5, LiveWalks, CutIs DEF LiveOK
    <3>2. StackOK(m_promiseState', s)
      BY <3>1, StackPersists
    <3> HIDE DEF s
    <3>3. p \in Made
      BY <2>5 DEF Known
    <3>4. CASE NotifyIfSettled(p, c) = <<>>
      <4>1. stack' = stack
        BY <2>5, <3>1, <3>4, ConcatEmptySeq DEF IsStack
      <4> QED
        BY <3>1, <3>2, <4>1 DEF LiveOK, Live, s
    <3>5. ASSUME NEW f, NotifyIfSettled(p, c) = <<f>>, IsFrame(f), Good(m_promiseState', f),
                 Free(s, f.p)
          PROVE  LiveOK'
      <4>1. StackOK(m_promiseState', <<f>> \o s)
        BY <3>1, <3>2, <3>5, PushOne
      <4>2. /\ IsStack(<<f>> \o stack) /\ Len(<<f>> \o stack) = Len(stack) + 1
            /\ Cut(<<f>> \o stack, dangling') = <<f>> \o s
        BY <3>1, <3>5, CutPush DEF s
      <4>3. stack' = <<f>> \o stack
        BY <2>5, <3>5
      <4> DEFINE x == <<f>> \o stack
      <4>4. dangling' <= Len(x)
        BY <3>1, <4>2
      <4> HIDE DEF x
      <4> QED
        BY <3>1, <4>1, <4>2, <4>3, <4>4, LiveNext DEF x
    <3> QED
      BY <3>1, <3>3, <3>4, <3>5, Renotified
  <2>6. ASSUME NEW p, New(p) \/ OnCancel(p) PROVE LiveOK'
    BY <2>2, <2>6 DEF New, OnCancel, ghosts
  <2>7. ASSUME NEW p, NEW v, Settle(p, v) PROVE LiveOK'
    <3>1. PICK f : /\ f = Frame("resolve", p, 1, v) \/ f = Call("reject", p)
                   /\ stack' = <<f>> \o stack /\ UNCHANGED dangling
      BY <2>7 DEF Settle, ghosts
    <3> QED
      BY <1>7, <2>4, <3>1 DEF Walking
  <2>8. ASSUME NEW p, Cancel(p) PROVE LiveOK'
    BY <1>7, <2>4, <2>8 DEF Cancel, Walking, ghosts
  <2>9. ASSUME NEW r, All(r) PROVE LiveOK'
    <3>1. PICK n : /\ stack' = <<IF n = 0 THEN Frame("resolve", r, 1, Plain)
                                        ELSE Call("all", r)>> \o stack
                   /\ UNCHANGED dangling
      BY <2>9 DEF All, ghosts
    <3> DEFINE f == IF n = 0 THEN Frame("resolve", r, 1, Plain) ELSE Call("all", r)
    <3>2. Quiet(f)
      BY <1>7 DEF Walking
    <3> QED
      BY <2>4, <3>1, <3>2
  <2>10. ASSUME NEW p, lua_async(p) PROVE LiveOK'
    BY <2>4, <2>10, CallsAreQuiet DEF lua_async, ghosts
  <2>11. ASSUME NEW p, lua_await(p) PROVE LiveOK'
    BY <1>8, <2>1, <2>11 DEF lua_await, Awaitable, Running, ghosts
  <2>12. ASSUME NEW p \in Promises, NEW c, NEW on, AndThen(p, c, on) PROVE LiveOK'
    BY <2>5, <2>12 DEF AndThen
  <2>13. ASSUME NEW p \in Promises, NEW c, NEW called, Finally(p, c, called) PROVE LiveOK'
    BY <2>5, <2>13 DEF Finally
  <2>14. ASSUME NEW v, Return(v) PROVE LiveOK'
    <3>1. Goes
      BY <2>14 DEF Return, Running
    <3>2. CASE Top.v = "hook"
      BY <1>8, <2>1, <2>14, <3>1, <3>2 DEF Return
    <3>3. CASE Top.v = "finally"
      <4>1. Continue(<<Propagate(stack[2].p, Top.p)>>)
        BY <2>14, <3>3 DEF Return
      <4> QED
        BY <1>10, <2>1, <3>1, <4>1, CallsAreQuiet
    <3>4. CASE Top.v \notin {"hook", "finally"}
      <4>1. Continue(<<Frame("resolve", Top.p, 1, v)>>)
        BY <2>14, <3>4 DEF Return
      <4> QED
        BY <1>7, <1>10, <2>1, <3>1, <4>1 DEF Walking
    <3> QED
      BY <3>2, <3>3, <3>4
  <2>15. ASSUME Throw PROVE LiveOK'
    BY <1>7, <1>10, <2>1, <2>15 DEF Throw, Running, Walking, ghosts
  <2> QED
    BY <1>4, <1>11, <2>6, <2>7, <2>8, <2>9, <2>10, <2>11, <2>12, <2>13, <2>14, <2>15 DEF ScriptStep
<1>12. CASE PromiseStep
  <2> DEFINE Done == LiveOK'
             next == [Top EXCEPT !.i = @ + 1]
             t == Tail(Live)
  <2>1. /\ LiveOK /\ stack # <<>> /\ Len(stack) # dangling
        /\ Live # <<>> /\ Head(Live) = Top /\ StackOK(m_promiseState, Live)
    BY <1>3, <1>12, FramesRun, LiveTop DEF LiveOK
  <2>2. ASSUME UNCHANGED dangling, NEW f, \/ f = next
                                          \/ \E op \in {"down", "drop"} :
                                                f = Call(op, Top.p) /\ Top.op \in Cancelling
        PROVE  /\ stack' = <<f>> \o Tail(stack) => Done
               /\ \A g : Quiet(g) /\ stack' = <<g, f>> \o Tail(stack) => Done
    <3>1. /\ StackOK(m_promiseState', <<f>> \o t)
          /\ \A g : Quiet(g) => StackOK(m_promiseState', <<g, f>> \o t)
      BY <2>1, <2>2, SameWalk
    <3>2. IsFrame(f)
      <4>1. IsFrame(Top)
        BY <2>1, PopOne
      <4>2. CASE f = next
        BY <4>1, <4>2, NextPlace
      <4>3. CASE f # next
        BY <2>2, <4>3, FrameFields, 1 \in Nat \ {0} DEF Call
      <4> QED
        BY <4>2, <4>3
    <3> QED
      BY <2>1, <2>2, <3>1, <3>2, LiveGoesOn DEF Continue, Quiet
  <2>3. ASSUME UNCHANGED dangling, NEW p \in Promises, isPending(p), NEW op, NEW state \in Settled,
               op \in Cancelling => state = "Cancelled",
               m_promiseState' = [m_promiseState EXCEPT ![p] = state]
        PROVE  /\ stack' = <<Call(op, p)>> \o Tail(stack) => Done
               /\ \A g : Quiet(g) /\ op \in Cancelling /\ stack' = <<g, Call(op, p)>> \o Tail(stack)
                         => Done
    <3>1. /\ StackOK(m_promiseState', <<Call(op, p)>> \o t)
          /\ \A g : Quiet(g) /\ op \in Cancelling =>
                 StackOK(m_promiseState', <<g, Call(op, p)>> \o t)
      BY <2>1, <2>3, FirstWalk
    <3>2. IsFrame(Call(op, p))
      BY FrameFields, 1 \in Nat \ {0} DEF Call
    <3>3. ASSUME stack' = <<Call(op, p)>> \o Tail(stack) PROVE Done
      <4>1. Continue(<<Call(op, p)>>)
        BY <3>3 DEF Continue
      <4> QED
        BY <2>1, <2>3, <3>1, <3>2, <4>1, LiveGoesOn
    <3>4. ASSUME NEW g, Quiet(g), op \in Cancelling, stack' = <<g, Call(op, p)>> \o Tail(stack)
          PROVE  Done
      <4>1. Continue(<<g, Call(op, p)>>)
        BY <3>4 DEF Continue
      <4> QED
        BY <2>1, <2>3, <3>1, <3>2, <3>4, <4>1, LiveGoesOn DEF Quiet
    <3> HIDE DEF Done
    <3> QED
      BY <3>3, <3>4, Zenon
  <2>4. ASSUME ResolveIgnored PROVE Done
    BY <1>8, <2>1, <2>4 DEF ResolveIgnored, ghosts
  <2>5. ASSUME NEW p \in Promises, ResolveValue(p) PROVE Done
    BY <2>3, <2>5 DEF ResolveValue, Resolving, Continue, Settled, Cancelling, ghosts
  <2>6. ASSUME NEW p \in Promises, reject(p) PROVE Done
    <3>1. CASE isPending(p)
      BY <2>3, <2>6, <3>1 DEF reject, Continue, Settled, Cancelling, ghosts
    <3>2. CASE ~isPending(p)
      BY <1>8, <2>1, <2>6, <3>2 DEF reject, ghosts
    <3> QED
      BY <3>1, <3>2
  <2>7. ASSUME NEW p, NEW inner, ResolveSettled(p, inner) PROVE Done
    <3>1. PICK f : /\ f = Frame("resolve", p, 1, Plain) \/ f = Call("reject", p)
                                                        \/ f = Call("cancel", p)
                   /\ Continue(<<f>>) /\ UNCHANGED dangling
      BY <2>7 DEF ResolveSettled, Settled, isCancelled
    <3> QED
      BY <1>7, <1>10, <2>1, <3>1 DEF Walking
  <2>8. ASSUME NEW p, NEW inner, ResolveAdopts(p, inner) PROVE Done
    BY <1>8, <2>1, <2>8 DEF ResolveAdopts
  <2>9. ASSUME NEW p, NotifyThen(p) PROVE Done
    <3>1. PICK g : Quiet(g) /\ Continue(<<g, next>>)
      <4> DEFINE cb == m_thenCallbacks[p][Top.i]
                 resumed == cb.kind = "await" /\ Top.i = 1 /\ Resumed(p)
                 g == CASE resumed -> Call("reject", cb.chained)
                        [] cb.kind = "await" /\ ~resumed -> Script(cb.chained, "coroutine")
                        [] cb.kind = "all" -> Call(IF m_promiseState[p] = "Fulfilled"
                                                   THEN "allFulfilled" ELSE "allRejected",
                                                   cb.chained)
                        [] cb.kind = "then" /\ m_promiseState[p] \in cb.on ->
                                Script(cb.chained, "handler")
                        [] OTHER -> Propagate(p, cb.chained)
      <4>1. Continue(<<g, next>>)
        BY <2>9 DEF NotifyThen
      <4>2. Quiet(g)
        <5>1. CASE resumed
          BY <5>1, <1>7 DEF Walking
        <5>2. CASE cb.kind = "await" /\ ~resumed
          BY <5>2, CallsAreQuiet
        <5>3. CASE cb.kind = "all"
          BY <5>3, <1>7 DEF Walking
        <5>4. CASE cb.kind = "then" /\ m_promiseState[p] \in cb.on
          BY <5>4, CallsAreQuiet
        <5>5. CASE /\ cb.kind \notin {"await", "all"}
                   /\ ~(cb.kind = "then" /\ m_promiseState[p] \in cb.on)
          BY <5>5, CallsAreQuiet
        <5> QED
          BY <5>1, <5>2, <5>3, <5>4, <5>5
      <4> QED
        BY <4>1, <4>2
    <3>2. UNCHANGED dangling
      BY <2>9 DEF NotifyThen
    <3> QED
      BY <2>2, <3>1, <3>2 DEF Continue
  <2>10. ASSUME NEW p, NotifyFinally(p) PROVE Done
    <3>1. PICK g : Quiet(g) /\ Continue(<<g, next>>)
      BY <2>10, CallsAreQuiet DEF NotifyFinally
    <3>2. UNCHANGED dangling
      BY <2>10 DEF NotifyFinally
    <3> QED
      BY <2>2, <3>1, <3>2 DEF Continue
  <2>11. ASSUME NEW p, NotifyEnds(p) \/ CancelEnds(p) \/ AllEnds(p) PROVE Done
    BY <1>8, <2>1, <2>11 DEF NotifyEnds, CancelEnds, AllEnds, ghosts
  <2>12. ASSUME NEW p \in Promises, CancelStarts(p) PROVE Done
    <3>1. UNCHANGED dangling
      BY <2>12 DEF CancelStarts, ghosts
    <3>2. CASE isPending(p) /\ p \in m_onCancelRef
      <4>1. PICK g : /\ Quiet(g)
                     /\ Continue(<<g, Call("cancelled", p)>>)
        <5> DEFINE g == IF alls[p].hooked THEN Frame("allCancel", p, 1, p) ELSE Script(p, "hook")
        <5>1. Continue(<<g, Call("cancelled", p)>>)
          BY <2>12, <3>2 DEF CancelStarts
        <5>2. Quiet(g)
          BY <1>7, CallsAreQuiet DEF Walking
        <5> QED
          BY <5>1, <5>2
      <4> QED
        BY <2>3, <2>12, <3>1, <3>2, <4>1 DEF CancelStarts, Continue, Settled, Cancelling
    <3>3. CASE isPending(p) /\ p \notin m_onCancelRef
      BY <2>3, <2>12, <3>1, <3>3 DEF CancelStarts, Continue, Settled
    <3>4. CASE ~isPending(p)
      BY <1>8, <2>1, <2>12, <3>1, <3>4 DEF CancelStarts
    <3> QED
      BY <3>2, <3>3, <3>4
  <2>13. ASSUME NEW p, HookCalled(p) PROVE Done
    BY <2>2, <2>13 DEF HookCalled, Running, Continue, Cancelling, ghosts
  <2>14. ASSUME NEW p, CancelLinked(p) PROVE Done
    <3>1. /\ UNCHANGED dangling /\ Top.p = p /\ Top.op \in Cancelling
          /\ \/ \E c : Continue(<<Call("cancel", c), next>>)
             \/ \E c : Continue(<<Call("cancel", c), Call("drop", p)>>)
             \/ Continue(<<Call("drop", p)>>)
      BY <2>14 DEF CancelLinked, Running, Cancelling, ghosts
    <3>2. \A c : Quiet(Call("cancel", c))
      BY <1>7 DEF Walking
    <3> QED
      BY <2>2, <3>1, <3>2 DEF Continue
  <2>15. ASSUME NEW p, CancelCallback(p) PROVE Done
    <3>1. /\ UNCHANGED dangling
          /\ \/ \E c : stack' = (<<Call("reject", c)>> \o <<next>>) \o Tail(stack)
             \/ stack' = (<<>> \o <<next>>) \o Tail(stack)
      BY <2>15, Zenon DEF CancelCallback, Continue, ghosts
    <3>2. \A c : Quiet(Call("reject", c))
      BY <1>7 DEF Walking
    <3> HIDE DEF next
    <3>3. \/ \E c : stack' = <<Call("reject", c), next>> \o Tail(stack)
          \/ stack' = <<next>> \o Tail(stack)
      BY <3>1, OneByOne, Zenon
    <3> QED
      BY <2>2, <3>1, <3>2, <3>3, Zenon
  <2>16. ASSUME NEW f, NEW g, Quiet(f), Quiet(g), Continue(<<f, g>>), UNCHANGED dangling PROVE Done
    <3>1. StackOK(m_promiseState', <<g>> \o t) /\ AllBegun(<<g>> \o t) /\ IsStack(t)
      BY <1>9, <2>1, <2>16, PushQuiet DEF StackOK
    <3>2. StackOK(m_promiseState', <<f>> \o (<<g>> \o t))
      BY <2>16, <3>1, PushQuiet
    <3>3. <<f, g>> \o t = <<f>> \o (<<g>> \o t)
      BY <3>1, TwoOnTop
    <3>4. StackOK(m_promiseState', <<f, g>> \o t)
      BY <3>2, <3>3
    <3> QED
      BY <2>1, <2>16, <3>4, LiveGoesOn DEF Quiet
  <2>17. ASSUME NEW r \in Promises, AllInput(r) PROVE Done
    <3> DEFINE p == alls[r].inputs[Top.i]
               c == alls[r].chained[Top.i]
               by == {"notify", "renotify", "down", "drop"}
               s == Cut(stack, dangling')
    <3>1. /\ Top.op = "all" /\ Top.i <= Len(alls[r].inputs) /\ Disturb(p, by)
          /\ stack' = (NotifyIfSettled(p, c) \o <<next>>) \o Tail(stack)
      BY <2>17, Zenon DEF AllInput, Running, Continue
    <3>2. IsFrame(Top) /\ Begun(Top)
      BY <2>1, <3>1, PopOne, Zenon DEF Begun
    <3>3. p \in Made
      <4>1. PICK i \in Seq(Made) : alls[r].inputs = i
        BY TableFields DEF AllsInv
      <4>2. Top.i \in Nat \ {0}
        BY <3>2, NextPlace
      <4> QED
        BY <3>1, <4>1, <4>2
    <3>4. Quiet(next)
      BY <3>1, <3>2, NextPlace, Zenon DEF Quiet, Walking
    <3>5. p \in Promises
      BY <3>3 DEF Made
    <3> HIDE DEF p, c, next
    <3>6. /\ StackOK(m_promiseState, s) /\ AllBegun(s)
          /\ dangling' \in Nat /\ dangling' <= Len(stack)
          /\ \A k \in DOMAIN s : s[k].p = p => s[k].op \notin {"notify", "renotify"}
      BY <2>1, <3>1, <3>2, LiveWalks
    <3>7. IsStack(stack) /\ Len(stack) \in Nat \ {0} /\ DOMAIN stack = 1..Len(stack)
      BY <2>1, CutIs DEF LiveOK
    (* The loop of Promise.all is not one of the calls that walk a list.     *)
    <3>8. dangling' < Len(stack)
      <4>1. Len(stack) # dangling /\ dangling \in Nat /\ dangling <= Len(stack)
        BY <2>1 DEF LiveOK
      <4>2. dangling' = dangling \/ \E k \in Walks(p, by) : dangling' = Height(k)
        BY <3>1, Zenon DEF Disturb
      <4>3. ASSUME NEW k \in Walks(p, by), dangling' = Height(k) PROVE dangling' < Len(stack)
        <5>1. k \in 1..Len(stack) /\ stack[k].op \in by
          BY <3>7, <4>3 DEF Walks
        <5>2. Top = stack[1]
          BY <3>7 DEF Top, IsStack
        <5>3. k # 1
          BY <3>1, <5>1, <5>2
        <5> QED
          BY <3>7, <4>3, <5>1, <5>3 DEF Height
      <4>4. dangling < Len(stack)
        <5>1. Len(stack) \in Nat
          BY <3>7
        <5> QED
          BY <4>1, <5>1
      <4> QED
        BY <4>2, <4>3, <4>4
    <3> DEFINE u == Cut(Tail(stack), dangling')
    <3>9. /\ s # <<>> /\ Head(s) = Top /\ Tail(s) = u /\ IsStack(Tail(stack))
          /\ Len(Tail(stack)) = Len(stack) - 1
      BY <2>1, <3>6, <3>7, <3>8, CutPop DEF Top
    <3>10. StackOK(m_promiseState', u) /\ AllBegun(u)
      BY <3>6, <3>9, PopOne, StackPersists
    <3>11. \A f : Free(s, f) => Free(u, f)
      BY <3>6, <3>9, PopOne
    <3> DEFINE x == <<next>> \o Tail(stack)
               y == <<next>> \o u
    <3>12. /\ IsStack(x) /\ Len(x) = Len(stack) /\ Cut(x, dangling') = y
           /\ dangling' <= Len(Tail(stack))
      <4>1. dangling' <= Len(Tail(stack)) /\ Len(Tail(stack)) + 1 = Len(stack)
        BY <3>6, <3>7, <3>8, <3>9
      <4> QED
        BY <3>4, <3>6, <3>9, <4>1, CutPush DEF Quiet
    <3> HIDE DEF u, s
    <3>13. StackOK(m_promiseState', y) /\ AllBegun(y) /\ \A f : Free(u, f) => Free(y, f)
      BY <3>4, <3>10, PushQuiet
    <3>14. \/ NotifyIfSettled(p, c) = <<>>
           \/ \E f : /\ NotifyIfSettled(p, c) = <<f>>
                     /\ IsFrame(f) /\ Good(m_promiseState', f) /\ Free(s, f.p)
      BY <3>3, <3>5, <3>6, Renotified
    <3>15. CASE NotifyIfSettled(p, c) = <<>>
      <4>1. stack' = x
        BY <3>1, <3>15, OneByOne
      <4> HIDE DEF x, y
      <4> QED
        BY <3>6, <3>7, <3>12, <3>13, <4>1 DEF LiveOK, Live
    <3>16. ASSUME NEW f, NotifyIfSettled(p, c) = <<f>>, IsFrame(f), Good(m_promiseState', f),
                  Free(s, f.p)
           PROVE  Done
      <4>1. stack' = <<f>> \o x
        <5>1. stack' = <<f, next>> \o Tail(stack)
          BY <3>1, <3>16, OneByOne
        <5> QED
          BY <3>9, <5>1, TwoOnTop
      <4> HIDE DEF x, y
      <4>2. StackOK(m_promiseState', <<f>> \o y)
        BY <3>11, <3>13, <3>16, PushOne
      <4>3. dangling' <= Len(x) /\ dangling' \in Nat /\ Len(x) \in Nat
        BY <3>6, <3>7, <3>12
      <4>4. /\ IsStack(<<f>> \o x) /\ Len(<<f>> \o x) = Len(x) + 1
            /\ Cut(<<f>> \o x, dangling') = <<f>> \o y
        BY <3>12, <3>16, <4>3, CutPush
      <4> DEFINE z == <<f>> \o x
      <4>5. dangling' <= Len(z)
        BY <4>3, <4>4
      <4> HIDE DEF z
      <4> QED
        BY <4>1, <4>2, <4>3, <4>4, <4>5, LiveNext DEF z
    <3> QED
      BY <3>14, <3>15, <3>16
  <2>18. Quiet(Frame("resolve", Top.p, 1, Plain))
    BY <1>7 DEF Walking
  <2>19. ASSUME NEW r, AllFulfilled(r) PROVE Done
    <3>1. /\ UNCHANGED dangling
          /\ \/ Continue(<<Frame("resolve", Top.p, 1, Plain)>>)
             \/ Continue(<<Frame("resolve", r, 1, Plain), Call("allRelease", Top.p)>>)
      BY <2>19 DEF AllFulfilled, ClosureReturns, ghosts
    <3>2. Quiet(Frame("resolve", r, 1, Plain)) /\ Quiet(Call("allRelease", Top.p))
      BY <1>7 DEF Walking
    <3> QED
      BY <1>10, <2>1, <2>16, <2>18, <3>1, <3>2
  <2>20. ASSUME NEW r, AllRelease(r) PROVE Done
    BY <1>10, <2>1, <2>18, <2>20 DEF AllRelease, ClosureReturns
  <2>21. ASSUME NEW r, AllRejected(r) PROVE Done
    <3>1. /\ UNCHANGED dangling
          /\ \/ Continue(<<Frame("resolve", Top.p, 1, Plain)>>)
             \/ Continue(<<Call("reject", r), Frame("allCancel", Top.p, 1, r)>>)
      BY <2>21 DEF AllRejected, ClosureReturns, ghosts
    <3>2. Quiet(Call("reject", r)) /\ Quiet(Frame("allCancel", Top.p, 1, r))
      BY <1>7 DEF Walking
    <3> QED
      BY <1>10, <2>1, <2>16, <2>18, <3>1, <3>2
  <2>22. ASSUME NEW r, AllCancel(r) PROVE Done
    <3>1. /\ UNCHANGED dangling /\ Top.op = "allCancel"
          /\ \/ \E c : Continue(<<Call("cancel", c), next>>)
             \/ Continue(<<>>)
             \/ Continue(<<Frame("resolve", Top.p, 1, Plain)>>)
      BY <2>22 DEF AllCancel, Running, ClosureReturns
    <3>2. IsFrame(Top)
      BY <2>1, PopOne
    <3>3. Quiet(next)
      BY <3>1, <3>2, NextPlace DEF Quiet, Walking
    <3>4. \A c : Quiet(Call("cancel", c))
      BY <1>7 DEF Walking
    <3> HIDE DEF next
    <3> QED
      BY <1>8, <1>10, <2>1, <2>16, <2>18, <3>1, <3>3, <3>4
  <2> QED
    BY <1>4, <1>12, <2>4, <2>5, <2>6, <2>7, <2>8, <2>9, <2>10, <2>11, <2>12, <2>13, <2>14, <2>15,
       <2>17, <2>19, <2>20, <2>21, <2>22 DEF PromiseStep
<1> QED
  BY <1>1, <1>2, <1>11, <1>12 DEF Next, Rest

(* One call at a time walks the lists of a promise, however deep scripts   *)
(* nest the calls and whatever cycles they tie promises into: a second     *)
(* walk comes only within a call that has lost its list.                   *)
THEOREM OneWalkPerPromise == Spec => []OneFramePerPromise
<1>1. Init => AllsInv /\ WalkInv
  BY AllsInit, WalkInit
<1>2. StateType /\ AllsInv /\ WalkInv /\ [Next]_vars => AllsInv' /\ WalkInv'
  BY AllsStep, WalkStep
<1>3. WalkInv => OneFramePerPromise
  <2> SUFFICES ASSUME WalkInv, ~undefined, NEW j \in DOMAIN stack, NEW k \in DOMAIN stack,
                      j # k, stack[j].p = stack[k].p, Height(j) > dangling, Height(k) > dangling,
                      stack[j].op \in Walking, stack[k].op \in Walking
               PROVE  FALSE
    BY DEF OneFramePerPromise, Walking
  <2>1. /\ Len(stack) \in Nat /\ DOMAIN stack = 1..Len(stack) /\ dangling \in Nat
        /\ DOMAIN Live = 1..Len(stack) - dangling
        /\ \A i \in 1..Len(stack) - dangling : Live[i] = stack[i]
    BY CutIs DEF WalkInv, LiveOK, Live
  <2>2. j \in DOMAIN Live /\ k \in DOMAIN Live
    BY <2>1 DEF Height
  <2> QED
    BY <2>1, <2>2 DEF WalkInv, LiveOK, StackOK, Alone
<1> QED
  BY <1>1, <1>2, <1>3, StatesAreTyped, PTL DEF Spec

(* What every later lemma assumes of a step, and what it has by then: no   *)
(* list was changed under the call that walks it.                          *)
LEMMA DefinedBefore ==
    ASSUME WalkInv, [Next]_vars, Intact'
    PROVE  /\ Intact /\ StackOK(m_promiseState, stack) /\ IsStack(stack)
           /\ ScriptStep \/ PromiseStep \/ UNCHANGED vars
<1>1. ScriptStep \/ PromiseStep \/ UNCHANGED vars
  BY DEF Next, Rest, LoseList, Intact
<1>2. ASSUME UNCHANGED vars PROVE Intact
  BY <1>2 DEF vars, ghosts, Intact
<1>3. ASSUME LiveOK, NEW p, NEW by, Disturb(p, by) PROVE dangling = 0
  BY <1>3, WalksLost DEF LiveOK, Intact
<1>4. ASSUME LiveOK, UNCHANGED dangling PROVE dangling = 0
  BY <1>4 DEF Intact
<1>5. ASSUME ScriptStep PROVE Intact
  <2>1. LiveOK /\ ~undefined
    BY <1>5, ScriptsRun DEF WalkInv
  <2>2. ASSUME NEW p, \/ New(p) \/ Cancel(p) \/ OnCancel(p) \/ All(p) \/ lua_async(p) \/ lua_await(p)
                      \/ \E v : Settle(p, v)
        PROVE  UNCHANGED dangling
    BY <2>2 DEF New, Cancel, OnCancel, All, lua_async, lua_await, Settle, ghosts
  <2>3. ASSUME NEW p, \E c, on : AndThen(p, c, on) \/ Finally(p, c, on)
        PROVE  \E by : Disturb(p, by)
    BY <2>3, Zenon DEF AndThen, Finally
  <2>4. ASSUME (\E v : Return(v)) \/ Throw PROVE UNCHANGED dangling
    BY <2>4 DEF Return, Throw, ghosts
  <2>5. dangling = 0
    BY <1>3, <1>4, <1>5, <2>1, <2>2, <2>3, <2>4, Zenon DEF ScriptStep
  <2> QED
    BY <2>1, <2>5 DEF Intact
<1>6. ASSUME PromiseStep PROVE Intact
  <2>1. LiveOK /\ ~undefined
    BY <1>6, FramesRun DEF WalkInv
  <2>2. ASSUME NEW p, \/ ResolveIgnored \/ ResolveValue(p) \/ reject(p)
                      \/ \E inner : ResolveSettled(p, inner) \/ ResolveAdopts(p, inner)
        PROVE  UNCHANGED dangling
    BY <2>2 DEF ResolveIgnored, ResolveValue, reject, ResolveSettled, ResolveAdopts, ghosts
  <2>3. ASSUME NEW p, \/ NotifyThen(p) \/ NotifyFinally(p) \/ NotifyEnds(p)
        PROVE  UNCHANGED dangling
    BY <2>3 DEF NotifyThen, NotifyFinally, NotifyEnds, ghosts
  <2>4. ASSUME NEW p, \/ CancelStarts(p) \/ HookCalled(p) \/ CancelLinked(p)
                      \/ CancelCallback(p) \/ CancelEnds(p)
        PROVE  UNCHANGED dangling
    BY <2>4, Zenon DEF CancelStarts, HookCalled, CancelLinked, CancelCallback, CancelEnds, ghosts
  <2>5. ASSUME NEW r, \/ AllEnds(r) \/ AllFulfilled(r) \/ AllRejected(r)
                      \/ AllRelease(r) \/ AllCancel(r)
        PROVE  UNCHANGED dangling
    BY <2>5, Zenon DEF AllEnds, AllFulfilled, AllRejected, AllRelease, AllCancel, ghosts
  <2>6. ASSUME NEW r, AllInput(r) PROVE \E p, by : Disturb(p, by)
    BY <2>6, Zenon DEF AllInput
  <2>7. dangling = 0
    BY <1>3, <1>4, <1>6, <2>1, <2>2, <2>3, <2>4, <2>5, <2>6 DEF PromiseStep
  <2> QED
    BY <2>1, <2>7 DEF Intact
<1>7. Intact
  BY <1>1, <1>2, <1>5, <1>6
<1> QED
  BY <1>1, <1>7 DEF WalkInv, StackOK

(* ... nor was one changed by the step.                                    *)
LEMMA NotWalked ==
    ASSUME WalkInv, Intact, Intact', NEW p, NEW by, {"notify", "renotify"} \subseteq by,
           Disturb(p, by), stack = <<>> \/ Begun(Top)
    PROVE  \A k \in DOMAIN stack : stack[k].p = p => stack[k].op \notin {"notify", "renotify"}
<1>1. LiveOK /\ dangling' = 0
  BY DEF WalkInv, Intact
<1>2. Cut(stack, dangling') = stack
  BY <1>1, CutIs, 0 \in Nat DEF LiveOK
<1> QED
  BY <1>1, <1>2, LiveWalks

(* A coroutine is resumed for a second time by a walk within a walk only.  *)
LEMMA NotResumed ==
    ASSUME WalkInv, Intact, stack # <<>>, Top.op \in {"notify", "renotify"}
    PROVE  ~Resumed(Top.p)
<1>1. IsStack(stack) /\ Alone(stack)
  BY DEF WalkInv, StackOK
<1>2. PICK S : stack \in Seq(S)
  BY <1>1 DEF IsStack
<1>3. 1 \in DOMAIN stack /\ Top = stack[1]
  BY <1>2, EmptySeq DEF Top
<1> QED
  BY <1>1, <1>3 DEF Resumed, Alone, Walking

(* When no call is under way, none has lost its list.                      *)
LEMMA RestIsIntact ==
    ASSUME WalkInv, AtRest
    PROVE  Intact
<1>1. dangling \in Nat /\ dangling <= Len(stack) /\ stack = <<>> /\ ~undefined
  BY DEF WalkInv, AtRest, LiveOK
<1> QED
  BY <1>1, EmptySeq DEF Intact

-----------------------------------------------------------------------------
(* What has settled keeps no parent.                                       *)

(* The calls that release the links of their promise in the end.           *)
Releasing == {"notify"} \cup Cancelling
Releases(f, p) == f.op \in Releasing /\ f.p = p
Held(s, p) == \E k \in DOMAIN s : Releases(s[k], p)

LinkInv ==
    /\ DOMAIN m_parentRef = Promises
    /\ Intact => \A p \in Promises :
          m_promiseState[p] \in Settled => m_parentRef[p] = None \/ Held(stack, p)

(* A step gives a parent to a pending promise only.                        *)
ParentMoves ==
    \/ UNCHANGED m_parentRef
    \/ \E c, q : /\ m_parentRef' = [m_parentRef EXCEPT ![c] = q]
                 /\ c \in Promises => q = None \/ m_promiseState'[c] = "Pending"

LEMMA ScriptLinks ==
    ASSUME StateType, ScriptStep
    PROVE  ParentMoves
<1>1. ASSUME NEW p, NEW c, promise_wireLinks(p, c) PROVE ParentMoves
  BY <1>1 DEF promise_wireLinks, ParentMoves, StateType
<1>2. ASSUME NEW p, NEW c, (\E on : AndThen(p, c, on)) \/ (\E called : Finally(p, c, called))
      PROVE  ParentMoves
  BY <1>1, <1>2 DEF AndThen, Finally
<1>3. ASSUME NEW p, \/ New(p) \/ Cancel(p) \/ OnCancel(p) \/ All(p) \/ lua_async(p)
                    \/ lua_await(p) \/ \E v : Settle(p, v)
      PROVE  ParentMoves
  BY <1>3 DEF New, Cancel, OnCancel, All, lua_async, lua_await, Settle, links, ParentMoves
<1>4. ASSUME (\E v : Return(v)) \/ Throw PROVE ParentMoves
  BY <1>4 DEF Return, Throw, links, ParentMoves
<1> QED
  BY <1>2, <1>3, <1>4 DEF ScriptStep

LEMMA FrameLinks ==
    ASSUME StateType, PromiseStep
    PROVE  ParentMoves
<1>1. ASSUME NEW p, NEW inner, ResolveAdopts(p, inner) PROVE ParentMoves
  BY <1>1 DEF ResolveAdopts, Resolving, isPending, ParentMoves
<1>2. ASSUME NEW p, NotifyEnds(p) \/ CancelEnds(p) PROVE ParentMoves
  BY <1>2 DEF NotifyEnds, CancelEnds, promise_cleanupLinks, links, ParentMoves
<1>3. ASSUME NEW r, AllInput(r) PROVE ParentMoves
  <2>1. PICK p, c : promise_wireLinks(p, c)
    BY <1>3, SMTT(20) DEF AllInput
  <2> QED
    BY <2>1 DEF promise_wireLinks, ParentMoves, StateType
<1>4. ASSUME NEW p, \/ ResolveValue(p) \/ reject(p) \/ NotifyThen(p) \/ NotifyFinally(p)
                    \/ CancelStarts(p) \/ HookCalled(p) \/ CancelLinked(p) \/ CancelCallback(p)
      PROVE  ParentMoves
  BY <1>4 DEF ResolveValue, reject, NotifyThen, NotifyFinally, CancelStarts, HookCalled,
              CancelLinked, CancelCallback, links, ParentMoves
<1>5. ASSUME NEW p, NEW inner, ResolveSettled(p, inner) PROVE ParentMoves
  BY <1>5 DEF ResolveSettled, links, ParentMoves
<1>6. ASSUME NEW r, AllEnds(r) \/ AllFulfilled(r) \/ AllRejected(r) \/ AllRelease(r) \/ AllCancel(r)
      PROVE  ParentMoves
  BY <1>6 DEF AllEnds, AllFulfilled, AllRejected, AllRelease, AllCancel, links, ParentMoves
<1>7. ASSUME ResolveIgnored PROVE ParentMoves
  BY <1>7 DEF ResolveIgnored, links, ParentMoves
<1> QED
  BY <1>1, <1>2, <1>3, <1>4, <1>5, <1>6, <1>7 DEF PromiseStep

(* A call stays on the stack until it is the innermost and is replaced.    *)
LEMMA HeldAbove ==
    ASSUME NEW S, NEW s \in Seq(S), NEW f
    PROVE  /\ <<f>> \o s \in Seq(S \cup {f})
           /\ \A p : Held(s, p) => Held(<<f>> \o s, p)
           /\ \A p : Releases(f, p) => Held(<<f>> \o s, p)
<1> DEFINE T == S \cup {f}
           t == <<f>> \o s
<1>2. s \in Seq(T) /\ <<f>> \in Seq(T) /\ Len(<<f>>) = 1 /\ <<f>>[1] = f
  BY SeqMonotonic
<1>3. /\ t \in Seq(T) /\ Len(t) = 1 + Len(s) /\ Len(s) \in Nat
      /\ \A k \in 1..Len(t) : t[k] = IF k = 1 THEN f ELSE s[k - 1]
  BY <1>2, ConcatProperties
<1>4. DOMAIN t = 1..Len(t) /\ DOMAIN s = 1..Len(s)
  BY <1>2, <1>3
<1> HIDE DEF t
<1>5. 1 \in DOMAIN t /\ t[1] = f
  BY <1>3, <1>4
<1>6. \A k \in DOMAIN s : k + 1 \in DOMAIN t /\ t[k + 1] = s[k]
  BY <1>3, <1>4
<1> QED
  BY <1>3, <1>5, <1>6 DEF Held, t

LEMMA HeldBelow ==
    ASSUME NEW s, IsStack(s), s # <<>>, NEW p, Held(s, p)
    PROVE  Held(Tail(s), p) \/ Releases(Head(s), p)
<1>1. PICK S : s \in Seq(S)
  BY DEF IsStack
<1> DEFINE t == Tail(s)
<1>2. /\ t \in Seq(S) /\ Len(t) = Len(s) - 1 /\ Len(s) \in Nat \ {0} /\ Head(s) = s[1]
      /\ \A k \in 1..Len(t) : t[k] = s[k + 1]
  BY <1>1, HeadTailProperties, EmptySeq
<1>3. DOMAIN t = 1..Len(t) /\ DOMAIN s = 1..Len(s)
  BY <1>1, <1>2
<1>4. PICK k \in DOMAIN s : Releases(s[k], p)
  BY DEF Held
<1> HIDE DEF t
<1>5. CASE k = 1
  BY <1>2, <1>4, <1>5
<1>6. CASE k # 1
  <2>1. k - 1 \in DOMAIN t /\ t[k - 1] = s[k]
    BY <1>2, <1>3, <1>6
  <2> QED
    BY <1>4, <2>1 DEF Held, t
<1> QED
  BY <1>5, <1>6

(* A promise's call leaves the stack when the links are released, and a    *)
(* promise that settles gets one.                                          *)
LEMMA LinkStep ==
    ASSUME StateType, AllsInv, WalkInv, LinkInv, [Next]_vars
    PROVE  LinkInv'
<1> DEFINE Kept == \A p \in Promises : Held(stack, p) => Held(stack', p) \/ m_parentRef'[p] = None
           Met == \A p \in Promises : m_promiseState'[p] \in Settled =>
                      m_promiseState[p] \in Settled \/ Held(stack', p)
           t == Tail(stack)
<1>1. ParentMoves
  BY ScriptLinks, FrameLinks DEF Next, Rest, LoseList, vars, links, ParentMoves
<1>2. DOMAIN m_parentRef' = Promises
  BY <1>1 DEF ParentMoves, LinkInv
<1>3. ASSUME NEW p \in Promises, m_promiseState'[p] \in Settled
      PROVE  m_parentRef'[p] = None \/ m_parentRef'[p] = m_parentRef[p]
  BY <1>1, <1>3 DEF ParentMoves, LinkInv, Settled
<1> SUFFICES ASSUME Intact' PROVE Intact /\ Kept /\ Met
  BY <1>2, <1>3 DEF LinkInv
<1>0. Intact /\ StackOK(m_promiseState, stack) /\ (ScriptStep \/ PromiseStep \/ UNCHANGED vars)
  BY DefinedBefore
<1>4. CASE UNCHANGED vars
  BY <1>0, <1>4 DEF vars
<1>5. UNCHANGED m_promiseState => Met
  OBVIOUS
<1>6. ASSUME NEW c, m_promiseState' = [m_promiseState EXCEPT ![c] = "Pending"] PROVE Met
  BY <1>6 DEF StateType, Settled
<1> HIDE DEF Met
<1>7. CASE ScriptStep
  <2>1. Intact /\ StackOK(m_promiseState, stack)
    BY <1>0
  <2>2. IsStack(stack)
    BY <2>1 DEF StackOK
  <2>3. UNCHANGED stack => Kept
    OBVIOUS
  <2>4. (\E f : stack' = <<f>> \o stack) => Kept
    BY <2>2, HeldAbove DEF IsStack
  <2>5. \A f : stack # <<>> /\ Top.op = "script" /\ (Leave \/ Continue(<<>>) \/ Continue(<<f>>))
               => Kept
    <3> SUFFICES ASSUME NEW f, stack # <<>>, Top.op = "script",
                        Leave \/ Continue(<<>>) \/ Continue(<<f>>)
                 PROVE  Kept
      OBVIOUS
    <3>1. \A p : Held(stack, p) => Held(t, p)
      BY <2>2, HeldBelow DEF Top, Releases, Releasing, Cancelling
    <3>2. IsStack(t) /\ <<>> \o t = t
      BY <2>1, PopOne, PushNone DEF StackOK
    <3> QED
      BY <3>1, <3>2, HeldAbove DEF IsStack, Leave, Continue
  <2>6. \A p, c : stack' = NotifyIfSettled(p, c) \o stack => Kept
    BY <2>1, <2>3, <2>4, PushNone DEF NotifyIfSettled
  <2> HIDE DEF Kept, t
  <2>7. ASSUME NEW p, NEW c, (\E on : AndThen(p, c, on)) \/ (\E called : Finally(p, c, called))
        PROVE  Kept /\ Met
    BY <1>6, <2>6, <2>7 DEF AndThen, Finally, promise_wireLinks
  <2>8. ASSUME NEW p, New(p) \/ OnCancel(p) \/ lua_async(p) PROVE Kept /\ Met
    BY <1>5, <1>6, <2>3, <2>4, <2>8 DEF New, OnCancel, lua_async
  <2>9. ASSUME NEW p, Cancel(p) \/ (\E v : Settle(p, v)) \/ All(p) PROVE Kept /\ Met
    BY <1>5, <1>6, <2>4, <2>9 DEF Cancel, Settle, All
  <2>10. ASSUME NEW p, lua_await(p) PROVE Kept /\ Met
    BY <1>5, <2>5, <2>10 DEF lua_await, Awaitable, Running
  <2>11. ASSUME NEW v, Return(v) PROVE Kept /\ Met
    BY <1>5, <2>5, <2>11 DEF Return, Running
  <2>12. ASSUME Throw PROVE Kept /\ Met
    BY <1>5, <2>5, <2>12 DEF Throw, Running
  <2> QED
    BY <1>7, <2>1, <2>7, <2>8, <2>9, <2>10, <2>11, <2>12 DEF ScriptStep
<1>8. CASE PromiseStep
  <2>1. stack # <<>>
    BY <1>8 DEF PromiseStep
  <2>2. Intact /\ StackOK(m_promiseState, stack)
    BY <1>0
  <2>3. IsStack(stack) /\ IsStack(t) /\ <<>> \o t = t /\ IsFrame(Top)
    BY <2>1, <2>2, PopOne, PushNone DEF StackOK, Top
  <2>4. \A p : Held(stack, p) => Held(t, p) \/ Releases(Top, p)
    BY <2>1, <2>3, HeldBelow DEF Top
  <2>5. PICK S : t \in Seq(S)
    BY <2>3 DEF IsStack
  <2>6. \A f, p : /\ <<f>> \o t \in Seq(S \cup {f})
                  /\ Held(t, p) \/ Releases(f, p) => Held(<<f>> \o t, p)
    BY <2>5, HeldAbove
  <2>7. ASSUME NEW f, NEW g, NEW p, Held(t, p) \/ Releases(g, p)
        PROVE  Held(<<f, g>> \o t, p)
    <3>1. Held(<<g>> \o t, p)
      BY <2>6, <2>7
    <3>2. <<f, g>> \o t = <<f>> \o (<<g>> \o t)
      BY <2>3, TwoOnTop
    <3> QED
      BY <2>6, <3>1, <3>2, HeldAbove
  <2> DEFINE next == [Top EXCEPT !.i = @ + 1]
  <2>8. next.op = Top.op /\ next.p = Top.p
    BY <2>3, NextPlace
  <2>9. ASSUME Top.op \notin Releasing,
               NEW f, NEW g, Leave \/ Continue(<<>>) \/ Continue(<<f>>) \/ Continue(<<f, g>>)
        PROVE  Kept
    <3>1. \A p : Held(stack, p) => Held(t, p)
      BY <2>4, <2>9 DEF Releases
    <3> QED
      BY <2>3, <2>6, <2>7, <2>9, <3>1 DEF Leave, Continue
  <2>10. ASSUME NEW p, Top.p = p, NEW f, Releases(f, p),
                NEW g, Continue(<<f>>) \/ Continue(<<g, f>>)
         PROVE  Kept /\ Held(stack', p)
    <3>1. \A q : Held(stack, q) => Held(t, q) \/ Releases(f, q)
      BY <2>4, <2>10 DEF Releases
    <3> QED
      BY <2>6, <2>7, <2>10, <3>1 DEF Continue
  <2>11. ASSUME NEW p, Held(stack', p), NEW state,
                m_promiseState' = [m_promiseState EXCEPT ![p] = state]
         PROVE  Met
    BY <2>11 DEF Met, StateType
  <2>12. ASSUME NEW p, NEW op \in Releasing PROVE Releases(Call(op, p), p)
    BY DEF Releases, Call, Frame
  <2> HIDE DEF Kept, t, next
  <2>13. ASSUME NEW p, ResolveIgnored \/ (\E inner : ResolveAdopts(p, inner)) PROVE Kept /\ Met
    BY <1>5, <2>9, <2>13 DEF ResolveIgnored, ResolveAdopts, Resolving, Running, Releasing, Cancelling
  <2>14. ASSUME NEW p, NEW inner, ResolveSettled(p, inner) PROVE Kept /\ Met
    BY <1>5, <2>9, <2>14 DEF ResolveSettled, Resolving, Running, Releasing, Cancelling
  <2>15. ASSUME NEW p, ResolveValue(p) PROVE Kept /\ Met
    <3>1. Kept /\ Held(stack', p)
      BY <2>10, <2>12, <2>15 DEF ResolveValue, Resolving, Releasing
    <3> QED
      BY <2>11, <2>15, <3>1 DEF ResolveValue
  <2>16. ASSUME NEW p, reject(p) PROVE Kept /\ Met
    <3>1. CASE isPending(p)
      <4>1. Kept /\ Held(stack', p)
        BY <2>10, <2>12, <2>16, <3>1 DEF reject, Releasing
      <4> QED
        BY <2>11, <2>16, <3>1, <4>1 DEF reject
    <3>2. CASE ~isPending(p)
      BY <1>5, <2>9, <2>16, <3>2 DEF reject, Running, Releasing, Cancelling
    <3> QED
      BY <3>1, <3>2
  <2>17. ASSUME NEW p, NotifyThen(p) \/ NotifyFinally(p) PROVE Kept /\ Met
    <3>1. PICK g : /\ Continue(<<g, next>>) /\ Top.p = p /\ UNCHANGED m_promiseState
                   /\ Top.op \in {"notify", "renotify"}
      BY <2>17 DEF NotifyThen, NotifyFinally, Running, next
    <3>2. CASE Top.op = "notify"
      BY <1>5, <2>8, <2>10, <3>1, <3>2 DEF Releases, Releasing
    <3>3. CASE Top.op = "renotify"
      BY <1>5, <2>9, <3>1, <3>3 DEF Releasing, Cancelling
    <3> QED
      BY <3>1, <3>2, <3>3
  <2>18. ASSUME NEW p \in Promises, NotifyEnds(p) \/ CancelEnds(p) PROVE Kept /\ Met
    <3>1. /\ Leave /\ Top.p = p /\ UNCHANGED m_promiseState
          /\ \/ Top.op = "renotify"
             \/ m_parentRef' = [m_parentRef EXCEPT ![p] = None]
      BY <2>18 DEF NotifyEnds, CancelEnds, promise_cleanupLinks, Running
    <3>2. CASE Top.op = "renotify"
      BY <1>5, <2>9, <3>1, <3>2 DEF Releasing, Cancelling
    <3>3. CASE m_parentRef' = [m_parentRef EXCEPT ![p] = None]
      <4>1. m_parentRef'[p] = None
        BY <3>3 DEF LinkInv
      <4>2. \A q : Held(stack, q) => Held(stack', q) \/ q = p
        BY <2>4, <3>1 DEF Leave, Releases, t
      <4> QED
        BY <1>5, <3>1, <4>1, <4>2 DEF Kept
    <3> QED
      BY <3>1, <3>2, <3>3
  <2>19. ASSUME NEW p, CancelStarts(p) PROVE Kept /\ Met
    <3>1. CASE isPending(p)
      <4>1. /\ Top.p = p /\ m_promiseState' = [m_promiseState EXCEPT ![p] = "Cancelled"]
            /\ \/ \E g : Continue(<<g, Call("cancelled", p)>>)
               \/ Continue(<<Call("down", p)>>)
        BY <2>19, <3>1 DEF CancelStarts
      <4>2. Kept /\ Held(stack', p)
        BY <2>10, <2>12, <4>1 DEF Releasing, Cancelling
      <4> QED
        BY <2>11, <4>1, <4>2
    <3>2. CASE ~isPending(p)
      BY <1>5, <2>9, <2>19, <3>2 DEF CancelStarts, Running, Releasing, Cancelling
    <3> QED
      BY <3>1, <3>2
  <2>20. ASSUME NEW p, HookCalled(p) PROVE Kept /\ Met
    BY <1>5, <2>10, <2>12, <2>20 DEF HookCalled, Releasing, Cancelling
  <2>21. ASSUME NEW p, CancelLinked(p) \/ CancelCallback(p) PROVE Kept /\ Met
    <3>1. /\ Top.p = p /\ UNCHANGED m_promiseState /\ Top.op \in {"down", "drop"}
          /\ \/ \E g : Continue(<<g, next>>)
             \/ Continue(<<next>>)
             \/ \E g : Continue(<<g, Call("drop", p)>>)
             \/ Continue(<<Call("drop", p)>>)
      BY <2>21, OneByOne, ZenonT(40) DEF CancelLinked, CancelCallback, Running, next
    <3>2. Releases(next, p) /\ Releases(Call("drop", p), p)
      BY <2>8, <2>12, <3>1 DEF Releases, Releasing, Cancelling
    <3> QED
      BY <1>5, <2>10, <3>1, <3>2
  <2>22. ASSUME NEW r, AllInput(r) PROVE Kept /\ Met
    <3>1. PICK p, c : /\ Top.op = "all" /\ Continue(NotifyIfSettled(p, c) \o <<next>>)
                      /\ m_promiseState' = [m_promiseState EXCEPT ![c] = "Pending"]
      BY <2>22, Zenon DEF AllInput, promise_wireLinks, Running, next
    <3>2. Continue(<<next>>) \/ \E f : Continue(<<f, next>>)
      BY <3>1, OneByOne DEF NotifyIfSettled
    <3> QED
      BY <1>6, <2>9, <3>1, <3>2 DEF Releasing, Cancelling
  <2>23. ASSUME NEW r, AllEnds(r) \/ AllFulfilled(r) \/ AllRejected(r) \/ AllRelease(r) \/ AllCancel(r)
         PROVE  Kept /\ Met
    <3>1. /\ Top.op \in {"all", "allFulfilled", "allRejected", "allRelease", "allCancel"}
          /\ UNCHANGED m_promiseState
          /\ \/ Leave \/ Continue(<<>>)
             \/ \E f : Continue(<<f>>)
             \/ \E f, g : Continue(<<f, g>>)
      BY <2>23 DEF AllEnds, AllFulfilled, AllRejected, AllRelease, AllCancel, Closure, Running,
                   ClosureReturns
    <3> QED
      BY <1>5, <2>9, <3>1 DEF Releasing, Cancelling
  <2> QED
    BY <1>8, <2>2, <2>13, <2>14, <2>15, <2>16, <2>17, <2>18, <2>19, <2>20, <2>21, <2>22, <2>23
    DEF PromiseStep
<1> QED
  BY <1>0, <1>4, <1>7, <1>8

(* Once no call is under way, whatever has settled has left its parent, so *)
(* no cycle of parents and consumers keeps it alive.                       *)
THEOREM SettledIsUnlinked == Spec => []LinksReleased
<1>1. Init => AllsInv /\ WalkInv /\ LinkInv
  BY AllsInit, WalkInit DEF Init, LinkInv, Settled
<1>2. StateType /\ AllsInv /\ WalkInv /\ LinkInv /\ [Next]_vars => AllsInv' /\ WalkInv' /\ LinkInv'
  BY AllsStep, WalkStep, LinkStep
<1>3. WalkInv /\ LinkInv => LinksReleased
  BY RestIsIntact DEF LinkInv, Held, AtRest, LinksReleased
<1> QED
  BY <1>1, <1>2, <1>3, StatesAreTyped, PTL DEF Spec

-----------------------------------------------------------------------------
(* The calls on a stack.                                                   *)
On(s) == {s[k] : k \in DOMAIN s}

LEMMA OnTop ==
    ASSUME NEW s, IsStack(s), s # <<>>
    PROVE  On(s) = {Head(s)} \cup On(Tail(s))
<1>1. PICK S : s \in Seq(S)
  BY DEF IsStack
<1> DEFINE t == Tail(s)
<1>2. /\ t \in Seq(S) /\ Len(t) = Len(s) - 1 /\ Len(s) \in Nat \ {0} /\ Head(s) = s[1]
      /\ \A k \in 1..Len(t) : t[k] = s[k + 1]
  BY <1>1, HeadTailProperties, EmptySeq
<1>3. DOMAIN t = 1..Len(t) /\ DOMAIN s = 1..Len(s)
  BY <1>1, <1>2
<1> HIDE DEF t
<1>4. 1 \in DOMAIN s /\ \A k \in DOMAIN t : k + 1 \in DOMAIN s /\ t[k] = s[k + 1]
  BY <1>2, <1>3
<1>5. \A k \in DOMAIN s : k = 1 \/ (k - 1 \in DOMAIN t /\ t[k - 1] = s[k])
  BY <1>2, <1>3
<1> QED
  BY <1>2, <1>4, <1>5 DEF On, t

LEMMA OnPush ==
    ASSUME NEW s, IsStack(s), NEW f
    PROVE  On(<<>> \o s) = On(s) /\ On(<<f>> \o s) = {f} \cup On(s)
<1>1. PICK S : s \in Seq(S)
  BY DEF IsStack
<1>2. <<>> \o s = s
  BY <1>1, ConcatEmptySeq
<1> DEFINE T == S \cup {f}
           t == <<f>> \o s
<1>3. s \in Seq(T) /\ <<f>> \in Seq(T) /\ Len(<<f>>) = 1 /\ <<f>>[1] = f
  BY <1>1, SeqMonotonic
<1>4. /\ t \in Seq(T) /\ Len(t) = 1 + Len(s) /\ Len(s) \in Nat
      /\ \A k \in 1..Len(t) : t[k] = IF k = 1 THEN f ELSE s[k - 1]
  BY <1>3, ConcatProperties
<1>5. DOMAIN t = 1..Len(t) /\ DOMAIN s = 1..Len(s)
  BY <1>3, <1>4
<1> HIDE DEF t
<1>6. 1 \in DOMAIN t /\ t[1] = f /\ \A k \in DOMAIN s : k + 1 \in DOMAIN t /\ t[k + 1] = s[k]
  BY <1>4, <1>5
<1>7. \A k \in DOMAIN t : k = 1 \/ (k - 1 \in DOMAIN s /\ s[k - 1] = t[k])
  BY <1>4, <1>5
<1>8. On(t) = {f} \cup On(s)
  BY <1>6, <1>7 DEF On
<1> QED
  BY <1>2, <1>8 DEF t

LEMMA OnPushTwo ==
    ASSUME NEW s, IsStack(s), NEW f, IsFrame(f), NEW g, IsFrame(g)
    PROVE  On(<<f, g>> \o s) = {f, g} \cup On(s)
<1>1. IsStack(<<g>> \o s)
  <2>1. PICK S : s \in Seq(S) /\ \A h \in S : IsFrame(h)
    BY DEF IsStack
  <2> DEFINE T == S \cup {g}
  <2>2. s \in Seq(T) /\ <<g>> \in Seq(T)
    BY <2>1, SeqMonotonic
  <2>3. <<g>> \o s \in Seq(T) /\ \A h \in T : IsFrame(h)
    BY <2>1, <2>2, ConcatProperties
  <2> HIDE DEF T
  <2> QED
    BY <2>3 DEF IsStack
<1>2. On(<<f>> \o (<<g>> \o s)) = {f} \cup On(<<g>> \o s)
  BY <1>1, OnPush
<1>3. On(<<g>> \o s) = {g} \cup On(s)
  BY OnPush
<1>4. <<f, g>> \o s = <<f>> \o (<<g>> \o s)
  BY TwoOnTop
<1> QED
  BY <1>2, <1>3, <1>4

-----------------------------------------------------------------------------
(* A handler runs at most once.                                            *)

Notifying == {"notify", "renotify"}

IsList(s) == \E S : s \in Seq(S)
ListType ==
    /\ DOMAIN m_thenCallbacks = Promises /\ DOMAIN m_finallyCallbacks = Promises
    /\ \A p \in Promises : IsList(m_thenCallbacks[p]) /\ IsList(m_finallyCallbacks[p])

(* The callbacks of p that run something of c's when p settles, and where  *)
(* the walk of p's two lists comes by.                                     *)
List(p, l) == IF l = "then" THEN m_thenCallbacks[p] ELSE m_finallyCallbacks[p]
Handles(p, l, j) ==
    /\ j \in DOMAIN List(p, l)
    /\ IF l = "then" THEN m_thenCallbacks[p][j].on # {} ELSE m_finallyCallbacks[p][j].called
Chained(p, l, j) == List(p, l)[j].chained
Place(p, l, j) == IF l = "then" THEN j ELSE Len(m_thenCallbacks[p]) + j

(* A walk of p's lists is under way, or is past place i.                   *)
Idle(p) == \A f \in On(stack) : f.op \in Notifying => f.p # p
Passed(p, i) == \E f \in On(stack) : f.op \in Notifying /\ f.p = p /\ f.i > i

HandlerInv ==
    /\ calls \in [Promises -> {0, 1}]
    /\ \A c \in Promises : m_promiseState[c] = "unused" => calls[c] = 0
    /\ \A p \in Promises, l \in {"then", "finally"} : \A j :
        Handles(p, l, j) =>
            /\ Chained(p, l, j) \in Made
            /\ calls[Chained(p, l, j)] = 1 => Passed(p, Place(p, l, j))
            /\ \A q \in Promises, m \in {"then", "finally"} : \A k :
                  Handles(q, m, k) /\ Chained(q, m, k) = Chained(p, l, j)
                      => q = p /\ m = l /\ k = j
OnceInv == Intact => HandlerInv

(* What a step does to the lists and to their walks.                       *)
Born(c) == c \in Promises /\ m_promiseState[c] = "unused" /\ m_promiseState'[c] # "unused"
Persist == \A f \in On(stack) : f.op \in Notifying => f \in On(stack')
Still == UNCHANGED <<lists, calls>> /\ Persist
Added ==
    /\ Persist /\ UNCHANGED calls
    /\ \E p \in Promises : \E cb :
        /\ Idle(p)
        /\ \/ /\ m_thenCallbacks' = [m_thenCallbacks EXCEPT ![p] = Append(@, cb)]
              /\ UNCHANGED m_finallyCallbacks
              /\ cb.on = {} \/ Born(cb.chained)
           \/ /\ m_finallyCallbacks' = [m_finallyCallbacks EXCEPT ![p] = Append(@, cb)]
              /\ UNCHANGED m_thenCallbacks
              /\ Born(cb.chained)
Visited ==
    /\ UNCHANGED lists /\ stack # <<>>
    /\ \A f \in On(stack) : f.op \in Notifying => f = Top \/ f \in On(stack')
    /\ \E g \in On(stack') : g.op = Top.op /\ g.p = Top.p /\ g.i = Top.i + 1
    /\ Top.op \in Notifying /\ Top.p \in Promises
    /\ \/ UNCHANGED calls
       \/ \E l \in {"then", "finally"} : \E j :
             /\ Handles(Top.p, l, j) /\ Top.i = Place(Top.p, l, j)
             /\ calls' = [calls EXCEPT ![Chained(Top.p, l, j)] = @ + 1]
Cleared ==
    /\ UNCHANGED calls
    /\ \E p \in Promises :
        /\ ClearCallbacks(p)
        /\ \A f \in On(stack) : f.op \in Notifying => f.p = p \/ f \in On(stack')

(* Nothing walks the lists of p when p is chained from, and no list is     *)
(* changed under its walk.                                                 *)
LEMMA IdleWhenChained ==
    ASSUME WalkInv, [Next]_vars, Intact', NEW p,
           \/ \E c, on : AndThen(p, c, on) \/ Finally(p, c, on)
           \/ \E r : AllInput(r) /\ alls[r].inputs[Top.i] = p
    PROVE  Idle(p)
<1>1. stack = <<>> \/ Begun(Top)
  <2>1. CASE \E c, on : AndThen(p, c, on) \/ Finally(p, c, on)
    BY <2>1 DEF AndThen, Finally, Scripting, Begun
  <2>2. CASE \E r : AllInput(r)
    BY <2>2 DEF AllInput, Running, Begun
  <2> QED
    BY <2>1, <2>2
<1>2. \E by : {"notify", "renotify"} \subseteq by /\ Disturb(p, by)
  <2>1. ASSUME NEW c, NEW on, AndThen(p, c, on)
        PROVE  Disturb(p, {"notify", "renotify", "down", "drop"})
    BY <2>1 DEF AndThen
  <2>2. ASSUME NEW c, NEW on, Finally(p, c, on)
        PROVE  Disturb(p, {"notify", "renotify", "down"})
    BY <2>2 DEF Finally
  <2>3. ASSUME NEW r, AllInput(r), alls[r].inputs[Top.i] = p
        PROVE  Disturb(p, {"notify", "renotify", "down", "drop"})
    BY <2>3, Zenon DEF AllInput
  <2> QED
    BY <2>1, <2>2, <2>3
<1> QED
  BY <1>1, <1>2, DefinedBefore, NotWalked DEF Idle, On, Notifying

LEMMA HandlerMoves ==
    ASSUME StateType, AllsInv, WalkInv, ListType, [Next]_vars, Intact'
    PROVE  Intact /\ (Still \/ Added \/ Visited \/ Cleared)
<1>0. /\ Intact /\ StackOK(m_promiseState, stack) /\ IsStack(stack)
      /\ ScriptStep \/ PromiseStep \/ UNCHANGED vars
  BY DefinedBefore
<1>1. CASE UNCHANGED vars
  BY <1>0, <1>1 DEF vars, ghosts, Still, Persist
<1>2. CASE ScriptStep
  <2>1. Intact /\ StackOK(m_promiseState, stack) /\ IsStack(stack)
    BY DefinedBefore
  <2>2. \A f : stack' = <<f>> \o stack => Persist
    BY <2>1, OnPush DEF Persist
  <2>3. UNCHANGED stack => Persist
    BY DEF Persist
  <2>4. \A p, c : stack' = NotifyIfSettled(p, c) \o stack => Persist
    <3>1. On(<<>> \o stack) = On(stack)
      BY <2>1, OnPush
    <3>2. \A p, c : \/ NotifyIfSettled(p, c) = <<>>
                    \/ \E f : NotifyIfSettled(p, c) = <<f>>
      BY DEF NotifyIfSettled
    <3> QED
      BY <2>2, <3>1, <3>2 DEF Persist
  <2>5. ASSUME stack # <<>>, Top.op = "script", NEW f, Leave \/ Continue(<<>>) \/ Continue(<<f>>)
        PROVE  Persist
    <3>1. On(stack) = {Top} \cup On(Tail(stack)) /\ IsStack(Tail(stack))
      BY <2>1, <2>5, OnTop, PopOne DEF Top, StackOK
    <3>2. /\ On(<<>> \o Tail(stack)) = On(Tail(stack))
          /\ On(<<f>> \o Tail(stack)) = {f} \cup On(Tail(stack))
      BY <3>1, OnPush
    <3>3. On(Tail(stack)) \subseteq On(stack')
      BY <2>5, <3>2 DEF Leave, Continue
    <3> QED
      BY <2>5, <3>1, <3>3 DEF Persist, Notifying
  <2>7. ASSUME NEW p \in Promises, NEW c \in Promises, NEW on, AndThen(p, c, on) PROVE Added
    <3> DEFINE cb == [kind |-> "then", on |-> on, chained |-> c]
    <3>1. /\ m_thenCallbacks' = [m_thenCallbacks EXCEPT ![p] = Append(@, cb)]
          /\ UNCHANGED <<m_finallyCallbacks, calls>>
          /\ m_promiseState' = [m_promiseState EXCEPT ![c] = "Pending"] /\ m_promiseState[c] = "unused"
          /\ stack' = NotifyIfSettled(p, c) \o stack
      BY <2>7 DEF AndThen, promise_wireLinks, Fresh
    <3>2. Idle(p)
      BY <2>7, IdleWhenChained
    <3>3. cb.chained = c
      OBVIOUS
    <3>4. Born(c)
      BY <3>1 DEF Born, StateType
    <3> HIDE DEF cb
    <3> QED
      BY <2>4, <3>1, <3>2, <3>3, <3>4 DEF Added
  <2>8. ASSUME NEW p \in Promises, NEW c \in Promises, NEW called, Finally(p, c, called) PROVE Added
    <3> DEFINE cb == [called |-> called, chained |-> c]
    <3>1. /\ m_finallyCallbacks' = [m_finallyCallbacks EXCEPT ![p] = Append(@, cb)]
          /\ UNCHANGED <<m_thenCallbacks, calls>>
          /\ m_promiseState' = [m_promiseState EXCEPT ![c] = "Pending"] /\ m_promiseState[c] = "unused"
          /\ stack' = NotifyIfSettled(p, c) \o stack
      BY <2>8 DEF Finally, promise_wireLinks, Fresh
    <3>2. Idle(p)
      BY <2>8, IdleWhenChained
    <3>3. cb.chained = c
      OBVIOUS
    <3>4. Born(c)
      BY <3>1 DEF Born, StateType
    <3> HIDE DEF cb
    <3> QED
      BY <2>4, <3>1, <3>2, <3>3, <3>4 DEF Added
  <2>9. ASSUME NEW p \in Promises, lua_await(p) PROVE Added
    <3> DEFINE cb == [kind |-> "await", on |-> {}, chained |-> Top.p]
    <3>1. /\ m_thenCallbacks' = [m_thenCallbacks EXCEPT ![p] = Append(@, cb)]
          /\ UNCHANGED <<m_finallyCallbacks, calls>> /\ isPending(p)
          /\ stack # <<>> /\ Top.op = "script" /\ Leave
      BY <2>9 DEF lua_await, Awaitable, Running, ghosts
    <3>2. Idle(p)
      BY <2>1, <3>1 DEF StackOK, Good, Idle, On, isPending, Settled, Notifying, Walking
    <3>3. cb.on = {}
      OBVIOUS
    <3> HIDE DEF cb
    <3> QED
      BY <2>5, <3>1, <3>2, <3>3 DEF Added
  <2>10. ASSUME NEW p, New(p) \/ OnCancel(p) \/ lua_async(p) PROVE Still
    BY <2>2, <2>3, <2>10 DEF New, OnCancel, lua_async, Still, ghosts
  <2>11. ASSUME NEW p, Cancel(p) \/ (\E v : Settle(p, v)) \/ All(p) PROVE Still
    BY <2>2, <2>11 DEF Cancel, Settle, All, Still, ghosts
  <2>12. ASSUME NEW v, Return(v) PROVE Still
    BY <2>5, <2>12 DEF Return, Running, Still, ghosts
  <2>13. ASSUME Throw PROVE Still
    BY <2>5, <2>13 DEF Throw, Running, Still, ghosts
  <2> QED
    BY <1>2, <2>1, <2>7, <2>8, <2>9, <2>10, <2>11, <2>12, <2>13 DEF ScriptStep
<1>3. CASE PromiseStep
  <2> DEFINE t == Tail(stack)
             next == [Top EXCEPT !.i = @ + 1]
  <2>1. Intact /\ stack # <<>> /\ StackOK(m_promiseState, stack) /\ IsStack(stack)
    BY <1>0, <1>3, FramesRun
  <2>2. /\ On(stack) = {Top} \cup On(t) /\ IsStack(t) /\ IsFrame(Top) /\ Good(m_promiseState, Top)
        /\ Top.op \in Walking => Free(t, Top.p)
    BY <2>1, OnTop, PopOne DEF Top, StackOK
  <2>3. IsFrame(next) /\ next.op = Top.op /\ next.p = Top.p /\ next.i = Top.i + 1 /\ Top.i \in Nat \ {0}
    BY <2>2, NextPlace
  <2>4. /\ Leave => On(stack') = On(t)
        /\ Continue(<<>>) => On(stack') = On(t)
        /\ \A f : Continue(<<f>>) => On(stack') = {f} \cup On(t)
        /\ \A f, g : IsFrame(f) /\ IsFrame(g) /\ Continue(<<f, g>>) => On(stack') = {f, g} \cup On(t)
    <3>1. On(<<>> \o t) = On(t) /\ \A f : On(<<f>> \o t) = {f} \cup On(t)
      BY <2>2, OnPush
    <3>2. \A f, g : IsFrame(f) /\ IsFrame(g) => On(<<f, g>> \o t) = {f, g} \cup On(t)
      BY <2>2, OnPushTwo
    <3> QED
      BY <3>1, <3>2 DEF Leave, Continue
  <2>5. \A c, op, what : IsFrame(Call(op, c)) /\ IsFrame(Script(c, what)) /\ IsFrame(Frame(op, c, 1, what))
    BY FrameFields, 1 \in Nat \ {0} DEF Call, Script
  <2> HIDE DEF next
  <2>6. ASSUME NEW f, NEW g, IsFrame(f), IsFrame(g), Top.op \notin Notifying,
               Leave \/ Continue(<<>>) \/ Continue(<<f>>) \/ Continue(<<f, g>>)
        PROVE  Persist
    BY <2>2, <2>4, <2>6 DEF Persist
  <2>7. ASSUME NEW p, ResolveIgnored \/ ResolveValue(p) \/ reject(p) PROVE Still
    BY <2>1, <2>5, <2>6, <2>7 DEF ResolveIgnored, ResolveValue, Resolving, reject, Running, Still,
       ghosts, Notifying
  <2>8. ASSUME NEW p, NEW inner, ResolveSettled(p, inner) PROVE Still
    <3>1. PICK f : IsFrame(f) /\ Continue(<<f>>)
      BY <2>5, <2>8 DEF ResolveSettled, Settled, isCancelled
    <3> QED
      BY <2>6, <2>8, <3>1 DEF ResolveSettled, Resolving, Running, Still, Notifying
  <2>9. ASSUME NEW p, NEW inner \in Promises, ResolveAdopts(p, inner) PROVE Added
    <3> DEFINE cb == [kind |-> "adopt", on |-> {}, chained |-> p]
    <3>1. /\ m_thenCallbacks' = [m_thenCallbacks EXCEPT ![inner] = Append(@, cb)]
          /\ UNCHANGED <<m_finallyCallbacks, calls>> /\ isPending(inner)
          /\ Top.op = "resolve" /\ Leave
      BY <2>9 DEF ResolveAdopts, Resolving, Running
    <3>2. Idle(inner)
      BY <2>1, <3>1 DEF StackOK, Good, Idle, On, isPending, Settled, Notifying, Walking
    <3>3. cb.on = {}
      OBVIOUS
    <3>4. Persist
      BY <2>5, <2>6, <3>1 DEF Notifying
    <3> HIDE DEF cb
    <3> QED
      BY <3>1, <3>2, <3>3, <3>4 DEF Added
  <2>10. ASSUME NEW g, IsFrame(g), Continue(<<g, next>>), Top.op \in Notifying
         PROVE  /\ \A f \in On(stack) : f.op \in Notifying => f = Top \/ f \in On(stack')
                /\ \E h \in On(stack') : h.op = Top.op /\ h.p = Top.p /\ h.i = Top.i + 1
                /\ Top.p \in Promises
    <3>1. On(stack') = {g, next} \cup On(t)
      BY <2>3, <2>4, <2>10
    <3>2. Top.p \in Promises
      BY <2>2, <2>10 DEF Good, Notifying, Walking
    <3> QED
      BY <2>2, <2>3, <3>1, <3>2
  <2>11. ASSUME NEW p, NotifyThen(p) PROVE Visited
    <3> DEFINE cb == m_thenCallbacks[p][Top.i]
               handled == m_promiseState[p] \in cb.on
    <3>1. /\ Top.op \in Notifying /\ Top.p = p /\ Top.i <= Len(m_thenCallbacks[p])
          /\ calls' = IF handled THEN [calls EXCEPT ![cb.chained] = @ + 1] ELSE calls
          /\ UNCHANGED lists
      BY <2>11, SMTT(20) DEF NotifyThen, Running, Notifying
    <3>2. PICK g : Continue(<<g, next>>) /\ IsFrame(g)
      <4>0. ~Resumed(p)
        BY <2>1, <3>1, NotResumed DEF Notifying
      <4> DEFINE g == CASE cb.kind = "await" -> Script(cb.chained, "coroutine")
                        [] cb.kind = "all" -> Call(IF m_promiseState[p] = "Fulfilled"
                                                   THEN "allFulfilled" ELSE "allRejected",
                                                   cb.chained)
                        [] cb.kind = "then" /\ handled -> Script(cb.chained, "handler")
                        [] OTHER -> Propagate(p, cb.chained)
      <4>1. Continue(<<g, next>>)
        BY <2>11, <4>0, Zenon DEF NotifyThen, next
      <4>2. IsFrame(g)
        <5>1. CASE cb.kind = "await"
          BY <5>1, <2>5
        <5>2. CASE cb.kind = "all"
          BY <5>2, <2>5
        <5>3. CASE cb.kind = "then" /\ handled
          BY <5>3, <2>5
        <5>4. CASE cb.kind \notin {"await", "all"} /\ ~(cb.kind = "then" /\ handled)
          BY <5>4, CallsAreQuiet DEF Quiet
        <5> QED
          BY <5>1, <5>2, <5>3, <5>4
      <4> QED
        BY <4>1, <4>2
    <3>3. p \in Promises
      BY <2>2, <3>1 DEF Good, Notifying, Walking
    <3>4. handled => Handles(p, "then", Top.i)
      <4>1. PICK S : m_thenCallbacks[p] \in Seq(S)
        BY <3>3 DEF ListType, IsList
      <4>2. Top.i \in DOMAIN m_thenCallbacks[p]
        BY <2>3, <3>1, <4>1
      <4> QED
        BY <4>2 DEF Handles, List
    <3>5. Top.i = Place(p, "then", Top.i) /\ Chained(p, "then", Top.i) = cb.chained
      BY DEF Place, Chained, List
    <3> HIDE DEF handled, cb
    <3>6. \/ UNCHANGED calls
          \/ \E l \in {"then", "finally"} : \E j :
                /\ Handles(Top.p, l, j) /\ Top.i = Place(Top.p, l, j)
                /\ calls' = [calls EXCEPT ![Chained(Top.p, l, j)] = @ + 1]
      BY <3>1, <3>4, <3>5
    <3> QED
      BY <2>1, <2>10, <3>1, <3>2, <3>6 DEF Visited
  <2>12. ASSUME NEW p, NotifyFinally(p) PROVE Visited
    <3> DEFINE k == Top.i - Len(m_thenCallbacks[p])
               cb == m_finallyCallbacks[p][k]
    <3>1. /\ Top.op \in Notifying /\ Top.p = p /\ k \in DOMAIN m_finallyCallbacks[p]
          /\ calls' = IF cb.called THEN [calls EXCEPT ![cb.chained] = @ + 1] ELSE calls
          /\ UNCHANGED lists
      BY <2>12 DEF NotifyFinally, Running, Notifying
    <3>2. PICK g : Continue(<<g, next>>) /\ IsFrame(g)
      <4> DEFINE g == IF cb.called THEN Script(cb.chained, "finally") ELSE Propagate(p, cb.chained)
      <4>1. Continue(<<g, next>>)
        BY <2>12 DEF NotifyFinally, next
      <4>2. IsFrame(g)
        BY <2>5, CallsAreQuiet DEF Quiet
      <4> QED
        BY <4>1, <4>2
    <3>3. p \in Promises
      BY <2>2, <3>1 DEF Good, Notifying, Walking
    <3>4. cb.called => Handles(p, "finally", k)
      BY <3>1 DEF Handles, List
    <3>5. Top.i = Place(p, "finally", k) /\ Chained(p, "finally", k) = cb.chained
      <4>1. PICK S : m_thenCallbacks[p] \in Seq(S)
        BY <3>3 DEF ListType, IsList
      <4>2. Len(m_thenCallbacks[p]) \in Nat
        BY <4>1
      <4> QED
        BY <2>3, <4>2 DEF Place, Chained, List
    <3> HIDE DEF cb, k
    <3>6. \/ UNCHANGED calls
          \/ \E l \in {"then", "finally"} : \E j :
                /\ Handles(Top.p, l, j) /\ Top.i = Place(Top.p, l, j)
                /\ calls' = [calls EXCEPT ![Chained(Top.p, l, j)] = @ + 1]
      BY <3>1, <3>4, <3>5
    <3> QED
      BY <2>1, <2>10, <3>1, <3>2, <3>6 DEF Visited
  <2>13. ASSUME NEW p \in Promises, NotifyEnds(p) \/ CancelEnds(p) PROVE Cleared
    <3>1. ClearCallbacks(p) /\ Leave /\ Top.p = p /\ UNCHANGED calls
      BY <2>13 DEF NotifyEnds, CancelEnds, ghosts
    <3> QED
      BY <2>2, <2>4, <3>1 DEF Cleared
  <2>14. ASSUME NEW p, CancelStarts(p) PROVE Still
    <3>1. \/ Leave
          \/ \E f, g : IsFrame(f) /\ IsFrame(g) /\ Continue(<<f, g>>)
          \/ \E f : IsFrame(f) /\ Continue(<<f>>)
      <4> DEFINE f == IF alls[p].hooked THEN Frame("allCancel", p, 1, p) ELSE Script(p, "hook")
      <4>1. IsFrame(f) /\ IsFrame(Call("cancelled", p)) /\ IsFrame(Call("down", p))
        BY <2>5
      <4>2. Leave \/ Continue(<<f, Call("cancelled", p)>>) \/ Continue(<<Call("down", p)>>)
        BY <2>14 DEF CancelStarts
      <4> HIDE DEF f
      <4> QED
        BY <4>1, <4>2
    <3> QED
      BY <2>5, <2>6, <2>14, <3>1 DEF CancelStarts, Running, Still, ghosts, Notifying
  <2>15. ASSUME NEW p, HookCalled(p) PROVE Still
    BY <2>5, <2>6, <2>15 DEF HookCalled, Running, Still, ghosts, Notifying
  <2>16. ASSUME NEW p, CancelLinked(p) \/ CancelCallback(p) PROVE Still
    <3>1. /\ Top.p = p /\ Top.op \in {"down", "drop"} /\ UNCHANGED <<lists, calls>>
          /\ \/ \E c : Continue(<<Call("cancel", c), next>>)
             \/ \E c : Continue(<<Call("reject", c), next>>)
             \/ Continue(<<next>>)
             \/ \E c : Continue(<<Call("cancel", c), Call("drop", p)>>)
             \/ Continue(<<Call("drop", p)>>)
      <4>1. CASE CancelLinked(p)
        BY <4>1, Zenon DEF CancelLinked, Running, next, ghosts
      <4>2. CASE CancelCallback(p)
        <5>1. PICK cb : Continue((IF cb.kind = "await" THEN <<Call("reject", cb.chained)>> ELSE <<>>)
                                 \o <<next>>)
          BY <4>2 DEF CancelCallback, next
        <5>2. Continue(<<Call("reject", cb.chained), next>>) \/ Continue(<<next>>)
          BY <5>1, OneByOne, Zenon
        <5>3. Top.p = p /\ Top.op = "drop" /\ UNCHANGED <<lists, calls>>
          BY <4>2, Zenon DEF CancelCallback, Running, ghosts
        <5> QED
          BY <5>2, <5>3, Zenon
      <4> QED
        BY <2>16, <4>1, <4>2
    <3> QED
      BY <2>3, <2>5, <2>6, <3>1 DEF Still, Notifying
  <2>17. ASSUME NEW r \in Promises, AllInput(r) PROVE Added
    <3> DEFINE p == alls[r].inputs[Top.i]
               c == alls[r].chained[Top.i]
               cb == [kind |-> "all", on |-> {"Fulfilled", "Rejected"}, chained |-> c]
    <3>1. /\ Top.op = "all" /\ Top.i <= Len(alls[r].inputs)
          /\ m_thenCallbacks' = [m_thenCallbacks EXCEPT ![p] = Append(@, cb)]
          /\ UNCHANGED <<m_finallyCallbacks, calls>>
          /\ m_promiseState[c] = "unused" /\ m_promiseState' = [m_promiseState EXCEPT ![c] = "Pending"]
          /\ Continue(NotifyIfSettled(p, c) \o <<next>>)
      BY <2>17, Zenon DEF AllInput, Running, promise_wireLinks, next
    <3>2. p \in Promises /\ c \in Promises
      <4>1. /\ alls[r].inputs \in Seq(Made) /\ alls[r].chained \in Seq(Promises)
            /\ Len(alls[r].inputs) = Len(alls[r].chained)
        BY TableFields DEF AllsInv
      <4> QED
        BY <2>3, <3>1, <4>1, SMTT(20) DEF Made
    <3>3. Idle(p)
      BY <2>17, IdleWhenChained
    <3>4. Born(c)
      BY <3>1, <3>2 DEF Born, StateType
    <3>5. cb.chained = c
      OBVIOUS
    <3> HIDE DEF p, c, cb
    <3>6. Continue(<<next>>) \/ \E f : IsFrame(f) /\ Continue(<<f, next>>)
      BY <2>5, <3>1, OneByOne DEF NotifyIfSettled
    <3>7. Persist
      BY <2>3, <2>6, <3>1, <3>6 DEF Notifying
    <3> QED
      BY <3>1, <3>2, <3>3, <3>4, <3>5, <3>7 DEF Added
  <2>18. ASSUME NEW r, AllEnds(r) \/ AllFulfilled(r) \/ AllRejected(r) \/ AllRelease(r) \/ AllCancel(r)
         PROVE  Still
    <3>1. /\ Top.op \in {"all", "allFulfilled", "allRejected", "allRelease", "allCancel"}
          /\ UNCHANGED <<lists, calls>>
          /\ \/ Leave \/ Continue(<<>>)
             \/ Continue(ClosureReturns)
             \/ \E op, c, v : Continue(<<Frame(op, c, 1, v), Frame("allCancel", Top.p, 1, r)>>)
             \/ \E op, c, v : Continue(<<Frame(op, c, 1, v), Call("allRelease", Top.p)>>)
             \/ \E op, c, v : Continue(<<Frame(op, c, 1, v), next>>)
      BY <2>18 DEF AllEnds, AllFulfilled, AllRejected, AllRelease, AllCancel, Closure, Running,
                   Call, next, ghosts
    <3> QED
      BY <2>3, <2>5, <2>6, <3>1, ZenonT(40) DEF Still, Notifying, ClosureReturns
  <2> QED
    BY <1>3, <2>1, <2>7, <2>8, <2>9, <2>11, <2>12, <2>13, <2>14, <2>15, <2>16, <2>17, <2>18
    DEF PromiseStep
<1> QED
  BY <1>0, <1>1, <1>2, <1>3

LEMMA MadeStays ==
    ASSUME StateType, [Next]_vars
    PROVE  Made \subseteq Made'
<1>1. CASE UNCHANGED m_promiseState
  BY <1>1 DEF Made
<1>2. CASE OneMoves
  BY <1>2 DEF OneMoves, StateType, Made, Settled
<1> QED
  BY <1>1, <1>2, EveryStepMoves

ListInv == Intact => ListType

LEMMA AddToList ==
    ASSUME NEW s, IsList(s), NEW x
    PROVE  /\ IsList(Append(s, x)) /\ Len(s) \in Nat
           /\ DOMAIN s = 1..Len(s) /\ DOMAIN Append(s, x) = 1..Len(s) + 1
           /\ \A j \in DOMAIN s : Append(s, x)[j] = s[j]
           /\ Append(s, x)[Len(s) + 1] = x
<1>1. PICK S : s \in Seq(S)
  BY DEF IsList
<1> DEFINE T == S \cup {x}
<1>2. s \in Seq(T) /\ x \in T
  BY <1>1, SeqMonotonic
<1> HIDE DEF T
<1>3. /\ Append(s, x) \in Seq(T) /\ Len(s) \in Nat /\ Len(Append(s, x)) = Len(s) + 1
      /\ Append(s, x)[Len(s) + 1] = x
      /\ \A j \in 1..Len(s) : Append(s, x)[j] = s[j]
  BY <1>2, AppendProperties
<1>4. DOMAIN s = 1..Len(s) /\ DOMAIN Append(s, x) = 1..Len(Append(s, x))
  BY <1>2, <1>3
<1> QED
  BY <1>3, <1>4 DEF IsList

LEMMA ListStep ==
    ASSUME StateType, AllsInv, WalkInv, ListInv, [Next]_vars
    PROVE  ListInv'
<1> SUFFICES ASSUME Intact'
             PROVE  ListType'
  BY DEF ListInv
<1>1. ListType
  BY DefinedBefore DEF ListInv
<1>2. IsList(<<>>)
  BY EmptySeq DEF IsList
<1>3. CASE UNCHANGED lists
  BY <1>1, <1>3 DEF ListType, lists
<1>4. CASE Added
  <2>1. PICK p \in Promises : \E cb :
            \/ /\ m_thenCallbacks' = [m_thenCallbacks EXCEPT ![p] = Append(@, cb)]
               /\ UNCHANGED m_finallyCallbacks
            \/ /\ m_finallyCallbacks' = [m_finallyCallbacks EXCEPT ![p] = Append(@, cb)]
               /\ UNCHANGED m_thenCallbacks
    BY <1>4 DEF Added
  <2>2. IsList(m_thenCallbacks[p]) /\ IsList(m_finallyCallbacks[p])
    BY <1>1 DEF ListType
  <2>3. \A cb : IsList(Append(m_thenCallbacks[p], cb)) /\ IsList(Append(m_finallyCallbacks[p], cb))
    BY <2>2, AddToList
  <2> QED
    BY <1>1, <2>1, <2>3 DEF ListType
<1>5. CASE Cleared
  BY <1>1, <1>2, <1>5 DEF Cleared, ClearCallbacks, ListType
<1> QED
  BY <1>1, <1>3, <1>4, <1>5, HandlerMoves DEF Still, Visited

LEMMA HandlerStep ==
    ASSUME StateType, AllsInv, WalkInv, ListInv, OnceInv, [Next]_vars
    PROVE  OnceInv'
<1>1. Made \subseteq Made'
  BY MadeStays
<1>3. ASSUME Intact' PROVE HandlerInv'
  <2>1. Intact /\ ListType /\ HandlerInv
    BY <1>3, DefinedBefore DEF ListInv, OnceInv
  <2>2. \A p \in Promises, l \in {"then", "finally"} : \A j :
            Handles(p, l, j) =>
                /\ Chained(p, l, j) \in Made
                /\ calls[Chained(p, l, j)] = 1 => Passed(p, Place(p, l, j))
                /\ \A q \in Promises, m \in {"then", "finally"} : \A k :
                      Handles(q, m, k) /\ Chained(q, m, k) = Chained(p, l, j)
                          => q = p /\ m = l /\ k = j
    BY <2>1 DEF HandlerInv
  <2>3. /\ calls \in [Promises -> {0, 1}]
        /\ \A c \in Promises : m_promiseState[c] = "unused" => calls[c] = 0
    BY <2>1 DEF HandlerInv
  <2> DEFINE Fine ==
        /\ calls' \in [Promises -> {0, 1}]
        /\ \A c \in Promises : m_promiseState'[c] = "unused" => calls'[c] = 0
        /\ \A p \in Promises, l \in {"then", "finally"} : \A j :
              Handles(p, l, j)' =>
                /\ Chained(p, l, j)' \in Made'
                /\ calls'[Chained(p, l, j)'] = 1 => Passed(p, Place(p, l, j))'
                /\ \A q \in Promises, m \in {"then", "finally"} : \A k :
                      Handles(q, m, k)' /\ Chained(q, m, k)' = Chained(p, l, j)'
                          => q = p /\ m = l /\ k = j
  <2>4. /\ \A c \in Promises : m_promiseState'[c] = "unused" => m_promiseState[c] = "unused"
        /\ Made \subseteq Promises
    BY <1>1 DEF Made
  <2>20. \A p \in Promises : \A l, j : Handles(p, l, j) => Place(p, l, j) \in Nat
    <3>1. \A p \in Promises : /\ Len(m_thenCallbacks[p]) \in Nat
                               /\ DOMAIN m_thenCallbacks[p] \subseteq Nat
                               /\ DOMAIN m_finallyCallbacks[p] \subseteq Nat
      BY <2>1, AddToList DEF ListType
    <3> QED
      BY <3>1 DEF Handles, Place, List
  <2>5. ASSUME \A p : \A i \in Nat : Passed(p, i) => Passed(p, i)', UNCHANGED lists, UNCHANGED calls
        PROVE  Fine
    <3>1. \A p, l, j : /\ Handles(p, l, j)' <=> Handles(p, l, j)
                       /\ Chained(p, l, j)' = Chained(p, l, j) /\ Place(p, l, j)' = Place(p, l, j)
      BY <2>5 DEF Handles, Chained, Place, List, lists
    <3>2. UNCHANGED calls
      BY <2>5
    <3> QED
      BY <1>1, <2>2, <2>3, <2>4, <2>5, <2>20, <3>1, <3>2
  <2>6. ASSUME Still PROVE Fine
    <3>1. \A p, i : Passed(p, i) => Passed(p, i)'
      BY <2>6 DEF Still, Persist, Passed
    <3> QED
      BY <2>5, <2>6, <3>1 DEF Still
  <2>7. ASSUME Cleared PROVE Fine
    <3>1. PICK p \in Promises : /\ ClearCallbacks(p)
                                /\ \A f \in On(stack) : f.op \in Notifying =>
                                      f.p = p \/ f \in On(stack')
      BY <2>7 DEF Cleared
    <3>2. \A q, i : q # p /\ Passed(q, i) => Passed(q, i)'
      BY <3>1 DEF Passed
    <3>3. \A l, j : ~Handles(p, l, j)'
      <4>1. m_thenCallbacks'[p] = <<>> /\ m_finallyCallbacks'[p] = <<>>
        BY <2>1, <3>1 DEF ClearCallbacks, ListType
      <4> QED
        BY <4>1 DEF Handles, List
    <3>4. \A q \in Promises : \A l, j : q # p =>
                /\ Handles(q, l, j)' <=> Handles(q, l, j)
                /\ Chained(q, l, j)' = Chained(q, l, j) /\ Place(q, l, j)' = Place(q, l, j)
      <4>1. \A q \in Promises : q # p => /\ m_thenCallbacks'[q] = m_thenCallbacks[q]
                                        /\ m_finallyCallbacks'[q] = m_finallyCallbacks[q]
        BY <2>1, <3>1 DEF ClearCallbacks, ListType
      <4> QED
        BY <4>1 DEF Handles, Chained, Place, List
    <3>5. UNCHANGED calls
      BY <2>7 DEF Cleared
    <3> QED
      BY <1>1, <2>2, <2>3, <2>4, <3>2, <3>3, <3>4, <3>5
  <2>8. ASSUME Visited PROVE Fine
    <3>1. /\ UNCHANGED lists
          /\ \A f \in On(stack) : f.op \in Notifying => f = Top \/ f \in On(stack')
          /\ \E g \in On(stack') : g.op = Top.op /\ g.p = Top.p /\ g.i = Top.i + 1
          /\ Top.op \in Notifying /\ Top.p \in Promises
      BY <2>8 DEF Visited
    <3>10. PICK w : w = Top
      OBVIOUS
    <3>2. /\ On(stack) = {Top} \cup On(Tail(stack)) /\ Free(Tail(stack), Top.p)
          /\ \A f \in On(stack) : f.i \in Nat
      <4>1. StackOK(m_promiseState, stack) /\ stack # <<>>
        BY <2>1, <2>8 DEF WalkInv, Visited
      <4>2. \A f \in On(stack) : f.i \in Nat
        <5>1. PICK S : stack \in Seq(S) /\ \A f \in S : IsFrame(f)
          BY <4>1 DEF StackOK, IsStack
        <5>2. \A f \in On(stack) : IsFrame(f)
          BY <5>1 DEF On
        <5> QED
          BY <5>2, FrameFields DEF IsFrame
      <4> QED
        BY <3>1, <4>1, <4>2, OnTop, PopOne DEF StackOK, Top, Notifying, Walking
    <3>3. \A p : \A i \in Nat : Passed(p, i) => Passed(p, i)'
      BY <3>1, <3>2 DEF Passed
    <3>4. ~Passed(w.p, w.i)
      <4>1. \A f \in On(Tail(stack)) : f.op \in Notifying => f.p # w.p
        BY <3>2, <3>10 DEF Free, On, Notifying, Walking
      <4> QED
        BY <3>2, <3>10, <4>1 DEF Passed
    <3>5. Passed(w.p, w.i)'
      BY <3>1, <3>2, <3>10 DEF Passed
    <3>6. ASSUME NEW l \in {"then", "finally"}, NEW j,
                 Handles(w.p, l, j), w.i = Place(w.p, l, j),
                 calls' = [calls EXCEPT ![Chained(w.p, l, j)] = @ + 1]
          PROVE  Fine
      <4> DEFINE c == Chained(w.p, l, j)
      <4>1. c \in Made /\ calls[c] # 1
        BY <2>2, <3>1, <3>4, <3>6, <3>10
      <4>2. \A q \in Promises, m \in {"then", "finally"} : \A k :
                Handles(q, m, k) /\ Chained(q, m, k) = c => q = w.p /\ m = l /\ k = j
        BY <2>2, <3>1, <3>6, <3>10
      <4> HIDE DEF c
      <4>3. calls' = [calls EXCEPT ![c] = 1]
        <5>1. calls[c] = 0
          BY <2>3, <2>4, <4>1
        <5>2. calls' = [calls EXCEPT ![c] = calls[c] + 1]
          BY <3>6 DEF c
        <5> QED
          BY <5>1, <5>2
      <4>4. /\ calls' \in [Promises -> {0, 1}] /\ \A d \in Promises : d # c => calls'[d] = calls[d]
            /\ \A d \in Promises : m_promiseState'[d] = "unused" => calls'[d] = 0
        BY <2>3, <2>4, <4>1, <4>3 DEF Made
      <4>5. \A q, m, k : /\ Handles(q, m, k)' <=> Handles(q, m, k)
                         /\ Chained(q, m, k)' = Chained(q, m, k) /\ Place(q, m, k)' = Place(q, m, k)
        BY <3>1 DEF Handles, Chained, Place, List, lists
      <4>6. \A q \in Promises, m \in {"then", "finally"} : \A k :
                Handles(q, m, k) /\ calls'[Chained(q, m, k)] = 1 => Passed(q, Place(q, m, k))'
        <5> SUFFICES ASSUME NEW q \in Promises, NEW m \in {"then", "finally"}, NEW k,
                            Handles(q, m, k), calls'[Chained(q, m, k)] = 1
                     PROVE  Passed(q, Place(q, m, k))'
          OBVIOUS
        <5>1. CASE Chained(q, m, k) = c
          <6>1. q = w.p /\ m = l /\ k = j
            BY <4>2, <5>1
          <6>2. Place(q, m, k)' = w.i
            BY <3>6, <4>5, <6>1
          <6> QED
            BY <3>5, <6>1, <6>2 DEF Passed
        <5>2. CASE Chained(q, m, k) # c
          <6>1. Passed(q, Place(q, m, k)) /\ Place(q, m, k) \in Nat
            BY <2>2, <2>4, <2>20, <4>4, <5>2
          <6> QED
            BY <3>3, <4>5, <6>1 DEF Passed
        <5> QED
          BY <5>1, <5>2
      <4> QED
        BY <1>1, <2>2, <4>4, <4>5, <4>6
    <3> QED
      BY <2>5, <2>8, <3>1, <3>3, <3>6, <3>10 DEF Visited
  <2>9. ASSUME Added PROVE Fine
    <3>1. /\ \A p, i : Passed(p, i) => Passed(p, i)'
          /\ UNCHANGED calls
      BY <2>9 DEF Added, Persist, Passed
    <3>11. PICK p \in Promises : \E cb :
            /\ Idle(p)
            /\ \/ /\ m_thenCallbacks' = [m_thenCallbacks EXCEPT ![p] = Append(@, cb)]
                  /\ UNCHANGED m_finallyCallbacks
                  /\ cb.on = {} \/ Born(cb.chained)
               \/ /\ m_finallyCallbacks' = [m_finallyCallbacks EXCEPT ![p] = Append(@, cb)]
                  /\ UNCHANGED m_thenCallbacks
                  /\ Born(cb.chained)
      BY <2>9 DEF Added
    <3>2. PICK cb :
            /\ Idle(p)
            /\ \/ /\ m_thenCallbacks' = [m_thenCallbacks EXCEPT ![p] = Append(@, cb)]
                  /\ UNCHANGED m_finallyCallbacks
                  /\ cb.on = {} \/ Born(cb.chained)
               \/ /\ m_finallyCallbacks' = [m_finallyCallbacks EXCEPT ![p] = Append(@, cb)]
                  /\ UNCHANGED m_thenCallbacks
                  /\ Born(cb.chained)
      BY <3>11
    <3>3. /\ \A q \in Promises : IsList(m_thenCallbacks[q]) /\ IsList(m_finallyCallbacks[q])
          /\ DOMAIN m_thenCallbacks = Promises /\ DOMAIN m_finallyCallbacks = Promises
      BY <2>1 DEF ListType
    <3> DEFINE s == m_thenCallbacks[p]
               t == m_finallyCallbacks[p]
    <3>4. /\ Len(s) \in Nat /\ DOMAIN s = 1..Len(s) /\ DOMAIN Append(s, cb) = 1..Len(s) + 1
          /\ \A j \in DOMAIN s : Append(s, cb)[j] = s[j]
          /\ Append(s, cb)[Len(s) + 1] = cb
      BY <3>3, AddToList
    <3>5. /\ Len(t) \in Nat /\ DOMAIN t = 1..Len(t) /\ DOMAIN Append(t, cb) = 1..Len(t) + 1
          /\ \A j \in DOMAIN t : Append(t, cb)[j] = t[j]
          /\ Append(t, cb)[Len(t) + 1] = cb
      BY <3>3, AddToList
    <3>6. \A q \in Promises, l \in {"then", "finally"} : \A j : Handles(q, l, j) =>
                /\ Handles(q, l, j)' /\ Chained(q, l, j)' = Chained(q, l, j)
                /\ q # p => Place(q, l, j)' = Place(q, l, j)
      <4>1. CASE m_thenCallbacks' = [m_thenCallbacks EXCEPT ![p] = Append(@, cb)] /\
                 UNCHANGED m_finallyCallbacks
        <5>1. /\ m_thenCallbacks'[p] = Append(s, cb)
              /\ \A q \in Promises : q # p => m_thenCallbacks'[q] = m_thenCallbacks[q]
          BY <3>3, <4>1
        <5> QED
          BY <3>4, <4>1, <5>1 DEF Handles, Chained, Place, List
      <4>2. CASE m_finallyCallbacks' = [m_finallyCallbacks EXCEPT ![p] = Append(@, cb)] /\
                 UNCHANGED m_thenCallbacks
        <5>1. /\ m_finallyCallbacks'[p] = Append(t, cb)
              /\ \A q \in Promises : q # p => m_finallyCallbacks'[q] = m_finallyCallbacks[q]
          BY <3>3, <4>2
        <5> QED
          BY <3>5, <4>2, <5>1 DEF Handles, Chained, Place, List
      <4> QED
        BY <3>2, <4>1, <4>2
    <3> DEFINE Only(m, n) == \A q \in Promises, l \in {"then", "finally"} : \A j :
                Handles(q, l, j)' /\ ~Handles(q, l, j) =>
                    q = p /\ l = m /\ j = n /\ Born(cb.chained) /\ Chained(q, l, j)' = cb.chained
    <3>7. \E m, n : Only(m, n)
      <4>1. CASE /\ m_thenCallbacks' = [m_thenCallbacks EXCEPT ![p] = Append(@, cb)]
                 /\ UNCHANGED m_finallyCallbacks
                 /\ cb.on = {} \/ Born(cb.chained)
        <5>1. /\ m_thenCallbacks'[p] = Append(s, cb)
              /\ \A q \in Promises : q # p => m_thenCallbacks'[q] = m_thenCallbacks[q]
          BY <3>3, <4>1
        <5>2. ASSUME NEW q \in Promises, NEW l \in {"then", "finally"}, NEW j,
                     Handles(q, l, j)', ~Handles(q, l, j)
              PROVE  /\ q = p /\ l = "then" /\ j = Len(s) + 1 /\ Born(cb.chained)
                     /\ Chained(q, l, j)' = cb.chained
          BY <3>4, <4>1, <5>1, <5>2 DEF Handles, Chained, List
        <5>3. Only("then", Len(s) + 1)
          BY <5>2
        <5> HIDE DEF Only
        <5> QED
          BY <5>3
      <4>2. CASE /\ m_finallyCallbacks' = [m_finallyCallbacks EXCEPT ![p] = Append(@, cb)]
                 /\ UNCHANGED m_thenCallbacks
                 /\ Born(cb.chained)
        <5>1. /\ m_finallyCallbacks'[p] = Append(t, cb)
              /\ \A q \in Promises : q # p => m_finallyCallbacks'[q] = m_finallyCallbacks[q]
          BY <3>3, <4>2
        <5>2. ASSUME NEW q \in Promises, NEW l \in {"then", "finally"}, NEW j,
                     Handles(q, l, j)', ~Handles(q, l, j)
              PROVE  /\ q = p /\ l = "finally" /\ j = Len(t) + 1 /\ Born(cb.chained)
                     /\ Chained(q, l, j)' = cb.chained
          BY <3>5, <4>2, <5>1, <5>2 DEF Handles, Chained, List
        <5>3. Only("finally", Len(t) + 1)
          BY <5>2
        <5> HIDE DEF Only
        <5> QED
          BY <5>3
      <4> QED
        BY <3>2, <4>1, <4>2
    <3>8. /\ calls' \in [Promises -> {0, 1}]
          /\ \A c \in Promises : m_promiseState'[c] = "unused" => calls'[c] = 0
      BY <2>3, <2>4, <3>1
    <3>9. ASSUME NEW q \in Promises, NEW l \in {"then", "finally"}, NEW j, Handles(q, l, j)'
          PROVE  /\ Chained(q, l, j)' \in Made'
                 /\ calls'[Chained(q, l, j)'] = 1 => Passed(q, Place(q, l, j))'
      <4>1. CASE Handles(q, l, j)
        <5>1. Chained(q, l, j)' = Chained(q, l, j) /\ Chained(q, l, j) \in Made
          BY <2>2, <3>6, <4>1
        <5>2. ASSUME calls'[Chained(q, l, j)'] = 1 PROVE Passed(q, Place(q, l, j))'
          <6>1. Passed(q, Place(q, l, j))
            BY <2>2, <3>1, <4>1, <5>1, <5>2
          <6>2. Place(q, l, j)' = Place(q, l, j)
            BY <3>2, <3>6, <4>1, <6>1 DEF Passed, Idle
          <6> QED
            BY <3>1, <6>1, <6>2 DEF Passed
        <5> QED
          BY <1>1, <5>1, <5>2
      <4>2. CASE ~Handles(q, l, j)
        <5>1. Born(cb.chained) /\ Chained(q, l, j)' = cb.chained
          BY <3>7, <3>9, <4>2
        <5> QED
          BY <2>3, <3>1, <5>1 DEF Born, Made
      <4> QED
        BY <4>1, <4>2
    <3>10. ASSUME NEW q \in Promises, NEW l \in {"then", "finally"}, NEW j, Handles(q, l, j)',
                  NEW r \in Promises, NEW m \in {"then", "finally"}, NEW k, Handles(r, m, k)',
                  Chained(r, m, k)' = Chained(q, l, j)'
           PROVE  r = q /\ m = l /\ k = j
      <4>1. \A u \in Promises, h \in {"then", "finally"} : \A i :
                Handles(u, h, i) => Chained(u, h, i)' = Chained(u, h, i) /\ Chained(u, h, i) \in Made
        BY <2>2, <3>6
      <4>2. Born(cb.chained) => cb.chained \notin Made
        BY DEF Born, Made
      <4>3. CASE Handles(q, l, j) /\ Handles(r, m, k)
        BY <2>2, <3>10, <4>1, <4>3
      <4>4. CASE ~Handles(q, l, j) \/ ~Handles(r, m, k)
        BY <3>7, <3>10, <4>1, <4>2, <4>4
      <4> QED
        BY <4>3, <4>4
    <3> QED
      BY <3>8, <3>9, <3>10
  <2>10. Fine
    BY <1>3, <2>1, <2>6, <2>7, <2>8, <2>9, HandlerMoves
  <2> QED
    BY <2>10 DEF HandlerInv
<1> QED
  BY <1>3 DEF OnceInv

LEMMA HandlerInit == Init => ListInv /\ OnceInv
<1> SUFFICES ASSUME Init PROVE ListInv /\ OnceInv
  OBVIOUS
<1>1. IsList(<<>>)
  BY EmptySeq DEF IsList
<1>2. ListInv
  BY <1>1 DEF Init, ListInv, ListType
<1>3. \A p \in Promises : \A l, j : ~Handles(p, l, j)
  BY DEF Init, Handles, List
<1>4. HandlerInv
  BY <1>3 DEF Init, HandlerInv
<1> QED
  BY <1>2, <1>4 DEF OnceInv

(* As long as no promise is chained from under the walk of its own lists,  *)
(* a handler runs at most once, whichever of the calls that walk the lists *)
(* gets to it and whatever else handlers, hooks and coroutines do.         *)
THEOREM HandlersRunOnce == Spec => []OnlyRechainingRepeats
<1>1. Init => AllsInv /\ WalkInv /\ ListInv /\ OnceInv
  BY AllsInit, WalkInit, HandlerInit
<1>2. StateType /\ AllsInv /\ WalkInv /\ ListInv /\ OnceInv /\ [Next]_vars
         => AllsInv' /\ WalkInv' /\ ListInv' /\ OnceInv'
  BY AllsStep, WalkStep, ListStep, HandlerStep
<1>3. OnceInv => OnlyRechainingRepeats
  BY DEF OnceInv, HandlerInv, OnlyRechainingRepeats, HandlersOnce
<1> QED
  BY <1>1, <1>2, <1>3, StatesAreTyped, PTL DEF Spec

-----------------------------------------------------------------------------
(* A cancellation goes up.                                                 *)

Consumers(q) == On(m_consumerRefs[q])
Asked(q) == \E f \in On(stack) : f.op = "cancel" /\ f.p = q
Leaving(c) == \E f \in On(stack) : f.op \in {"cancelled", "down"} /\ f.p = c

RefType ==
    /\ DOMAIN m_parentRef = Promises /\ DOMAIN m_consumerRefs = Promises
    /\ \A q \in Promises : IsList(m_consumerRefs[q])

(* A consumer that may still tell a pending promise refers to it, and when *)
(* all have been cancelled one is about to, or one has.                    *)
Loyal(q) ==
    \A c \in Consumers(q) \ strayed : isPending(c) \/ Leaving(c) => m_parentRef[c] = q
Heard(q) ==
    Consumers(q) # {} /\ (\A c \in Consumers(q) : isCancelled(c) /\ c \notin strayed)
        => Asked(q) \/ \E c \in Consumers(q) : Leaving(c)

CancelInv ==
    Intact =>
        /\ RefType
        /\ \A q \in Promises : Consumers(q) \subseteq Made
        /\ \A q \in Promises : m_promiseState[q] = "unused" => Consumers(q) = {}
        /\ \A q \in Promises : isPending(q) => Loyal(q) /\ Heard(q)

(* What a step does to the links and to the calls that follow them.        *)
Calm(f) == IsFrame(f) /\ f.op \notin {"cancelled", "down"}
SameLeaving == \A c : Leaving(c)' <=> Leaving(c)
StillAsked == \A q : isPending(q)' /\ Asked(q) => Asked(q)'

Apart ==
    /\ UNCHANGED <<links, strayed>> /\ SameLeaving /\ StillAsked
    /\ \A p \in Promises : /\ isPending(p)' => isPending(p) \/ Born(p)
                           /\ isCancelled(p)' => isCancelled(p)
Linked ==
    /\ UNCHANGED strayed /\ SameLeaving /\ StillAsked
    /\ \E p \in Made, c \in Promises : Born(c) /\ promise_wireLinks(p, c)
Adopted ==
    /\ UNCHANGED m_promiseState /\ SameLeaving /\ StillAsked
    /\ \E p \in Promises, inner \in Promises :
        /\ p # inner /\ isPending(p) /\ isPending(inner)
        /\ m_parentRef' = [m_parentRef EXCEPT ![p] = inner]
        /\ m_consumerRefs' = [m_consumerRefs EXCEPT ![inner] = Append(@, p)]
        /\ LET old == m_parentRef[p] IN
           strayed' = IF old \notin {None, inner} /\ isPending(old)
                      THEN strayed \cup {p} ELSE strayed
Left ==
    /\ UNCHANGED <<links, strayed>> /\ StillAsked
    /\ \E c \in Promises :
        /\ isPending(c) /\ m_promiseState' = [m_promiseState EXCEPT ![c] = "Cancelled"]
        /\ \A d : Leaving(d)' <=> Leaving(d) \/ d = c
Told ==
    /\ UNCHANGED <<m_promiseState, links, strayed>> /\ StillAsked
    /\ \E c : /\ \A d : /\ Leaving(d)' => Leaving(d)
                        /\ Leaving(d) => d = c \/ Leaving(d)'
              /\ LET q == m_parentRef[c] IN
                 \A p : p = q /\ q # None /\ isPending(q) /\ AllConsumersCancelled(q) => Asked(p)'
Released ==
    /\ UNCHANGED <<m_promiseState, strayed>> /\ SameLeaving /\ StillAsked
    /\ \E p \in Promises :
        /\ m_promiseState[p] \in Settled /\ ~Leaving(p)
        /\ m_parentRef' = [m_parentRef EXCEPT ![p] = None]
        /\ m_consumerRefs' = [m_consumerRefs EXCEPT ![p] = <<>>]

LEMMA CalmCalls ==
    /\ \A f : Quiet(f) => Calm(f)
    /\ \A c, op, v : op \notin {"cancelled", "down"} => Calm(Frame(op, c, 1, v)) /\ Calm(Call(op, c))
    /\ \A c, what : Calm(Script(c, what))
    /\ \A p, c : Calm(Propagate(p, c))
<1>1. \A f : Quiet(f) => Calm(f)
  BY DEF Quiet, Calm, Walking
<1>2. \A c, op, v : op \notin {"cancelled", "down"} => Calm(Frame(op, c, 1, v)) /\ Calm(Call(op, c))
  BY FrameFields, 1 \in Nat \ {0} DEF Call, Calm
<1> QED
  BY <1>1, <1>2, CallsAreQuiet

LEMMA CancelMoves ==
    ASSUME StateType, AllsInv, WalkInv, [Next]_vars, Intact'
    PROVE  Apart \/ Linked \/ Adopted \/ Left \/ Told \/ Released
<1>0. /\ Intact /\ StackOK(m_promiseState, stack) /\ IsStack(stack)
      /\ ScriptStep \/ PromiseStep \/ UNCHANGED vars
  BY DefinedBefore
<1>1. CASE UNCHANGED vars
  BY <1>1 DEF vars, ghosts, Apart, SameLeaving, StillAsked, Leaving, Asked, isPending, isCancelled
<1>10. UNCHANGED m_promiseState =>
           \A p \in Promises : /\ isPending(p)' => isPending(p) \/ Born(p)
                               /\ isCancelled(p)' => isCancelled(p)
  BY DEF isPending, isCancelled
<1>11. ASSUME NEW p \in Promises, NEW state, state # "Cancelled",
              m_promiseState' = [m_promiseState EXCEPT ![p] = state],
              state = "Pending" => m_promiseState[p] = "unused"
       PROVE  \A q \in Promises : /\ isPending(q)' => isPending(q) \/ Born(q)
                                  /\ isCancelled(q)' => isCancelled(q)
  BY <1>11 DEF StateType, isPending, isCancelled, Born
<1>2. CASE ScriptStep
  <2>1. Intact /\ StackOK(m_promiseState, stack) /\ IsStack(stack)
    BY <1>0
  <2>2. \A f : Calm(f) /\ stack' = <<f>> \o stack => SameLeaving /\ StillAsked
    <3> SUFFICES ASSUME NEW f, Calm(f), stack' = <<f>> \o stack PROVE SameLeaving /\ StillAsked
      OBVIOUS
    <3>1. On(stack') = {f} \cup On(stack)
      BY <2>1, OnPush
    <3> QED
      BY <3>1 DEF SameLeaving, StillAsked, Leaving, Asked, Calm
  <2>3. UNCHANGED stack => SameLeaving /\ StillAsked
    BY DEF SameLeaving, StillAsked, Leaving, Asked
  <2>4. \A p, c : stack' = NotifyIfSettled(p, c) \o stack => SameLeaving /\ StillAsked
    <3>1. \A p, c : \/ NotifyIfSettled(p, c) = <<>>
                    \/ \E f : Calm(f) /\ NotifyIfSettled(p, c) = <<f>>
      BY CalmCalls DEF NotifyIfSettled
    <3>2. <<>> \o stack = stack
      BY <2>1, PushNone
    <3> QED
      BY <2>2, <2>3, <3>1, <3>2
  <2>5. ASSUME stack # <<>>, Top.op = "script",
               NEW f, Calm(f), Leave \/ Continue(<<>>) \/ Continue(<<f>>)
        PROVE  SameLeaving /\ StillAsked
    <3>1. On(stack) = {Top} \cup On(Tail(stack)) /\ IsStack(Tail(stack))
      BY <2>1, <2>5, OnTop, PopOne DEF Top, StackOK
    <3>2. /\ On(<<>> \o Tail(stack)) = On(Tail(stack))
          /\ On(<<f>> \o Tail(stack)) = {f} \cup On(Tail(stack))
      BY <3>1, OnPush
    <3>3. On(stack') = On(Tail(stack)) \/ On(stack') = {f} \cup On(Tail(stack))
      BY <2>5, <3>2 DEF Leave, Continue
    <3> QED
      BY <2>5, <3>1, <3>3 DEF SameLeaving, StillAsked, Leaving, Asked, Calm
  <2>6. ASSUME NEW p \in Promises, NEW c \in Promises,
               (\E on : AndThen(p, c, on)) \/ (\E called : Finally(p, c, called))
        PROVE  Linked
    <3>1. /\ p \in Made /\ m_promiseState[c] = "unused" /\ promise_wireLinks(p, c)
          /\ stack' = NotifyIfSettled(p, c) \o stack /\ UNCHANGED strayed
      BY <2>6 DEF AndThen, Finally, Known, Fresh
    <3>2. Born(c)
      BY <3>1 DEF Born, StateType, promise_wireLinks
    <3> QED
      BY <2>4, <3>1, <3>2 DEF Linked
  <2>7. ASSUME NEW p \in Promises, New(p) \/ lua_async(p) \/ All(p) PROVE Apart
    <3>1. /\ m_promiseState[p] = "unused" /\ m_promiseState' = [m_promiseState EXCEPT ![p] = "Pending"]
          /\ UNCHANGED <<links, strayed>>
          /\ UNCHANGED stack \/ \E f : Calm(f) /\ stack' = <<f>> \o stack
      BY <2>7, CalmCalls DEF New, lua_async, All, Fresh, ghosts
    <3> QED
      BY <1>11, <2>2, <2>3, <3>1 DEF Apart
  <2>8. ASSUME NEW p, Cancel(p) \/ (\E v : Settle(p, v)) \/ OnCancel(p) PROVE Apart
    <3>1. /\ UNCHANGED <<m_promiseState, links, strayed>>
          /\ UNCHANGED stack \/ \E f : Calm(f) /\ stack' = <<f>> \o stack
      BY <2>8, CalmCalls DEF Cancel, Settle, OnCancel, ghosts
    <3> QED
      BY <1>10, <2>2, <2>3, <3>1 DEF Apart
  <2>9. ASSUME NEW p, (\E v : Return(v)) \/ Throw \/ lua_await(p) PROVE Apart
    <3>1. /\ UNCHANGED <<m_promiseState, links, strayed>> /\ stack # <<>> /\ Top.op = "script"
          /\ \E f : Calm(f) /\ (Leave \/ Continue(<<>>) \/ Continue(<<f>>))
      <4>1. CASE lua_await(p)
        <5>1. Calm(Script(p, "hook"))
          BY CalmCalls
        <5> QED
          BY <4>1, <5>1 DEF lua_await, Awaitable, Running, ghosts
      <4>2. CASE Throw
        BY <4>2, CalmCalls DEF Throw, Running, ghosts
      <4>3. ASSUME NEW v, Return(v)
            PROVE  \E f : Calm(f) /\ (Leave \/ Continue(<<>>) \/ Continue(<<f>>))
        <5>1. \E f : Calm(f) /\ (Continue(<<>>) \/ Continue(<<f>>))
          <6>1. CASE Top.v = "hook"
            BY <4>3, <6>1, CalmCalls DEF Return
          <6>2. CASE Top.v = "finally"
            BY <4>3, <6>2, CalmCalls DEF Return
          <6>3. CASE Top.v \notin {"hook", "finally"}
            BY <4>3, <6>3, CalmCalls DEF Return
          <6> QED
            BY <6>1, <6>2, <6>3
        <5> QED
          BY <5>1
      <4>4. ASSUME NEW v, Return(v)
            PROVE  UNCHANGED <<m_promiseState, links, strayed>> /\ stack # <<>> /\ Top.op = "script"
        BY <4>4 DEF Return, Running, ghosts
      <4> QED
        BY <2>9, <4>1, <4>2, <4>3, <4>4
    <3> QED
      BY <1>10, <2>5, <3>1 DEF Apart
  <2> QED
    BY <1>2, <2>6, <2>7, <2>8, <2>9 DEF ScriptStep
<1>3. CASE PromiseStep
  <2> DEFINE t == Tail(stack)
             next == [Top EXCEPT !.i = @ + 1]
  <2>1. Intact /\ stack # <<>> /\ StackOK(m_promiseState, stack) /\ IsStack(stack)
    BY <1>0, <1>3, FramesRun
  <2>2. /\ On(stack) = {Top} \cup On(t) /\ IsStack(t) /\ IsFrame(Top) /\ Good(m_promiseState, Top)
        /\ Top.op \in Walking => Free(t, Top.p)
    BY <2>1, OnTop, PopOne DEF Top, StackOK
  <2>3. IsFrame(next) /\ next.op = Top.op /\ next.p = Top.p
    BY <2>2, NextPlace
  <2>4. /\ Leave => On(stack') = On(t)
        /\ Continue(<<>>) => On(stack') = On(t)
        /\ \A f : Continue(<<f>>) => On(stack') = {f} \cup On(t)
        /\ \A f, g : IsFrame(f) /\ IsFrame(g) /\ Continue(<<f, g>>) => On(stack') = {f, g} \cup On(t)
    <3>1. On(<<>> \o t) = On(t) /\ \A f : On(<<f>> \o t) = {f} \cup On(t)
      BY <2>2, OnPush
    <3>2. \A f, g : IsFrame(f) /\ IsFrame(g) => On(<<f, g>> \o t) = {f, g} \cup On(t)
      BY <2>2, OnPushTwo
    <3> QED
      BY <3>1, <3>2 DEF Leave, Continue
  <2> HIDE DEF next
  (* Calls that no one asks for, or leaves by, come and go.                *)
  <2>5. ASSUME NEW f, NEW g, Calm(f), Calm(g), Calm(Top),
               Top.op = "cancel" => \E p : Top.p = p /\ ~isPending(p)',
               Leave \/ Continue(<<>>) \/ Continue(<<f>>) \/ Continue(<<f, g>>)
        PROVE  SameLeaving /\ StillAsked
    <3>1. \/ On(stack') = On(t) \/ On(stack') = {f} \cup On(t)
          \/ On(stack') = {f, g} \cup On(t)
      BY <2>4, <2>5 DEF Calm
    <3>2. SameLeaving
      BY <2>2, <2>5, <3>1 DEF SameLeaving, Leaving, Calm
    <3>3. StillAsked
      BY <2>2, <2>5, <3>1 DEF StillAsked, Asked
    <3> QED
      BY <3>2, <3>3
  <2>6. Top.op \notin {"cancelled", "down"} => Calm(Top) /\ Calm(next)
    BY <2>2, <2>3 DEF Calm
  <2>7. ASSUME NEW p, ResolveIgnored \/ (reject(p) /\ ~isPending(p)) PROVE Apart
    <3>1. UNCHANGED <<m_promiseState, links, strayed>> /\ Leave /\ Top.op \in {"resolve", "reject"}
      BY <2>7 DEF ResolveIgnored, reject, Running, ghosts
    <3> QED
      BY <1>10, <2>5, <2>6, <3>1 DEF Apart
  <2>8. ASSUME NEW p \in Promises, ResolveValue(p) \/ (reject(p) /\ isPending(p)) PROVE Apart
    <3>1. /\ UNCHANGED <<links, strayed>> /\ Top.op \in {"resolve", "reject"}
          /\ Continue(<<Call("notify", p)>>)
          /\ \E state \in {"Fulfilled", "Rejected"} :
                m_promiseState' = [m_promiseState EXCEPT ![p] = state]
      BY <2>8 DEF ResolveValue, Resolving, reject, Running, ghosts
    <3> QED
      BY <1>11, <2>5, <2>6, <3>1, CalmCalls DEF Apart
  <2>9. ASSUME NEW p, NEW inner, ResolveSettled(p, inner) PROVE Apart
    <3>1. /\ UNCHANGED <<m_promiseState, links, strayed>> /\ Top.op = "resolve"
          /\ \E f : Calm(f) /\ Continue(<<f>>)
      BY <2>9, CalmCalls DEF ResolveSettled, Resolving, Running, Settled, isCancelled
    <3> QED
      BY <1>10, <2>5, <2>6, <3>1 DEF Apart
  <2>10. ASSUME NEW p \in Promises, NEW inner \in Promises, ResolveAdopts(p, inner) PROVE Adopted
    <3>1. Leave /\ Top.op = "resolve" /\ UNCHANGED m_promiseState
      BY <2>10 DEF ResolveAdopts, Resolving, Running
    <3>2. SameLeaving /\ StillAsked
      BY <2>5, <2>6, <3>1
    <3> QED
      BY <2>10, <3>1, <3>2 DEF ResolveAdopts, Resolving, Adopted
  <2>11. ASSUME NEW p, NotifyThen(p) \/ NotifyFinally(p) PROVE Apart
    <3>1. /\ UNCHANGED <<m_promiseState, links, strayed>> /\ Top.op \in {"notify", "renotify"}
          /\ \E g : Calm(g) /\ Continue(<<g, next>>)
      <4>1. CASE NotifyThen(p)
        <5> DEFINE cb == m_thenCallbacks[p][Top.i]
                   handled == m_promiseState[p] \in cb.on
                   g == CASE cb.kind = "await" -> Script(cb.chained, "coroutine")
                          [] cb.kind = "all" -> Call(IF m_promiseState[p] = "Fulfilled"
                                                     THEN "allFulfilled" ELSE "allRejected",
                                                     cb.chained)
                          [] cb.kind = "then" /\ handled -> Script(cb.chained, "handler")
                          [] OTHER -> Propagate(p, cb.chained)
        <5>0. ~Resumed(p)
          BY <2>1, <4>1, NotResumed DEF NotifyThen, Running
        <5>1. Continue(<<g, next>>)
          BY <4>1, <5>0, Zenon DEF NotifyThen, next
        <5>2. Calm(g)
          <6>1. CASE cb.kind = "await"
            BY <6>1, CalmCalls
          <6>2. CASE cb.kind = "all"
            BY <6>2, CalmCalls
          <6>3. CASE cb.kind = "then" /\ handled
            BY <6>3, CalmCalls
          <6>4. CASE cb.kind \notin {"await", "all"} /\ ~(cb.kind = "then" /\ handled)
            BY <6>4, CalmCalls
          <6> QED
            BY <6>1, <6>2, <6>3, <6>4
        <5> HIDE DEF g
        <5> QED
          BY <4>1, <5>1, <5>2 DEF NotifyThen, Running
      <4>2. CASE NotifyFinally(p)
        <5> DEFINE cb == m_finallyCallbacks[p][Top.i - Len(m_thenCallbacks[p])]
                   g == IF cb.called THEN Script(cb.chained, "finally") ELSE Propagate(p, cb.chained)
        <5>1. Continue(<<g, next>>)
          BY <4>2 DEF NotifyFinally, next
        <5>2. Calm(g)
          BY CalmCalls
        <5> HIDE DEF g
        <5> QED
          BY <4>2, <5>1, <5>2 DEF NotifyFinally, Running
      <4> QED
        BY <2>11, <4>1, <4>2
    <3> QED
      BY <1>10, <2>5, <2>6, <3>1 DEF Apart
  <2>12. ASSUME NEW p \in Promises, NotifyEnds(p) \/ CancelEnds(p) PROVE Apart \/ Released
    <3>1. /\ Leave /\ Top.p = p /\ UNCHANGED <<m_promiseState, strayed>>
          /\ Top.op \in {"notify", "renotify", "drop"}
      BY <2>12 DEF NotifyEnds, CancelEnds, Running, ghosts
    <3>2. SameLeaving /\ StillAsked
      BY <2>5, <2>6, <3>1
    <3>3. CASE Top.op = "renotify"
      <4>1. UNCHANGED links
        BY <2>12, <3>3 DEF NotifyEnds, CancelEnds, Running
      <4> QED
        BY <1>10, <3>1, <3>2, <4>1 DEF Apart
    <3>4. CASE Top.op # "renotify"
      <4>1. promise_cleanupLinks(p)
        BY <2>12, <3>1, <3>4 DEF NotifyEnds, CancelEnds, Running
      <4>2. m_promiseState[p] \in Settled
        BY <2>2, <3>1 DEF Good, Walking
      <4>3. ~Leaving(p)
        BY <2>2, <3>1 DEF Leaving, Free, On, Walking
      <4> QED
        BY <3>1, <3>2, <4>1, <4>2, <4>3 DEF Released, promise_cleanupLinks
    <3> QED
      BY <3>3, <3>4
  <2>13. ASSUME NEW p \in Promises, CancelStarts(p) PROVE Apart \/ Left
    <3>1. Top.op = "cancel" /\ Top.p = p /\ UNCHANGED <<links, strayed>>
      BY <2>13 DEF CancelStarts, Running, ghosts
    <3>2. CASE ~isPending(p)
      <4>1. Leave /\ UNCHANGED m_promiseState
        BY <2>13, <3>2 DEF CancelStarts
      <4>2. ~isPending(p)'
        BY <3>2, <4>1 DEF isPending
      <4> QED
        BY <1>10, <2>5, <2>6, <3>1, <4>1, <4>2 DEF Apart
    <3>3. CASE isPending(p)
      <4>1. /\ m_promiseState' = [m_promiseState EXCEPT ![p] = "Cancelled"]
            /\ \/ \E g : Calm(g) /\ Continue(<<g, Call("cancelled", p)>>)
               \/ Continue(<<Call("down", p)>>)
        <5>1. Calm(IF alls[p].hooked THEN Frame("allCancel", p, 1, p) ELSE Script(p, "hook"))
          BY CalmCalls
        <5> QED
          BY <2>13, <3>3, <5>1 DEF CancelStarts
      <4>2. \A op : IsFrame(Call(op, p)) /\ Call(op, p).op = op /\ Call(op, p).p = p
        BY FrameFields, 1 \in Nat \ {0} DEF Call
      <4>3. \E g, h : /\ h.op \in {"cancelled", "down"} /\ h.p = p
                      /\ g.op \notin {"cancelled", "down"} \/ g = h
                      /\ On(stack') = {g, h} \cup On(t)
        <5>1. ASSUME NEW g, Calm(g), Continue(<<g, Call("cancelled", p)>>)
              PROVE  On(stack') = {g, Call("cancelled", p)} \cup On(t)
          BY <2>4, <4>2, <5>1 DEF Calm
        <5>2. Continue(<<Call("down", p)>>) =>
                  On(stack') = {Call("down", p), Call("down", p)} \cup On(t)
          BY <2>4
        <5> QED
          BY <4>1, <4>2, <5>1, <5>2 DEF Calm
      <4>4. \A d : Leaving(d)' <=> Leaving(d) \/ d = p
        BY <2>2, <3>1, <4>3 DEF Leaving
      <4>5. StillAsked
        BY <2>2, <3>1, <4>1, <4>3 DEF StillAsked, Asked, StateType, isPending
      <4> QED
        BY <3>1, <3>3, <4>1, <4>4, <4>5 DEF Left
    <3> QED
      BY <3>2, <3>3
  <2>14. ASSUME NEW p, HookCalled(p) PROVE Apart
    <3>1. /\ Top.op = "cancelled" /\ Top.p = p /\ UNCHANGED <<m_promiseState, links, strayed>>
          /\ Continue(<<Call("down", p)>>)
      BY <2>14 DEF HookCalled, Running, ghosts
    <3>2. On(stack') = {Call("down", p)} \cup On(t) /\ Call("down", p).op = "down"
          /\ Call("down", p).p = p
      BY <2>4, <3>1 DEF Call, Frame
    <3> HIDE DEF t
    <3>3. SameLeaving /\ StillAsked
      BY <2>2, <3>1, <3>2 DEF SameLeaving, StillAsked, Leaving, Asked
    <3> QED
      BY <1>10, <3>1, <3>3 DEF Apart
  <2>15. ASSUME NEW p, CancelLinked(p), Top.i <= Len(m_consumerRefs[p]) PROVE Apart
    <3>1. /\ Top.op = "down" /\ Top.p = p /\ UNCHANGED <<m_promiseState, links, strayed>>
          /\ \E c : Continue(<<Call("cancel", c), next>>)
      BY <2>15 DEF CancelLinked, Running, next, ghosts
    <3>2. PICK c : On(stack') = {Call("cancel", c), next} \cup On(t)
      BY <2>3, <2>4, <3>1, CalmCalls DEF Calm
    <3>3. Call("cancel", c).op = "cancel"
      BY DEF Call, Frame
    <3>4. SameLeaving /\ StillAsked
      BY <2>2, <2>3, <3>1, <3>2, <3>3 DEF SameLeaving, StillAsked, Leaving, Asked
    <3> QED
      BY <1>10, <3>1, <3>4 DEF Apart
  <2>16. ASSUME NEW p, CancelLinked(p), ~(Top.i <= Len(m_consumerRefs[p])) PROVE Told
    <3> DEFINE q == m_parentRef[p]
               up == q # None /\ isPending(q) /\ AllConsumersCancelled(q)
    <3>1. /\ Top.op = "down" /\ Top.p = p /\ UNCHANGED <<m_promiseState, links, strayed>>
          /\ IF up THEN Continue(<<Call("cancel", q), Call("drop", p)>>)
                   ELSE Continue(<<Call("drop", p)>>)
      BY <2>16 DEF CancelLinked, Running, ghosts
    <3>2. /\ \A op, c : Call(op, c).op = op /\ Call(op, c).p = c
          /\ IsFrame(Call("cancel", q)) /\ IsFrame(Call("drop", p))
      BY CalmCalls DEF Call, Frame, Calm
    <3>3. On(stack') = (IF up THEN {Call("cancel", q)} ELSE {}) \cup {Call("drop", p)} \cup On(t)
      <4>1. CASE up
        BY <2>4, <3>1, <3>2, <4>1
      <4>2. CASE ~up
        BY <2>4, <3>1, <4>2
      <4> QED
        BY <4>1, <4>2
    <3> HIDE DEF up, q
    <3>4. /\ \A d : /\ Leaving(d)' => Leaving(d)
                    /\ Leaving(d) => d = p \/ Leaving(d)'
          /\ StillAsked
          /\ \A c : up /\ c = q => Asked(c)'
      <4>1. \A f \in On(stack') : f.op \in {"cancelled", "down"} => f \in On(t)
        BY <3>2, <3>3
      <4>2. On(t) \subseteq On(stack')
        BY <3>3
      <4>3. \A d : /\ Leaving(d)' => Leaving(d)
                   /\ Leaving(d) => d = p \/ Leaving(d)'
        BY <2>2, <3>1, <4>1, <4>2 DEF Leaving
      <4>4. StillAsked
        BY <2>2, <3>1, <4>2 DEF StillAsked, Asked
      <4>5. up => Call("cancel", q) \in On(stack')
        BY <3>3
      <4>6. \A c : up /\ c = q => Asked(c)'
        BY <3>2, <4>5 DEF Asked
      <4> QED
        BY <4>3, <4>4, <4>6
    <3>5. \E c : c = m_parentRef[p]
      OBVIOUS
    <3> QED
      BY <3>1, <3>4, <3>5 DEF Told, up, q
  <2>17. ASSUME NEW p, CancelCallback(p) PROVE Apart
    <3>1. /\ Top.op = "drop" /\ UNCHANGED <<m_promiseState, links, strayed>>
          /\ Continue(<<next>>) \/ \E c : Continue(<<Call("reject", c), next>>)
      BY <2>17, OneByOne, ZenonT(40) DEF CancelCallback, Running, Continue, next, ghosts
    <3> QED
      BY <1>10, <2>5, <2>6, <3>1, CalmCalls, Zenon DEF Apart
  <2>18. ASSUME NEW r \in Promises, AllInput(r) PROVE Linked
    <3> DEFINE p == alls[r].inputs[Top.i]
               c == alls[r].chained[Top.i]
    <3>1. /\ Top.op = "all" /\ Top.i <= Len(alls[r].inputs) /\ UNCHANGED strayed
          /\ m_promiseState[c] = "unused" /\ promise_wireLinks(p, c)
          /\ Continue(NotifyIfSettled(p, c) \o <<next>>)
      BY <2>18 DEF AllInput, Running, next
    <3>2. p \in Made /\ c \in Promises
      <4>1. /\ alls[r].inputs \in Seq(Made) /\ alls[r].chained \in Seq(Promises)
            /\ Len(alls[r].inputs) = Len(alls[r].chained)
        BY TableFields DEF AllsInv
      <4>2. Top.i \in Nat \ {0}
        BY <2>2, NextPlace
      <4> QED
        BY <3>1, <4>1, <4>2
    <3>3. Born(c)
      BY <3>1, <3>2 DEF Born, StateType, promise_wireLinks
    <3> HIDE DEF p, c
    <3>4. Continue(<<next>>) \/ \E f : Calm(f) /\ Continue(<<f, next>>)
      BY <3>1, OneByOne, CalmCalls DEF NotifyIfSettled
    <3> QED
      BY <2>5, <2>6, <3>1, <3>2, <3>3, <3>4 DEF Linked
  <2>19. ASSUME NEW r, AllEnds(r) \/ AllFulfilled(r) \/ AllRejected(r) \/ AllRelease(r) \/ AllCancel(r)
         PROVE  Apart
    <3>1. /\ Top.op \in {"all", "allFulfilled", "allRejected", "allRelease", "allCancel"}
          /\ UNCHANGED <<m_promiseState, links, strayed>>
      BY <2>19 DEF AllEnds, AllFulfilled, AllRejected, AllRelease, AllCancel, Closure, Running, ghosts
    <3>2. \/ Leave \/ Continue(<<>>) \/ Continue(ClosureReturns)
          \/ \E c : Continue(<<Call("reject", c), Frame("allCancel", Top.p, 1, r)>>)
          \/ \E c : Continue(<<Frame("resolve", c, 1, Plain), Call("allRelease", Top.p)>>)
          \/ \E c : Continue(<<Call("cancel", c), next>>)
      BY <2>19 DEF AllEnds, AllFulfilled, AllRejected, AllRelease, AllCancel, next
    <3> QED
      BY <1>10, <2>5, <2>6, <3>1, <3>2, CalmCalls, ZenonT(40) DEF Apart, ClosureReturns
  <2>20. ASSUME NEW p \in Promises, ResolveValue(p) \/ reject(p) \/ CancelLinked(p)
         PROVE  Apart \/ Told
    BY <2>7, <2>8, <2>15, <2>16, <2>20
  <2> QED
    BY <1>3, <2>1, <2>7, <2>9, <2>10, <2>11, <2>12, <2>13, <2>14, <2>17, <2>18,
       <2>19, <2>20 DEF PromiseStep
<1> QED
  BY <1>0, <1>1, <1>2, <1>3

LEMMA OneConsumer ==
    ASSUME RefType, NEW p \in Promises, NEW c,
           m_consumerRefs' = [m_consumerRefs EXCEPT ![p] = Append(@, c)]
    PROVE  /\ \A q \in Promises : IsList(m_consumerRefs'[q])
           /\ Consumers(p)' = Consumers(p) \cup {c}
           /\ \A q \in Promises : q # p => Consumers(q)' = Consumers(q)
<1> DEFINE s == m_consumerRefs[p]
           u == Append(s, c)
<1>1. IsList(s)
  BY DEF RefType
<1>2. /\ m_consumerRefs'[p] = u
      /\ \A q \in Promises : q # p => m_consumerRefs'[q] = m_consumerRefs[q]
  BY DEF RefType
<1>3. /\ IsList(u) /\ Len(s) \in Nat
      /\ DOMAIN s = 1..Len(s) /\ DOMAIN u = 1..Len(s) + 1
      /\ \A j \in DOMAIN s : u[j] = s[j]
      /\ u[Len(s) + 1] = c
  BY <1>1, AddToList
<1> HIDE DEF u, s
<1>4. On(u) = On(s) \cup {c}
  <2>1. DOMAIN u = DOMAIN s \cup {Len(s) + 1}
    BY <1>3
  <2> QED
    BY <1>3, <2>1 DEF On
<1> QED
  BY <1>2, <1>3, <1>4 DEF Consumers, RefType, s

LEMMA CancelStep ==
    ASSUME StateType, AllsInv, WalkInv, CancelInv, [Next]_vars
    PROVE  CancelInv'
<1> SUFFICES ASSUME Intact'
             PROVE  /\ RefType'
                    /\ \A q \in Promises : Consumers(q)' \subseteq Made'
                    /\ \A q \in Promises : m_promiseState'[q] = "unused" => Consumers(q)' = {}
                    /\ \A q \in Promises : isPending(q)' => Loyal(q)' /\ Heard(q)'
  BY DEF CancelInv
<1>1. /\ RefType
      /\ \A q \in Promises : Consumers(q) \subseteq Made
      /\ \A q \in Promises : m_promiseState[q] = "unused" => Consumers(q) = {}
      /\ \A q \in Promises : isPending(q) => Loyal(q) /\ Heard(q)
  BY DefinedBefore DEF CancelInv
<1>2. Made \subseteq Made' /\ \A q \in Promises : m_promiseState'[q] = "unused" => q \notin Made
  BY MadeStays DEF Made
<1>3. UNCHANGED links => RefType' /\ \A q : Consumers(q)' = Consumers(q)
  BY <1>1 DEF RefType, links, Consumers
<1>4. \A q \in Promises : /\ isPending(q) => q \in Made /\ ~isCancelled(q)
                          /\ q \notin Made => m_promiseState[q] = "unused"
  BY DEF Made, isPending, isCancelled
<1>5. ASSUME Apart
      PROVE  /\ RefType'
             /\ \A q \in Promises : Consumers(q)' = Consumers(q)
             /\ \A q \in Promises : isPending(q)' => Loyal(q)' /\ Heard(q)'
  <2>1. /\ RefType' /\ (\A q : Consumers(q)' = Consumers(q)) /\ UNCHANGED <<m_parentRef, strayed>>
        /\ SameLeaving /\ StillAsked
    BY <1>3, <1>5 DEF Apart, links
  <2>2. ASSUME NEW q \in Promises, isPending(q)' PROVE Loyal(q)' /\ Heard(q)'
    <3>1. CASE Born(q)
      <4>1. Consumers(q)' = {}
        BY <1>1, <2>1, <3>1 DEF Born
      <4> QED
        BY <4>1 DEF Loyal, Heard
    <3>2. CASE ~Born(q)
      <4>1. isPending(q) /\ Loyal(q) /\ Heard(q)
        BY <1>1, <1>5, <2>2, <3>2 DEF Apart
      <4>2. \A c \in Consumers(q) : /\ isPending(c)' => isPending(c)
                                    /\ isCancelled(c)' => isCancelled(c)
        BY <1>1, <1>5 DEF Apart, Born, Made
      <4>3. Loyal(q)'
        BY <2>1, <4>1, <4>2 DEF Loyal, SameLeaving
      <4>4. Heard(q)'
        BY <2>1, <2>2, <4>1, <4>2 DEF Heard, SameLeaving, StillAsked
      <4> QED
        BY <4>3, <4>4
    <3> QED
      BY <3>1, <3>2
  <2> QED
    BY <2>1, <2>2
<1>6. ASSUME NEW p \in Made, NEW c \in Promises, Born(c), promise_wireLinks(p, c),
             UNCHANGED strayed, SameLeaving, StillAsked
      PROVE  /\ RefType'
             /\ \A q \in Promises : Consumers(q)' \subseteq Made'
             /\ \A q \in Promises : m_promiseState'[q] = "unused" => Consumers(q)' = {}
             /\ \A q \in Promises : isPending(q)' => Loyal(q)' /\ Heard(q)'
  <2>1. p \in Promises /\ c \notin Made /\ p # c /\ c \in Made'
    BY <1>6 DEF Made, Born
  <2>2. /\ \A q \in Promises : IsList(m_consumerRefs'[q])
        /\ Consumers(p)' = Consumers(p) \cup {c}
        /\ \A q \in Promises : q # p => Consumers(q)' = Consumers(q)
    BY <1>1, <1>6, <2>1, OneConsumer DEF promise_wireLinks
  <2>3. RefType' /\ m_parentRef'[c] = p /\ \A d : d # c => m_parentRef'[d] = m_parentRef[d]
    BY <1>1, <1>6, <2>2 DEF RefType, promise_wireLinks
  <2>4. isPending(c)' /\ \A d : d # c => /\ isPending(d)' <=> isPending(d)
                                         /\ isCancelled(d)' <=> isCancelled(d)
    BY <1>6 DEF promise_wireLinks, isPending, isCancelled, StateType
  <2>5. ~isCancelled(c)'
    BY <2>4 DEF isPending, isCancelled
  <2>6. ASSUME NEW q \in Promises, isPending(q)' PROVE Loyal(q)' /\ Heard(q)'
    <3>1. CASE q = c
      <4>1. Consumers(q)' = {}
        BY <1>1, <1>6, <2>1, <2>2, <3>1 DEF Born
      <4> QED
        BY <4>1 DEF Loyal, Heard
    <3>2. CASE q # c
      <4>1. isPending(q) /\ Loyal(q) /\ Heard(q)
        BY <1>1, <2>4, <2>6, <3>2
      <4>2. c \notin Consumers(q)
        BY <1>1, <2>1
      <4>3. CASE q = p
        <5>1. Loyal(q)'
          BY <1>6, <2>2, <2>3, <2>4, <4>1, <4>2, <4>3 DEF Loyal, SameLeaving
        <5>2. Heard(q)'
          BY <2>2, <2>5, <4>3 DEF Heard
        <5> QED
          BY <5>1, <5>2
      <4>4. CASE q # p
        <5>1. Loyal(q)'
          BY <1>6, <2>2, <2>3, <2>4, <4>1, <4>2, <4>4 DEF Loyal, SameLeaving
        <5>2. Heard(q)'
          BY <1>6, <2>2, <2>4, <2>6, <4>1, <4>2, <4>4 DEF Heard, SameLeaving, StillAsked
        <5> QED
          BY <5>1, <5>2
      <4> QED
        BY <4>3, <4>4
    <3> QED
      BY <3>1, <3>2
  <2>7. \A q \in Promises : Consumers(q)' \subseteq Made'
    BY <1>1, <1>2, <2>1, <2>2
  <2>8. ASSUME NEW q \in Promises, m_promiseState'[q] = "unused" PROVE Consumers(q)' = {}
    <3>1. q \notin Made /\ q # p /\ m_promiseState[q] = "unused"
      BY <1>2, <1>4, <2>8
    <3> QED
      BY <1>1, <2>2, <3>1
  <2> QED
    BY <2>3, <2>6, <2>7, <2>8
<1>7. ASSUME NEW p \in Promises, NEW inner \in Promises,
             UNCHANGED m_promiseState, SameLeaving, StillAsked,
             p # inner, isPending(p), isPending(inner),
             m_parentRef' = [m_parentRef EXCEPT ![p] = inner],
             m_consumerRefs' = [m_consumerRefs EXCEPT ![inner] = Append(@, p)],
             LET old == m_parentRef[p] IN
             strayed' = IF old \notin {None, inner} /\ isPending(old)
                        THEN strayed \cup {p} ELSE strayed
      PROVE  /\ RefType'
             /\ \A q \in Promises : Consumers(q)' \subseteq Made'
             /\ \A q \in Promises : m_promiseState'[q] = "unused" => Consumers(q)' = {}
             /\ \A q \in Promises : isPending(q)' => Loyal(q)' /\ Heard(q)'
  <2>1. /\ \A q \in Promises : IsList(m_consumerRefs'[q])
        /\ Consumers(inner)' = Consumers(inner) \cup {p}
        /\ \A q \in Promises : q # inner => Consumers(q)' = Consumers(q)
    BY <1>1, <1>7, OneConsumer
  <2>2. RefType' /\ m_parentRef'[p] = inner /\ \A d : d # p => m_parentRef'[d] = m_parentRef[d]
    BY <1>1, <1>7, <2>1 DEF RefType
  <2>3. \A d : /\ isPending(d)' <=> isPending(d)
               /\ isCancelled(d)' <=> isCancelled(d)
    BY <1>7 DEF isPending, isCancelled
  <2>4. strayed \subseteq strayed'
    BY <1>7
  <2>5. ASSUME NEW q \in Promises, isPending(q)' PROVE Loyal(q)' /\ Heard(q)'
    <3>1. isPending(q) /\ Loyal(q) /\ Heard(q)
      BY <1>1, <2>3, <2>5
    <3>2. CASE q = inner
      <4>1. Loyal(q)'
        BY <1>7, <2>1, <2>2, <2>3, <2>4, <3>1, <3>2 DEF Loyal, SameLeaving
      <4>2. Heard(q)'
        <5>1. p \in Consumers(q)' /\ ~isCancelled(p)'
          BY <1>4, <1>7, <2>1, <2>3, <3>2
        <5> QED
          BY <5>1 DEF Heard
      <4> QED
        BY <4>1, <4>2
    <3>3. CASE q # inner
      <4>1. p \in Consumers(q) => p \in strayed'
        <5>1. p \in Consumers(q) /\ p \notin strayed => m_parentRef[p] = q
          BY <1>7, <3>1 DEF Loyal
        <5> QED
          BY <1>7, <2>4, <3>1, <3>3, <5>1, NoneAssumption
      <4>2. Loyal(q)'
        BY <1>7, <2>1, <2>2, <2>3, <2>4, <3>1, <3>3, <4>1 DEF Loyal, SameLeaving
      <4>3. Heard(q)'
        BY <1>7, <2>1, <2>3, <2>4, <2>5, <3>1, <3>3 DEF Heard, SameLeaving, StillAsked
      <4> QED
        BY <4>2, <4>3
    <3> QED
      BY <3>2, <3>3
  <2>6. \A q \in Promises : Consumers(q)' \subseteq Made'
    BY <1>1, <1>2, <1>4, <1>7, <2>1
  <2>7. ASSUME NEW q \in Promises, m_promiseState'[q] = "unused" PROVE Consumers(q)' = {}
    <3>1. q \notin Made /\ q # inner /\ m_promiseState[q] = "unused"
      BY <1>2, <1>4, <1>7, <2>7
    <3> QED
      BY <1>1, <2>1, <3>1
  <2> QED
    BY <2>2, <2>5, <2>6, <2>7
<1>8. ASSUME Left
      PROVE  /\ RefType'
             /\ \A q \in Promises : Consumers(q)' = Consumers(q)
             /\ \A q \in Promises : isPending(q)' => Loyal(q)' /\ Heard(q)'
  <2>1. /\ RefType' /\ (\A q : Consumers(q)' = Consumers(q)) /\ UNCHANGED <<m_parentRef, strayed>>
        /\ StillAsked
    BY <1>3, <1>8 DEF Left, links
  <2>2. PICK c \in Promises :
          /\ isPending(c) /\ m_promiseState' = [m_promiseState EXCEPT ![c] = "Cancelled"]
          /\ \A d : Leaving(d)' <=> Leaving(d) \/ d = c
    BY <1>8 DEF Left
  <2>3. /\ ~isPending(c)'
        /\ \A d : d # c => /\ isPending(d)' <=> isPending(d)
                           /\ isCancelled(d)' <=> isCancelled(d)
    BY <2>2 DEF isPending, isCancelled, StateType
  <2>4. ASSUME NEW q \in Promises, isPending(q)' PROVE Loyal(q)' /\ Heard(q)'
    <3>1. isPending(q) /\ Loyal(q) /\ Heard(q)
      BY <1>1, <2>3, <2>4
    <3>2. Loyal(q)'
      BY <2>1, <2>2, <2>3, <3>1 DEF Loyal
    <3>3. Heard(q)'
      <4>1. CASE c \in Consumers(q)
        BY <2>1, <2>2, <4>1 DEF Heard
      <4>2. CASE c \notin Consumers(q)
        BY <2>1, <2>2, <2>3, <2>4, <3>1, <4>2 DEF Heard, StillAsked
      <4> QED
        BY <4>1, <4>2
    <3> QED
      BY <3>2, <3>3
  <2> QED
    BY <2>1, <2>4
<1>9. ASSUME Told
      PROVE  /\ RefType'
             /\ \A q \in Promises : Consumers(q)' = Consumers(q)
             /\ \A q \in Promises : isPending(q)' => Loyal(q)' /\ Heard(q)'
  <2>1. /\ RefType' /\ (\A q : Consumers(q)' = Consumers(q)) /\ UNCHANGED <<m_parentRef, strayed>>
        /\ StillAsked
        /\ \A d : (isPending(d)' <=> isPending(d)) /\ (isCancelled(d)' <=> isCancelled(d))
    BY <1>3, <1>9 DEF Told, links, isPending, isCancelled
  <2>2. PICK c : /\ \A d : /\ Leaving(d)' => Leaving(d)
                           /\ Leaving(d) => d = c \/ Leaving(d)'
                 /\ LET q == m_parentRef[c] IN
                    \A p : p = q /\ q # None /\ isPending(q) /\ AllConsumersCancelled(q) => Asked(p)'
    BY <1>9 DEF Told
  <2>3. ASSUME NEW q \in Promises, isPending(q)' PROVE Loyal(q)' /\ Heard(q)'
    <3>1. isPending(q) /\ Loyal(q) /\ Heard(q)
      BY <1>1, <2>1, <2>3
    <3>2. Loyal(q)'
      BY <2>1, <2>2, <3>1 DEF Loyal
    <3>3. ASSUME c \in Consumers(q), Leaving(c),
                 \A d \in Consumers(q) : isCancelled(d) /\ d \notin strayed
          PROVE  Asked(q)'
      <4>1. m_parentRef[c] = q
        BY <3>1, <3>3 DEF Loyal
      <4>2. AllConsumersCancelled(q)
        BY <3>3 DEF AllConsumersCancelled, Consumers, On
      <4> QED
        BY <2>2, <3>1, <4>1, <4>2, NoneAssumption
    <3>4. Heard(q)'
      BY <2>1, <2>2, <2>3, <3>1, <3>3 DEF Heard, StillAsked
    <3> QED
      BY <3>2, <3>4
  <2> QED
    BY <2>1, <2>3
<1>10. ASSUME NEW p \in Promises,
              UNCHANGED <<m_promiseState, strayed>>, SameLeaving, StillAsked,
              m_promiseState[p] \in Settled, ~Leaving(p),
              m_parentRef' = [m_parentRef EXCEPT ![p] = None],
              m_consumerRefs' = [m_consumerRefs EXCEPT ![p] = <<>>]
      PROVE  /\ RefType'
             /\ \A q \in Promises : Consumers(q)' \subseteq Consumers(q)
             /\ \A q \in Promises : isPending(q)' => Loyal(q)' /\ Heard(q)'
  <2>1. IsList(<<>>) /\ On(<<>>) = {}
    BY EmptySeq DEF IsList, On
  <2>2. /\ m_consumerRefs'[p] = <<>>
        /\ \A q \in Promises : q # p => m_consumerRefs'[q] = m_consumerRefs[q]
        /\ \A d : d # p => m_parentRef'[d] = m_parentRef[d]
    BY <1>1, <1>10 DEF RefType
  <2>3. RefType'
    BY <1>1, <1>10, <2>1, <2>2 DEF RefType
  <2>4. Consumers(p)' = {} /\ \A q \in Promises : q # p => Consumers(q)' = Consumers(q)
    BY <2>1, <2>2 DEF Consumers
  <2>5. /\ \A d : (isPending(d)' <=> isPending(d)) /\ (isCancelled(d)' <=> isCancelled(d))
        /\ ~isPending(p)
    BY <1>10 DEF isPending, isCancelled, Settled
  <2>6. ASSUME NEW q \in Promises, isPending(q)' PROVE Loyal(q)' /\ Heard(q)'
    <3>1. isPending(q) /\ Loyal(q) /\ Heard(q) /\ q # p /\ Consumers(q)' = Consumers(q)
      BY <1>1, <2>4, <2>5, <2>6
    <3>2. Loyal(q)'
      BY <1>10, <2>2, <2>5, <3>1 DEF Loyal, SameLeaving
    <3>3. Heard(q)'
      BY <1>10, <2>5, <2>6, <3>1 DEF Heard, SameLeaving, StillAsked
    <3> QED
      BY <3>2, <3>3
  <2> QED
    BY <2>3, <2>4, <2>6
<1>11. ASSUME \A q \in Promises : Consumers(q)' \subseteq Consumers(q)
       PROVE  /\ \A q \in Promises : Consumers(q)' \subseteq Made'
              /\ \A q \in Promises : m_promiseState'[q] = "unused" => Consumers(q)' = {}
  <2>1. ASSUME NEW q \in Promises, m_promiseState'[q] = "unused" PROVE Consumers(q) = {}
    BY <1>1, <1>2, <1>4, <2>1
  <2>2. \A q \in Promises : Consumers(q)' \subseteq Made'
    BY <1>1, <1>2, <1>11
  <2> QED
    BY <1>11, <2>1, <2>2
<1>12. CASE Apart \/ Left \/ Told
  BY <1>5, <1>8, <1>9, <1>11, <1>12
<1>13. CASE Linked
  BY <1>6, <1>13 DEF Linked
<1>14. CASE Adopted
  BY <1>7, <1>14 DEF Adopted
<1>15. CASE Released
  BY <1>10, <1>11, <1>15 DEF Released
<1> QED
  BY <1>12, <1>13, <1>14, <1>15, CancelMoves

LEMMA CancelInit == Init => CancelInv
<1> SUFFICES ASSUME Init PROVE CancelInv
  OBVIOUS
<1>1. IsList(<<>>) /\ On(<<>>) = {}
  BY EmptySeq DEF IsList, On
<1>2. RefType
  BY <1>1 DEF Init, RefType
<1>3. \A q \in Promises : Consumers(q) = {} /\ ~isPending(q)
  BY <1>1 DEF Init, Consumers, isPending
<1> QED
  BY <1>2, <1>3 DEF CancelInv

(* Once no call is under way, a pending promise whose consumers have all   *)
(* been cancelled has been cancelled too, whichever of them went last.     *)
THEOREM CancellationsGoUp == Spec => []CancelGoesUp
<1>1. Init => AllsInv /\ WalkInv /\ CancelInv
  BY AllsInit, WalkInit, CancelInit
<1>2. StateType /\ AllsInv /\ WalkInv /\ CancelInv /\ [Next]_vars
         => AllsInv' /\ WalkInv' /\ CancelInv'
  BY AllsStep, WalkStep, CancelStep
<1>3. WalkInv /\ CancelInv => CancelGoesUp
  <2> SUFFICES ASSUME WalkInv, CancelInv, AtRest, NEW q \in Promises,
                      isPending(q), m_consumerRefs[q] # <<>>
               PROVE  \E k \in DOMAIN m_consumerRefs[q] :
                          LET c == m_consumerRefs[q][k] IN ~isCancelled(c) \/ c \in strayed
    BY DEF CancelGoesUp
  <2>1. RefType /\ Heard(q)
    BY RestIsIntact DEF CancelInv
  <2>2. ~Asked(q) /\ \A c : ~Leaving(c)
    BY DEF AtRest, Asked, Leaving, On
  <2>3. Consumers(q) # {}
    <3>1. PICK S : m_consumerRefs[q] \in Seq(S)
      BY <2>1 DEF RefType, IsList
    <3>2. 1 \in DOMAIN m_consumerRefs[q]
      BY <3>1, EmptySeq
    <3> QED
      BY <3>2 DEF Consumers, On
  <2>4. PICK c \in Consumers(q) : ~isCancelled(c) \/ c \in strayed
    BY <2>1, <2>2, <2>3 DEF Heard
  <2> QED
    BY <2>4 DEF Consumers, On
<1> QED
  BY <1>1, <1>2, <1>3, StatesAreTyped, PTL DEF Spec

-----------------------------------------------------------------------------
(* Promise.all answers for all its inputs.                                 *)

Closures == {"allFulfilled", "allRejected"}
Answered == {"Fulfilled", "Rejected"}

(* The table of a Promise.all: its places, and at each the input and the   *)
(* promise chained from it.                                                *)
Places(r) == DOMAIN alls[r].inputs
Input(r, k) == alls[r].inputs[k]
Link(r, k) == alls[r].chained[k]

(* What a script or a callback may settle with a value of its choice.      *)
Owned(c) == c \in Made \ ChainedByAll /\ origin[c] # "all"

(* What is known when a call is made.  The result of a Promise.all is only *)
(* resolved when all its inputs are fulfilled, and rejected when one is.   *)
FrameOK(f) ==
    /\ f.op \in Notifying => f.p \in Made /\ m_promiseState[f.p] \in Answered
    /\ f.op = "script" /\ f.v # "hook" => Owned(f.p)
    /\ f.op = "resolve" =>
          \/ Owned(f.p)
          \/ /\ f.v = Plain /\ f.p \in Made
             /\ origin[f.p] = "all" =>
                   \A k \in Places(f.p) : m_promiseState[Input(f.p, k)] = "Fulfilled"
    /\ f.op = "reject" =>
          /\ f.p \in Made
          /\ origin[f.p] = "all" =>
                \E k \in Places(f.p) : m_promiseState[Input(f.p, k)] = "Rejected"
    /\ f.op \in Closures \cup {"allRelease"} => f.p \in Made /\ origin[f.p] # "all"
    /\ f.op = "allCancel" => f.p \in Made /\ (f.p # f.v => origin[f.p] # "all")
    /\ f.op \in Closures =>
          /\ calls[f.p] = 1
          /\ \A r \in Promises : \A k \in Places(r) :
                Link(r, k) = f.p =>
                    m_promiseState[Input(r, k)] = IF f.op = "allFulfilled" THEN "Fulfilled"
                                                                           ELSE "Rejected"

(* A closure runs to its end before anything else does.                    *)
OnlyTop == stack # <<>> => \A f \in On(Tail(stack)) : f.op \notin Closures

FramesInv == OnlyTop /\ \A f \in On(stack) : FrameOK(f)

(* Only results of Promise.all have tables, no two places share a chained  *)
(* promise, and the loop will make those that are still to be made.        *)
TableInv ==
    /\ origin \in [Promises -> {"new", "then", "async", "all"}]
    /\ \A r \in Promises :
          /\ m_promiseState[r] = "unused" => origin[r] = "new"
          /\ origin[r] # "all" => Places(r) = {}
          /\ \A k \in Places(r) :
                /\ Link(r, k) \in Made => origin[Link(r, k)] = "then"
                /\ \/ Link(r, k) \in Made
                   \/ \E f \in On(stack) : f.op = "all" /\ f.p = r /\ f.i <= k
    /\ \A r, s \in Promises : \A j \in Places(r), k \in Places(s) :
          Link(r, j) = Link(s, k) => r = s /\ j = k

(* The callbacks of Promise.all hang on its inputs, and the others belong  *)
(* to promises that scripts may settle.                                    *)
ByAll(q, cb) ==
    /\ cb.on = Answered /\ cb.chained \in Made
    /\ \E r \in Promises : \E k \in Places(r) : Link(r, k) = cb.chained /\ Input(r, k) = q
CallbackInv ==
    \A q \in Promises :
        /\ \A j \in DOMAIN m_thenCallbacks[q] :
              LET cb == m_thenCallbacks[q][j] IN
              IF cb.kind = "all" THEN ByAll(q, cb) ELSE Owned(cb.chained)
        /\ \A j \in DOMAIN m_finallyCallbacks[q] : Owned(m_finallyCallbacks[q][j].chained)

(* An input has been counted: its closure has run to the end.              *)
Ran(c) == calls[c] = 1 /\ \A f \in On(stack) : f.op \in Closures => f.p # c
Counted(r) == {k \in Places(r) : Ran(Link(r, k))}
Owing(r) == IF alls[r].bad THEN Len(alls[r].inputs) + 1 ELSE Len(alls[r].inputs)

(* Until it is done, a Promise.all has counted inputs that are fulfilled,  *)
(* and others remain; then its result is settled, or about to be.          *)
CountOK(r) ==
    origin[r] = "all" =>
        IF alls[r].done \/ Places(r) = {}
        THEN isPending(r) => \E f \in On(stack) : f.p = r /\ f.op \in {"resolve", "reject"}
        ELSE /\ alls[r].remaining \in Nat \ {0}
             /\ Cardinality(Counted(r)) + alls[r].remaining = Owing(r)
             /\ \A k \in Counted(r) : m_promiseState[Input(r, k)] = "Fulfilled"
CountInv == \A r \in Promises : CountOK(r)

(* A chained promise that was made has been told, or waits with its input, *)
(* unless that was cancelled.                                              *)
Waits(q, c) ==
    \E j \in DOMAIN m_thenCallbacks[q] :
        m_thenCallbacks[q][j].kind = "all" /\ m_thenCallbacks[q][j].chained = c
SlotInv ==
    /\ \A r \in Promises : \A k \in Places(r) :
          Link(r, k) \in Made =>
              calls[Link(r, k)] = 1 \/ isCancelled(Input(r, k)) \/ Waits(Input(r, k), Link(r, k))
    /\ \A f \in On(stack) : f.op \in Notifying =>
          \A j \in DOMAIN m_thenCallbacks[f.p] :
              j < f.i /\ m_thenCallbacks[f.p][j].kind = "all" =>
                  calls[m_thenCallbacks[f.p][j].chained] = 1
    /\ \A q \in Promises : m_promiseState[q] \in Answered /\ m_thenCallbacks[q] # <<>> =>
          \E f \in On(stack) : f.op \in Notifying /\ f.p = q

(* What was answered was so for the inputs.                                *)
ResultInv ==
    \A r \in Promises : origin[r] = "all" =>
        /\ m_promiseState[r] = "Fulfilled" =>
              \A k \in Places(r) : m_promiseState[Input(r, k)] = "Fulfilled"
        /\ m_promiseState[r] = "Rejected" =>
              \E k \in Places(r) : m_promiseState[Input(r, k)] = "Rejected"

AllInv ==
    Intact => FramesInv /\ TableInv /\ CallbackInv /\ CountInv /\ SlotInv /\ ResultInv

-----------------------------------------------------------------------------
(* How a step changes the calls under way.                                 *)

LEMMA TailPush ==
    ASSUME NEW s, IsStack(s), NEW f
    PROVE  <<f>> \o s # <<>> /\ Head(<<f>> \o s) = f /\ Tail(<<f>> \o s) = s
<1>1. PICK S : s \in Seq(S)
  BY DEF IsStack
<1> DEFINE T == S \cup {f}
           t == <<f>> \o s
           u == Tail(t)
<1>2. s \in Seq(T) /\ <<f>> \in Seq(T) /\ Len(<<f>>) = 1 /\ <<f>>[1] = f
  BY <1>1, SeqMonotonic
<1>3. /\ t \in Seq(T) /\ Len(t) = 1 + Len(s) /\ Len(s) \in Nat
      /\ \A k \in 1..Len(t) : t[k] = IF k = 1 THEN f ELSE s[k - 1]
  BY <1>2, ConcatProperties
<1>4. t # <<>>
  BY <1>3, EmptySeq
<1> HIDE DEF t, T
<1>5. /\ u \in Seq(T) /\ Len(u) = Len(t) - 1 /\ Head(t) = t[1]
      /\ \A k \in 1..Len(u) : u[k] = t[k + 1]
  BY <1>3, <1>4, HeadTailProperties
<1> HIDE DEF u
<1>6. Len(u) = Len(s) /\ \A k \in 1..Len(u) : u[k] = s[k]
  BY <1>3, <1>5
<1>7. u = s
  BY <1>2, <1>5, <1>6, SeqEqual
<1> QED
  BY <1>3, <1>4, <1>5, <1>7 DEF t, u

LEMMA TailPushTwo ==
    ASSUME NEW s, IsStack(s), NEW f, NEW g, IsFrame(g)
    PROVE  Tail(<<f, g>> \o s) = <<g>> \o s
<1>1. IsStack(<<g>> \o s)
  <2>1. PICK S : s \in Seq(S) /\ \A h \in S : IsFrame(h)
    BY DEF IsStack
  <2> DEFINE T == S \cup {g}
  <2>2. s \in Seq(T) /\ <<g>> \in Seq(T)
    BY <2>1, SeqMonotonic
  <2>3. <<g>> \o s \in Seq(T) /\ \A h \in T : IsFrame(h)
    BY <2>1, <2>2, ConcatProperties
  <2> HIDE DEF T
  <2> QED
    BY <2>3 DEF IsStack
<1>2. Tail(<<f>> \o (<<g>> \o s)) = <<g>> \o s
  BY <1>1, TailPush
<1>3. <<f, g>> \o s = <<f>> \o (<<g>> \o s)
  BY TwoOnTop
<1> QED
  BY <1>2, <1>3

(* If what was known of the calls is still true, the new ones matter.      *)
LEMMA FramesAfter ==
    ASSUME IsStack(stack), FramesInv, \A f : FrameOK(f) => FrameOK(f)'
    PROVE  /\ UNCHANGED stack => FramesInv'
           /\ stack # <<>> /\ (Leave \/ Continue(<<>>)) => FramesInv'
           /\ \A f : IsFrame(f) /\ FrameOK(f)' =>
                 /\ stack' = <<f>> \o stack /\ (stack # <<>> => Top.op \notin Closures) => FramesInv'
                 /\ stack # <<>> /\ Continue(<<f>>) => FramesInv'
                 /\ \A g : IsFrame(g) /\ FrameOK(g)' /\ g.op \notin Closures =>
                        (stack # <<>> /\ Continue(<<f, g>>) => FramesInv')
<1> DEFINE t == Tail(stack)
<1>1. UNCHANGED stack => FramesInv'
  BY DEF FramesInv, OnlyTop
<1>2. ASSUME stack # <<>>
      PROVE  /\ IsStack(t) /\ On(stack) = {Top} \cup On(t)
             /\ \A f \in On(t) : FrameOK(f)' /\ f.op \notin Closures
  <2>1. IsStack(t)
    <3>1. PICK S : stack \in Seq(S) /\ \A h \in S : IsFrame(h)
      BY DEF IsStack
    <3>2. t \in Seq(S)
      BY <1>2, <3>1, HeadTailProperties
    <3> QED
      BY <3>1, <3>2 DEF IsStack
  <2> QED
    BY <1>2, <2>1, OnTop DEF FramesInv, OnlyTop, Top
<1>3. ASSUME stack # <<>>, stack' = t PROVE FramesInv'
  <2>1. stack' # <<>> => On(Tail(stack')) \subseteq On(t)
    BY <1>2, <1>3, OnTop
  <2> QED
    BY <1>2, <1>3, <2>1 DEF FramesInv, OnlyTop
<1>4. ASSUME stack # <<>>, Leave \/ Continue(<<>>) PROVE FramesInv'
  <2>1. IsStack(t) => <<>> \o t = t
    BY ConcatEmptySeq DEF IsStack
  <2> QED
    BY <1>2, <1>3, <1>4, <2>1 DEF Leave, Continue
<1>5. ASSUME NEW f, IsFrame(f), FrameOK(f)', stack' = <<f>> \o stack,
             stack # <<>> => Top.op \notin Closures
      PROVE  FramesInv'
  <2>1. On(stack') = {f} \cup On(stack) /\ Tail(stack') = stack
    BY <1>5, OnPush, TailPush
  <2>2. \A h \in On(stack') : FrameOK(h)'
    BY <1>5, <2>1 DEF FramesInv
  <2>3. \A h \in On(stack) : h.op \notin Closures
    <3>1. CASE stack = <<>>
      BY <3>1 DEF On
    <3>2. CASE stack # <<>>
      BY <1>2, <1>5, <3>2
    <3> QED
      BY <3>1, <3>2
  <2> QED
    BY <2>1, <2>2, <2>3 DEF FramesInv, OnlyTop
<1>6. ASSUME stack # <<>>, NEW f, IsFrame(f), FrameOK(f)', Continue(<<f>>) PROVE FramesInv'
  <2>1. stack' = <<f>> \o t
    BY <1>6 DEF Continue
  <2>2. On(stack') = {f} \cup On(t) /\ Tail(stack') = t
    BY <1>2, <1>6, <2>1, OnPush, TailPush
  <2> QED
    BY <1>2, <1>6, <2>2 DEF FramesInv, OnlyTop
<1>7. ASSUME stack # <<>>, NEW f, IsFrame(f), FrameOK(f)', NEW g, IsFrame(g), FrameOK(g)',
             g.op \notin Closures, Continue(<<f, g>>)
      PROVE  FramesInv'
  <2>1. stack' = <<f, g>> \o t
    BY <1>7 DEF Continue
  <2>2. On(stack') = {f, g} \cup On(t)
    BY <1>2, <1>7, <2>1, OnPushTwo
  <2>3. Tail(stack') = <<g>> \o t
    BY <1>2, <1>7, <2>1, TailPushTwo
  <2>4. On(Tail(stack')) = {g} \cup On(t)
    BY <1>2, <1>7, <2>3, OnPush
  <2> QED
    BY <1>2, <1>7, <2>2, <2>4 DEF FramesInv, OnlyTop
<1> QED
  BY <1>1, <1>4, <1>5, <1>6, <1>7

-----------------------------------------------------------------------------
(* How a step changes the tables.                                          *)

(* Setting one field of a table leaves the others.                         *)
LEMMA OtherFields ==
    ASSUME NEW a, IsAll(a), NEW x, NEW b,
           b \in {[a EXCEPT !.wired = x], [a EXCEPT !.freed = x], [a EXCEPT !.hooked = x]}
    PROVE  /\ b.inputs = a.inputs /\ b.chained = a.chained /\ b.bad = a.bad
           /\ b.remaining = a.remaining /\ b.done = a.done
<1>1. PICK i, bad, c, w, n, d, f, h : a = Table(i, bad, c, w, n, d, f, h)
  BY DEF IsAll
<1>2. /\ a.inputs = i /\ a.bad = bad /\ a.chained = c /\ a.remaining = n /\ a.done = d
      /\ [a EXCEPT !.wired = x] = Table(i, bad, c, x, n, d, f, h)
      /\ [a EXCEPT !.freed = x] = Table(i, bad, c, w, n, d, x, h)
      /\ [a EXCEPT !.hooked = x] = Table(i, bad, c, w, n, d, f, x)
  BY <1>1 DEF Table
<1> QED
  BY <1>2 DEF Table

LEMMA DoneField ==
    ASSUME NEW a, IsAll(a), NEW x, NEW b, b = [a EXCEPT !.done = x]
    PROVE  /\ b.inputs = a.inputs /\ b.chained = a.chained /\ b.bad = a.bad
           /\ b.remaining = a.remaining /\ b.done = x
<1>1. PICK i, bad, c, w, n, d, f, h : a = Table(i, bad, c, w, n, d, f, h)
  BY DEF IsAll
<1>2. /\ a.inputs = i /\ a.bad = bad /\ a.chained = c /\ a.remaining = n
      /\ [a EXCEPT !.done = x] = Table(i, bad, c, w, n, x, f, h)
  BY <1>1 DEF Table
<1> QED
  BY <1>2 DEF Table

LEMMA RemainingField ==
    ASSUME NEW a, IsAll(a), NEW x, NEW b, b = [a EXCEPT !.remaining = x]
    PROVE  /\ b.inputs = a.inputs /\ b.chained = a.chained /\ b.bad = a.bad
           /\ b.remaining = x /\ b.done = a.done
<1>1. PICK i, bad, c, w, n, d, f, h : a = Table(i, bad, c, w, n, d, f, h)
  BY DEF IsAll
<1>2. /\ a.inputs = i /\ a.bad = bad /\ a.chained = c /\ a.done = d
      /\ [a EXCEPT !.remaining = x] = Table(i, bad, c, w, x, d, f, h)
  BY <1>1 DEF Table
<1> QED
  BY <1>2 DEF Table

SameTables ==
    /\ \A r \in Promises : /\ alls'[r].inputs = alls[r].inputs /\ alls'[r].bad = alls[r].bad
                           /\ alls'[r].chained = alls[r].chained
    /\ \A c \in Promises : \/ origin'[c] = origin[c]
                           \/ Born(c) /\ origin'[c] \in {"then", "async"}
SameCounts ==
    \A r \in Promises : alls'[r].remaining = alls[r].remaining /\ alls'[r].done = alls[r].done

(* The table of a new Promise.all chains promises that are still unmade.   *)
TableMade(r) ==
    /\ Fresh(r) /\ m_promiseState' = [m_promiseState EXCEPT ![r] = "Pending"]
    /\ origin' = [origin EXCEPT ![r] = "all"]
    /\ \A s \in Promises \ {r} : alls'[s] = alls[s]
    /\ \E n \in Nat :
          /\ alls'[r].inputs \in [1..n -> Promises] /\ alls'[r].chained \in [1..n -> Promises]
          /\ alls'[r].bad \in BOOLEAN /\ ~alls'[r].done
          /\ alls'[r].remaining = IF alls'[r].bad THEN n + 1 ELSE n
          /\ \A k \in 1..n : alls'[r].chained[k] # r /\ Fresh(alls'[r].chained[k])
          /\ \A j, k \in 1..n : alls'[r].chained[j] = alls'[r].chained[k] => j = k
          /\ IF n = 0 THEN stack' = <<Frame("resolve", r, 1, Plain)>> \o stack
                      ELSE stack' = <<Call("all", r)>> \o stack

LEMMA AllMakesTable ==
    ASSUME AllsInv, NEW r \in Promises, All(r)
    PROVE  TableMade(r)
<1>0. /\ Fresh(r) /\ m_promiseState' = [m_promiseState EXCEPT ![r] = "Pending"]
      /\ origin' = [origin EXCEPT ![r] = "all"]
  BY DEF All
<1> DEFINE Unmade(n) == [1..n -> {c \in Promises \ {r} : Fresh(c)}]
<1>1. PICK n \in 0..MaxInputs, bad \in BOOLEAN : \E inputs \in [1..n -> Known], cs \in Unmade(n) :
          /\ \A j, k \in 1..n : cs[j] = cs[k] => j = k
          /\ alls' = [alls EXCEPT ![r] = NewAll(inputs, bad, cs)]
          /\ stack' = <<IF n = 0 THEN Frame("resolve", r, 1, Plain) ELSE Call("all", r)>> \o stack
  BY DEF All
<1>2. PICK inputs \in [1..n -> Known], cs \in Unmade(n) :
          /\ \A j, k \in 1..n : cs[j] = cs[k] => j = k
          /\ alls' = [alls EXCEPT ![r] = NewAll(inputs, bad, cs)]
          /\ stack' = <<IF n = 0 THEN Frame("resolve", r, 1, Plain) ELSE Call("all", r)>> \o stack
  BY <1>1
<1> DEFINE number == IF bad THEN Len(inputs) + 1 ELSE Len(inputs)
<1>3. NewAll(inputs, bad, cs) = Table(inputs, bad, cs, 0, number, FALSE, {}, FALSE)
  BY NewTable
<1>4. /\ alls'[r] = NewAll(inputs, bad, cs)
      /\ \A s \in Promises \ {r} : alls'[s] = alls[s]
  BY <1>2 DEF AllsInv
<1>5. n \in Nat /\ inputs \in [1..n -> Promises] /\ cs \in [1..n -> Promises]
      /\ \A k \in 1..n : cs[k] # r /\ Fresh(cs[k])
  BY BoundAssumption DEF Known, Made
<1>6. Len(inputs) = n
  BY <1>5, IsASeq
<1> HIDE DEF number
<1>7. /\ alls'[r].inputs = inputs /\ alls'[r].chained = cs /\ alls'[r].bad = bad
      /\ alls'[r].remaining = number /\ alls'[r].done = FALSE
  BY <1>3, <1>4 DEF Table
<1>8. number = IF alls'[r].bad THEN n + 1 ELSE n
  BY <1>6, <1>7 DEF number
<1>9. /\ alls'[r].inputs \in [1..n -> Promises] /\ alls'[r].chained \in [1..n -> Promises]
      /\ alls'[r].bad \in BOOLEAN /\ ~alls'[r].done
      /\ alls'[r].remaining = IF alls'[r].bad THEN n + 1 ELSE n
  BY <1>5, <1>7, <1>8
<1>10. /\ \A k \in 1..n : alls'[r].chained[k] # r /\ Fresh(alls'[r].chained[k])
       /\ \A j, k \in 1..n : alls'[r].chained[j] = alls'[r].chained[k] => j = k
  BY <1>2, <1>5, <1>7
<1>11. IF n = 0 THEN stack' = <<Frame("resolve", r, 1, Plain)>> \o stack
                ELSE stack' = <<Call("all", r)>> \o stack
  BY <1>2
<1> QED
  BY <1>0, <1>4, <1>5, <1>9, <1>10, <1>11, Zenon DEF TableMade

-----------------------------------------------------------------------------
(* What a step does to tables, counts, the andThen callbacks, and the      *)
(* calls that matter to them.                                              *)

Watched == Closures \cup Notifying \cup {"all"}

Keeps ==
    \A f \in On(stack) : f.op \in Watched =>
        f \in On(stack') \/ (f.op = "all" /\ f.i > Len(alls[f.p].inputs))
Brings ==
    \A g \in On(stack') : g.op \in Closures \cup Notifying =>
        g \in On(stack) \/ (g.op \in Notifying /\ g.i = 1)
Strangers == \A c : Born(c) => c \notin ChainedByAll
Notified(p) ==
    m_promiseState[p] \in Answered => \E g \in On(stack') : g.op \in Notifying /\ g.p = p

(* Nothing; or a callback is hung that is not of a Promise.all.            *)
Aside ==
    /\ SameTables /\ SameCounts /\ Strangers
    /\ UNCHANGED <<m_thenCallbacks, calls>> /\ Keeps /\ Brings
Hung ==
    /\ SameTables /\ SameCounts /\ Strangers
    /\ UNCHANGED calls /\ Keeps /\ Brings
    /\ \E p \in Promises : \E cb :
        /\ Idle(p) /\ Notified(p) /\ cb.kind # "all"
        /\ m_thenCallbacks' = [m_thenCallbacks EXCEPT ![p] = Append(@, cb)]

(* Promise.all makes its table; its loop hangs the callback of one place.  *)
AllMade ==
    /\ \E r \in Promises : TableMade(r)
    /\ UNCHANGED <<m_thenCallbacks, calls>> /\ Keeps /\ Brings
HungAt(r, k, cb) ==
    /\ Born(Link(r, k)) /\ origin' = [origin EXCEPT ![Link(r, k)] = "then"]
    /\ m_promiseState' = [m_promiseState EXCEPT ![Link(r, k)] = "Pending"]
    /\ Idle(Input(r, k)) /\ Notified(Input(r, k))
    /\ cb.kind = "all" /\ cb.chained = Link(r, k)
    /\ m_thenCallbacks' = [m_thenCallbacks EXCEPT ![Input(r, k)] = Append(@, cb)]
    /\ \E g \in On(stack') : g.op = "all" /\ g.p = r /\ g.i = k + 1
    /\ \A f \in On(stack) : f.op \in Watched =>
          f \in On(stack') \/ (f.op = "all" /\ f.p = r /\ f.i = k)
AllHung ==
    /\ SameTables /\ SameCounts /\ UNCHANGED calls /\ Brings
    /\ \E r \in Promises : \E k \in Places(r) : \E cb : HungAt(r, k, cb)

(* A walk passes one callback, and calls a closure if it is one.           *)
Seen ==
    /\ SameTables /\ SameCounts /\ UNCHANGED <<m_promiseState, m_thenCallbacks>>
    /\ stack # <<>> /\ Top.op \in Notifying /\ Top.p \in Promises
    /\ \A f \in On(stack) : f = Top \/ f \in On(stack')
    /\ \E g \in On(stack') : g.op = Top.op /\ g.p = Top.p /\ g.i = Top.i + 1
    /\ \A g \in On(stack') : g.op \in Notifying =>
          g \in On(stack) \/ (g.p = Top.p /\ g.i = Top.i + 1)
    /\ IF Top.i \in DOMAIN m_thenCallbacks[Top.p] /\ m_thenCallbacks[Top.p][Top.i].kind = "all"
       THEN LET c == m_thenCallbacks[Top.p][Top.i].chained IN
            /\ calls' = [calls EXCEPT ![c] = @ + 1]
            /\ \E g \in On(stack') : g.op \in Closures /\ g.p = c
            /\ \A g \in On(stack') : g.op \in Closures => g \in On(stack) \/ g.p = c
       ELSE /\ \A c \in ChainedByAll : calls'[c] = calls[c]
            /\ \A g \in On(stack') : g.op \in Closures => g \in On(stack)

(* The lists of a promise are cleared, when it was cancelled or the walk   *)
(* is past them.                                                           *)
Emptied ==
    /\ SameTables /\ SameCounts /\ UNCHANGED <<m_promiseState, calls>> /\ Brings
    /\ \E p \in Promises :
        /\ ClearCallbacks(p)
        /\ \/ isCancelled(p)
           \/ /\ Top \in On(stack) /\ Top.op \in Notifying /\ Top.p = p
              /\ Top.i > Len(m_thenCallbacks[p])
        /\ \A f \in On(stack) : f.op \in Watched =>
              f \in On(stack') \/ (f.op \in Notifying /\ f.p = p)

(* A closure counts its input, unless the Promise.all is done.             *)
CountsOne ==
    /\ SameTables /\ UNCHANGED <<m_promiseState, origin, m_thenCallbacks, calls>>
    /\ stack # <<>> /\ Top.op \in Closures
    /\ \A f \in On(stack) : f = Top \/ f \in On(stack')
    /\ \A g \in On(stack') : g.op \notin Closures /\ (g.op \in Notifying => g \in On(stack))
    /\ \E r \in Promises : \E k \in Places(r) :
        /\ Link(r, k) = Top.p
        /\ \A s \in Promises \ {r} : alls'[s] = alls[s]
        /\ LET a == alls[r]
               b == alls'[r]
           IN  IF a.done THEN b.remaining = a.remaining /\ b.done = a.done
               ELSE IF Top.op = "allFulfilled"
               THEN /\ b.remaining = a.remaining - 1 /\ b.done = (a.remaining = 1)
                    /\ b.done => \E g \in On(stack') : g.op = "resolve" /\ g.p = r
               ELSE b.done /\ \E g \in On(stack') : g.op = "reject" /\ g.p = r

(* The other fields of a table are not looked at.                          *)
LEMMA SmallChanges ==
    ASSUME AllsInv, UNCHANGED alls \/ \E r \in Promises : \E x :
                        alls' \in {[alls EXCEPT ![r].wired = x], [alls EXCEPT ![r].freed = x],
                                   [alls EXCEPT ![r].hooked = x]}
    PROVE  /\ SameCounts
           /\ \A r \in Promises : /\ alls'[r].inputs = alls[r].inputs /\ alls'[r].bad = alls[r].bad
                                  /\ alls'[r].chained = alls[r].chained
<1>1. CASE UNCHANGED alls
  BY <1>1 DEF SameCounts
<1>2. ASSUME NEW r \in Promises, NEW x,
             alls' \in {[alls EXCEPT ![r].wired = x], [alls EXCEPT ![r].freed = x],
                        [alls EXCEPT ![r].hooked = x]}
      PROVE  /\ SameCounts
             /\ \A s \in Promises : /\ alls'[s].inputs = alls[s].inputs /\ alls'[s].bad = alls[s].bad
                                    /\ alls'[s].chained = alls[s].chained
  <2> DEFINE a == alls[r]
             b == alls'[r]
  <2>1. b \in {[a EXCEPT !.wired = x], [a EXCEPT !.freed = x], [a EXCEPT !.hooked = x]}
    BY <1>2 DEF AllsInv
  <2>2. \A s \in Promises : s # r => alls'[s] = alls[s]
    BY <1>2 DEF AllsInv
  <2>3. IsAll(a)
    BY DEF AllsInv
  <2> HIDE DEF a, b
  <2>4. /\ b.inputs = a.inputs /\ b.chained = a.chained /\ b.bad = a.bad
        /\ b.remaining = a.remaining /\ b.done = a.done
    BY <2>1, <2>3, OtherFields
  <2>5. /\ alls'[r].inputs = alls[r].inputs /\ alls'[r].chained = alls[r].chained
        /\ alls'[r].bad = alls[r].bad
        /\ alls'[r].remaining = alls[r].remaining /\ alls'[r].done = alls[r].done
    BY <2>4 DEF a, b
  <2> QED
    BY <2>2, <2>5 DEF SameCounts
<1> QED
  BY <1>1, <1>2

(* A promise that scripts make is none that Promise.all keeps for itself.  *)
LEMMA OneBorn ==
    ASSUME StateType, NEW c \in Promises, m_promiseState[c] = "unused", c \notin ChainedByAll,
           m_promiseState' = [m_promiseState EXCEPT ![c] = "Pending"]
    PROVE  Strangers /\ Born(c)
BY DEF Strangers, Born, StateType

LEMMA NoneBorn ==
    ASSUME StateType, \/ UNCHANGED m_promiseState
                      \/ \E p, s : m_promiseState[p] # "unused"
                                   /\ m_promiseState' = [m_promiseState EXCEPT ![p] = s]
    PROVE  Strangers
BY DEF Strangers, Born, StateType

(* New calls that walk no list, or start a walk.                           *)
Tame(f) == IsFrame(f) /\ f.op \notin Closures /\ (f.op \in Notifying => f.i = 1)

LEMMA TameCalls ==
    /\ \A c, op, v : op \notin Closures => Tame(Frame(op, c, 1, v)) /\ Tame(Call(op, c))
    /\ \A c, what : Tame(Script(c, what))
    /\ \A p, c : Tame(Propagate(p, c))
<1>1. \A c, op, v : op \notin Closures => Tame(Frame(op, c, 1, v)) /\ Tame(Call(op, c))
  BY FrameFields, 1 \in Nat \ {0} DEF Call, Tame
<1>2. \A c, what : Tame(Script(c, what))
  BY <1>1 DEF Script, Closures
<1>3. \A p, c : Tame(Propagate(p, c))
  BY <1>1 DEF Propagate, Closures
<1> QED
  BY <1>1, <1>2, <1>3

LEMMA TameSteps ==
    ASSUME IsStack(stack)
    PROVE  /\ UNCHANGED stack => Keeps /\ Brings
           /\ \A f : Tame(f) /\ stack' = <<f>> \o stack => Keeps /\ Brings
           /\ \A f, g : /\ stack # <<>> /\ Top.op \notin Watched /\ Tame(f) /\ Tame(g)
                        /\ Leave \/ Continue(<<>>) \/ Continue(<<f>>) \/ Continue(<<f, g>>)
                        => Keeps /\ Brings
<1> DEFINE t == Tail(stack)
<1>1. UNCHANGED stack => Keeps /\ Brings
  BY DEF Keeps, Brings
<1>2. ASSUME NEW f, Tame(f), stack' = <<f>> \o stack PROVE Keeps /\ Brings
  <2>1. On(stack') = {f} \cup On(stack)
    BY <1>2, OnPush
  <2> QED
    BY <1>2, <2>1 DEF Keeps, Brings, Tame
<1>3. ASSUME NEW f, NEW g, stack # <<>>, Top.op \notin Watched, Tame(f), Tame(g),
             Leave \/ Continue(<<>>) \/ Continue(<<f>>) \/ Continue(<<f, g>>)
      PROVE  Keeps /\ Brings
  <2>1. IsStack(t)
    <3>1. PICK S : stack \in Seq(S) /\ \A h \in S : IsFrame(h)
      BY DEF IsStack
    <3>2. t \in Seq(S)
      BY <1>3, <3>1, HeadTailProperties
    <3> QED
      BY <3>1, <3>2 DEF IsStack
  <2>2. On(stack) = {Top} \cup On(t)
    BY <1>3, OnTop DEF Top
  <2>3. On(<<>> \o t) = On(t) /\ On(<<f>> \o t) = {f} \cup On(t)
    BY <2>1, OnPush
  <2>4. On(<<f, g>> \o t) = {f, g} \cup On(t)
    BY <1>3, <2>1, OnPushTwo DEF Tame
  <2>5. On(stack') \in {On(t), {f} \cup On(t), {f, g} \cup On(t)}
    BY <1>3, <2>3, <2>4 DEF Leave, Continue
  <2> QED
    BY <1>3, <2>2, <2>5 DEF Keeps, Brings, Tame
<1> QED
  BY <1>1, <1>2, <1>3

StepKind == Aside \/ Hung \/ AllMade \/ AllHung \/ Seen \/ Emptied \/ CountsOne

LEMMA ScriptKinds ==
    ASSUME StateType, AllsInv, TableInv, WalkInv, ScriptStep, Intact'
    PROVE  Aside \/ Hung \/ AllMade
<1>1. Intact /\ StackOK(m_promiseState, stack) /\ IsStack(stack)
  BY DefinedBefore DEF Next
<1>2. /\ UNCHANGED stack => Keeps /\ Brings
      /\ \A f : Tame(f) /\ stack' = <<f>> \o stack => Keeps /\ Brings
      /\ \A f : /\ stack # <<>> /\ Top.op \notin Watched /\ Tame(f)
                /\ Leave \/ Continue(<<>>) \/ Continue(<<f>>)
                => Keeps /\ Brings
  BY <1>1, TameSteps
<1>3. UNCHANGED alls /\ UNCHANGED origin => SameTables /\ SameCounts
  BY DEF SameTables, SameCounts
<1>4. ASSUME NEW p, NEW c, stack' = NotifyIfSettled(p, c) \o stack
      PROVE  Keeps /\ Brings /\ Notified(p)
  <2>1. CASE isPending(p) \/ isCancelled(p)
    <3>1. stack' = <<>> \o stack
      BY <1>4, <2>1 DEF NotifyIfSettled
    <3>2. UNCHANGED stack
      BY <1>1, <3>1, PushNone
    <3>3. Notified(p)
      BY <2>1 DEF Notified, Answered, isPending, isCancelled
    <3> QED
      BY <1>2, <3>2, <3>3
  <2>2. CASE ~(isPending(p) \/ isCancelled(p))
    <3> DEFINE f == Frame("renotify", p, 1, c)
    <3>1. stack' = <<f>> \o stack
      BY <1>4, <2>2 DEF NotifyIfSettled
    <3>2. Tame(f) /\ f.op = "renotify" /\ f.p = p
      BY TameCalls, FrameFields, 1 \in Nat \ {0} DEF Closures
    <3> HIDE DEF f
    <3>3. On(stack') = {f} \cup On(stack)
      BY <1>1, <3>1, OnPush
    <3> QED
      BY <1>2, <3>1, <3>2, <3>3 DEF Notified, Notifying
  <2> QED
    BY <2>1, <2>2
<1>5. ASSUME NEW c \in Promises, NEW op \in {"new", "then", "async"},
             m_promiseState[c] = "unused", UNCHANGED alls,
             c \notin ChainedByAll, m_promiseState' = [m_promiseState EXCEPT ![c] = "Pending"],
             UNCHANGED origin \/ (op # "new" /\ origin' = [origin EXCEPT ![c] = op])
      PROVE  SameTables /\ SameCounts /\ Strangers
  <2>1. Strangers /\ Born(c)
    BY <1>5, OneBorn
  <2> QED
    BY <1>5, <2>1 DEF SameTables, SameCounts, TableInv
<1>6. ASSUME NEW p \in Promises, New(p) PROVE Aside
  <2>1. SameTables /\ SameCounts /\ Strangers
    BY <1>5, <1>6 DEF New, Fresh, results
  <2> QED
    BY <1>2, <1>6, <2>1 DEF New, Aside, lists, ghosts
<1>7. ASSUME NEW p \in Promises, lua_async(p) PROVE Aside
  <2>1. SameTables /\ SameCounts /\ Strangers
    BY <1>5, <1>7 DEF lua_async, Fresh, results
  <2> QED
    BY <1>2, <1>7, <2>1, TameCalls DEF lua_async, Aside, lists, ghosts
<1>8. ASSUME NEW p \in Promises, NEW c \in Promises, NEW on, AndThen(p, c, on) PROVE Hung
  <2> DEFINE cb == [kind |-> "then", on |-> on, chained |-> c]
  <2>1. SameTables /\ SameCounts /\ Strangers
    BY <1>5, <1>8 DEF AndThen, Fresh, promise_wireLinks, results
  <2>2. Idle(p)
    BY <1>8, IdleWhenChained DEF Next
  <2>3. Keeps /\ Brings /\ Notified(p)
    BY <1>4, <1>8 DEF AndThen
  <2>4. m_thenCallbacks' = [m_thenCallbacks EXCEPT ![p] = Append(@, cb)] /\ UNCHANGED calls
    BY <1>8 DEF AndThen
  <2>5. cb.kind # "all"
    OBVIOUS
  <2> HIDE DEF cb
  <2> QED
    BY <2>1, <2>2, <2>3, <2>4, <2>5 DEF Hung
<1>9. ASSUME NEW p \in Promises, NEW c \in Promises, NEW called, Finally(p, c, called) PROVE Aside
  <2>1. SameTables /\ SameCounts /\ Strangers
    BY <1>5, <1>9 DEF Finally, Fresh, promise_wireLinks, results
  <2>2. Keeps /\ Brings
    BY <1>4, <1>9 DEF Finally
  <2> QED
    BY <1>9, <2>1, <2>2 DEF Finally, Aside
<1>10. ASSUME NEW p \in Promises, lua_await(p) PROVE Hung
  <2> DEFINE cb == [kind |-> "await", on |-> {}, chained |-> Top.p]
  <2>1. /\ m_thenCallbacks' = [m_thenCallbacks EXCEPT ![p] = Append(@, cb)]
        /\ UNCHANGED <<m_promiseState, origin, alls, calls>> /\ isPending(p)
        /\ stack # <<>> /\ Top.op = "script" /\ Leave
    BY <1>10 DEF lua_await, Awaitable, Running, ghosts, results
  <2>2. Idle(p)
    BY <1>1, <2>1 DEF StackOK, Good, Idle, On, isPending, Settled, Notifying, Walking
  <2>3. Notified(p)
    BY <2>1 DEF Notified, isPending, Answered
  <2>4. cb.kind # "all"
    OBVIOUS
  <2> HIDE DEF cb
  <2>5. Keeps /\ Brings
    BY <1>2, <2>1, TameCalls DEF Watched, Closures, Notifying
  <2> QED
    BY <1>3, <2>1, <2>2, <2>3, <2>4, <2>5, NoneBorn DEF Hung
<1>11. ASSUME NEW p \in Promises, NEW v, Cancel(p) \/ Settle(p, v) PROVE Aside
  <2>1. UNCHANGED <<m_promiseState, origin, alls, m_thenCallbacks, calls>>
    BY <1>11 DEF Cancel, Settle, lists, ghosts, results
  <2>2. \E f : Tame(f) /\ stack' = <<f>> \o stack
    BY <1>11, TameCalls DEF Cancel, Settle, Closures
  <2> QED
    BY <1>2, <1>3, <2>1, <2>2, NoneBorn DEF Aside
<1>12. ASSUME NEW p \in Promises, OnCancel(p) PROVE Aside
  <2>1. UNCHANGED <<m_promiseState, origin, m_thenCallbacks, calls, stack>>
    BY <1>12 DEF OnCancel, lists, ghosts
  <2>2. alls' = [alls EXCEPT ![p].hooked = FALSE]
    BY <1>12 DEF OnCancel
  <2> QED
    BY <1>2, <2>1, <2>2, NoneBorn, SmallChanges DEF Aside, SameTables
<1>13. ASSUME NEW r \in Promises, All(r) PROVE AllMade
  <2>1. TableMade(r)
    BY <1>13, AllMakesTable
  <2>2. Keeps /\ Brings
    <3>1. \E f : Tame(f) /\ stack' = <<f>> \o stack
      BY <2>1, TameCalls DEF TableMade, Closures
    <3> QED
      BY <1>2, <3>1
  <2> QED
    BY <1>13, <2>1, <2>2 DEF All, AllMade, lists, ghosts
<1>14. ASSUME NEW v, Return(v) PROVE Aside
  <2>1. /\ UNCHANGED <<m_promiseState, origin, alls, m_thenCallbacks, calls>>
        /\ stack # <<>> /\ Top.op = "script"
        /\ Continue(<<>>) \/ \E f : Tame(f) /\ Continue(<<f>>)
    BY <1>14, TameCalls DEF Return, Running, lists, ghosts, results, Closures
  <2> QED
    BY <1>2, <1>3, <2>1, NoneBorn, TameCalls DEF Aside, Watched, Closures, Notifying
<1>15. ASSUME Throw PROVE Aside
  <2>1. /\ UNCHANGED <<m_promiseState, origin, alls, m_thenCallbacks, calls>>
        /\ stack # <<>> /\ Top.op = "script"
        /\ \E f : Tame(f) /\ Continue(<<f>>)
    BY <1>15, TameCalls DEF Throw, Running, lists, ghosts, results, Closures
  <2> QED
    BY <1>2, <1>3, <2>1, NoneBorn DEF Aside, Watched, Closures, Notifying
<1> QED
  BY <1>6, <1>7, <1>8, <1>9, <1>10, <1>11, <1>12, <1>13, <1>14, <1>15 DEF ScriptStep

LEMMA PlacesAreNumbers ==
    ASSUME AllsInv, NEW r \in Promises
    PROVE  /\ Len(alls[r].inputs) \in Nat /\ Places(r) = 1..Len(alls[r].inputs)
           /\ Places(r) = DOMAIN alls[r].chained
           /\ \A k \in Places(r) : Input(r, k) \in Made /\ Link(r, k) \in Promises
<1>1. IsAll(alls[r])
  BY DEF AllsInv
<1>2. /\ alls[r].inputs \in Seq(Made) /\ alls[r].chained \in Seq(Promises)
      /\ Len(alls[r].inputs) = Len(alls[r].chained)
  BY <1>1, TableFields
<1> QED
  BY <1>2 DEF Places, Input, Link

LEMMA ChainedIsLinked ==
    ASSUME AllsInv
    PROVE  \A c : c \in ChainedByAll <=> \E r \in Promises : \E k \in Places(r) : Link(r, k) = c
<1>1. \A r \in Promises : Places(r) = DOMAIN alls[r].chained
  BY PlacesAreNumbers
<1> QED
  BY <1>1 DEF ChainedByAll, Link

LEMMA FrameKinds ==
    ASSUME StateType, AllsInv, TableInv, WalkInv, ListType, FramesInv, CallbackInv,
           PromiseStep, Intact'
    PROVE  StepKind
<1> DEFINE t == Tail(stack)
           next == [Top EXCEPT !.i = @ + 1]
<1>1. Intact /\ stack # <<>> /\ StackOK(m_promiseState, stack) /\ IsStack(stack)
  BY DefinedBefore, FramesRun DEF Next
<1>2. /\ On(stack) = {Top} \cup On(t) /\ IsStack(t) /\ IsFrame(Top) /\ Good(m_promiseState, Top)
      /\ Top.op \in Walking => Free(t, Top.p)
      /\ FrameOK(Top) /\ \A f \in On(t) : f.op \notin Closures
  BY <1>1, OnTop, PopOne DEF Top, StackOK, FramesInv, OnlyTop
<1>3. IsFrame(next) /\ next.op = Top.op /\ next.p = Top.p /\ next.i = Top.i + 1 /\ Top.i \in Nat \ {0}
  BY <1>2, NextPlace
<1>4. /\ Leave => On(stack') = On(t)
      /\ Continue(<<>>) => On(stack') = On(t)
      /\ \A f : Continue(<<f>>) => On(stack') = {f} \cup On(t)
      /\ \A f, g : IsFrame(f) /\ IsFrame(g) /\ Continue(<<f, g>>) => On(stack') = {f, g} \cup On(t)
  <2>1. On(<<>> \o t) = On(t) /\ \A f : On(<<f>> \o t) = {f} \cup On(t)
    BY <1>2, OnPush
  <2>2. \A f, g : IsFrame(f) /\ IsFrame(g) => On(<<f, g>> \o t) = {f, g} \cup On(t)
    BY <1>2, OnPushTwo
  <2> QED
    BY <2>1, <2>2 DEF Leave, Continue
<1>5. \A c, op, what : IsFrame(Call(op, c)) /\ IsFrame(Script(c, what)) /\ IsFrame(Frame(op, c, 1, what))
  BY FrameFields, 1 \in Nat \ {0} DEF Call, Script
<1> HIDE DEF next
<1>6. ASSUME NEW f, NEW g, Tame(f), Tame(g), Top.op \notin Watched,
             Leave \/ Continue(<<>>) \/ Continue(<<f>>) \/ Continue(<<f, g>>)
      PROVE  Keeps /\ Brings
  BY <1>1, <1>6, TameSteps
<1>7. ASSUME UNCHANGED alls \/ \E r \in Promises : \E x :
                 alls' \in {[alls EXCEPT ![r].wired = x], [alls EXCEPT ![r].freed = x],
                            [alls EXCEPT ![r].hooked = x]},
             UNCHANGED origin
      PROVE  SameTables /\ SameCounts
  BY <1>7, SmallChanges DEF SameTables
<1>8. ASSUME NEW p, ResolveIgnored \/ ResolveValue(p) \/ reject(p) PROVE Aside
  <2>1. /\ UNCHANGED <<origin, alls, m_thenCallbacks, calls>>
        /\ Top.op \notin Watched
        /\ Leave \/ Continue(<<Call("notify", p)>>)
        /\ UNCHANGED m_promiseState \/ \E s : m_promiseState[p] # "unused"
                                              /\ m_promiseState' = [m_promiseState EXCEPT ![p] = s]
    BY <1>8 DEF ResolveIgnored, ResolveValue, Resolving, reject, Running, isPending, lists, ghosts,
       results, Watched, Closures, Notifying
  <2>2. Keeps /\ Brings
    BY <1>6, <2>1, TameCalls DEF Closures
  <2>3. Strangers
    BY <2>1, NoneBorn
  <2> QED
    BY <1>7, <2>1, <2>2, <2>3 DEF Aside
<1>9. ASSUME NEW p, NEW inner, ResolveSettled(p, inner) PROVE Aside
  <2>1. PICK f : Tame(f) /\ Continue(<<f>>)
    BY <1>9, TameCalls DEF ResolveSettled, Settled, isCancelled, Closures
  <2>2. /\ UNCHANGED <<m_promiseState, origin, alls, m_thenCallbacks, calls>>
        /\ Top.op \notin Watched
    BY <1>9 DEF ResolveSettled, Resolving, Running, lists, results, Watched, Closures, Notifying
  <2> QED
    BY <1>6, <1>7, <2>1, <2>2, NoneBorn DEF Aside
<1>10. ASSUME NEW p, NEW inner \in Promises, ResolveAdopts(p, inner) PROVE Hung
  <2> DEFINE cb == [kind |-> "adopt", on |-> {}, chained |-> p]
  <2>1. /\ m_thenCallbacks' = [m_thenCallbacks EXCEPT ![inner] = Append(@, cb)]
        /\ UNCHANGED <<m_promiseState, origin, alls, calls>> /\ isPending(inner)
        /\ Top.op \notin Watched /\ Leave
    BY <1>10 DEF ResolveAdopts, Resolving, Running, results, Watched, Closures, Notifying
  <2>2. Idle(inner)
    BY <1>1, <2>1 DEF StackOK, Good, Idle, On, isPending, Settled, Notifying, Walking
  <2>3. Notified(inner)
    BY <2>1 DEF Notified, isPending, Answered
  <2>4. cb.kind # "all"
    OBVIOUS
  <2>5. Keeps /\ Brings
    BY <1>6, <2>1, TameCalls
  <2> HIDE DEF cb
  <2> QED
    BY <1>7, <2>1, <2>2, <2>3, <2>4, <2>5, NoneBorn DEF Hung
<1>11. ASSUME NEW g, IsFrame(g), g.op \notin Notifying, Continue(<<g, next>>), Top.op \in Notifying
       PROVE  /\ Top.p \in Promises /\ On(stack') = {g, next} \cup On(t)
              /\ \A f \in On(stack) : f = Top \/ f \in On(stack')
              /\ \E h \in On(stack') : h.op = Top.op /\ h.p = Top.p /\ h.i = Top.i + 1
              /\ \A h \in On(stack') : h.op \in Notifying =>
                    h \in On(stack) \/ (h.p = Top.p /\ h.i = Top.i + 1)
              /\ \A h \in On(stack') : h.op \in Closures => h = g
  <2>1. On(stack') = {g, next} \cup On(t)
    BY <1>3, <1>4, <1>11
  <2>2. Top.p \in Promises
    BY <1>2, <1>11 DEF Good, Notifying, Walking
  <2> QED
    BY <1>2, <1>3, <1>11, <2>1, <2>2 DEF Closures, Notifying
<1>12. ASSUME NEW p, NotifyThen(p) PROVE Seen
  <2> DEFINE cb == m_thenCallbacks[p][Top.i]
             handled == m_promiseState[p] \in cb.on
             g == CASE cb.kind = "await" -> Script(cb.chained, "coroutine")
                    [] cb.kind = "all" -> Call(IF m_promiseState[p] = "Fulfilled"
                                               THEN "allFulfilled" ELSE "allRejected",
                                               cb.chained)
                    [] cb.kind = "then" /\ handled -> Script(cb.chained, "handler")
                    [] OTHER -> Propagate(p, cb.chained)
  <2>1. /\ Top.op \in Notifying /\ Top.p = p /\ Top.i <= Len(m_thenCallbacks[p])
        /\ calls' = IF handled THEN [calls EXCEPT ![cb.chained] = @ + 1] ELSE calls
        /\ UNCHANGED <<m_promiseState, origin, alls, m_thenCallbacks>>
    BY <1>12, SMTT(20) DEF NotifyThen, Running, Notifying, lists, results
  <2>0. ~Resumed(p)
    BY <1>1, <2>1, NotResumed DEF Notifying
  <2>2. Continue(<<g, next>>)
    BY <1>12, <2>0, Zenon DEF NotifyThen, next
  <2>3. p \in Promises /\ m_promiseState[p] \in Answered
    BY <1>2, <2>1 DEF Good, Notifying, Walking, FrameOK
  <2>4. Top.i \in DOMAIN m_thenCallbacks[p]
    <3>1. PICK S : m_thenCallbacks[p] \in Seq(S)
      BY <2>3 DEF ListType, IsList
    <3> QED
      BY <1>3, <2>1, <3>1
  <2>5. IF cb.kind = "all" THEN ByAll(p, cb) ELSE Owned(cb.chained)
    BY <2>3, <2>4 DEF CallbackInv
  <2>6. SameTables /\ SameCounts
    BY <1>7, <2>1, Zenon
  <2>7. IsFrame(g) /\ g.op \notin Notifying
        /\ IF cb.kind = "all" THEN g.op \in Closures /\ g.p = cb.chained ELSE g.op \notin Closures
    <3>1. ASSUME NEW h, NEW c, h = Call("allFulfilled", c) \/ h = Call("allRejected", c)
          PROVE  IsFrame(h) /\ h.op \notin Notifying /\ h.op \in Closures /\ h.p = c
      BY <3>1, FrameFields, 1 \in Nat \ {0} DEF Call, Closures, Notifying
    <3>2. ASSUME NEW h, NEW c, \/ h = Script(c, "coroutine") \/ h = Script(c, "handler")
                               \/ h = Propagate(p, c)
          PROVE  IsFrame(h) /\ h.op \notin Notifying /\ h.op \notin Closures
      BY <3>2, CallsAreQuiet, TameCalls DEF Quiet, Tame, Notifying, Walking
    <3>3. CASE cb.kind = "all"
      <4>1. g = Call("allFulfilled", cb.chained) \/ g = Call("allRejected", cb.chained)
        BY <3>3
      <4> HIDE DEF g, cb
      <4> QED
        BY <3>1, <3>3, <4>1
    <3>4. CASE cb.kind # "all"
      <4>1. \/ g = Script(cb.chained, "coroutine") \/ g = Script(cb.chained, "handler")
            \/ g = Propagate(p, cb.chained)
        <5>1. CASE cb.kind = "await"
          BY <5>1
        <5>2. CASE cb.kind = "then" /\ handled
          BY <5>2
        <5>3. CASE cb.kind # "await" /\ ~(cb.kind = "then" /\ handled)
          BY <3>4, <5>3
        <5> QED
          BY <5>1, <5>2, <5>3
      <4> HIDE DEF g, cb
      <4> QED
        BY <3>2, <3>4, <4>1, ZenonT(40)
    <3> QED
      BY <3>3, <3>4, Zenon
  <2> HIDE DEF g
  <2>8. /\ On(stack') = {g, next} \cup On(t)
        /\ \A f \in On(stack) : f = Top \/ f \in On(stack')
        /\ \E h \in On(stack') : h.op = Top.op /\ h.p = Top.p /\ h.i = Top.i + 1
        /\ \A h \in On(stack') : h.op \in Notifying =>
              h \in On(stack) \/ (h.p = Top.p /\ h.i = Top.i + 1)
        /\ \A h \in On(stack') : h.op \in Closures => h = g
    BY <1>11, <2>1, <2>2, <2>7
  <2>9. CASE cb.kind = "all"
    <3>1. calls' = [calls EXCEPT ![cb.chained] = @ + 1]
      BY <2>1, <2>3, <2>5, <2>9 DEF ByAll
    <3>2. g \in On(stack') /\ g.op \in Closures /\ g.p = cb.chained
      BY <2>7, <2>8, <2>9
    <3> QED
      BY <1>1, <2>1, <2>3, <2>4, <2>6, <2>8, <2>9, <3>1, <3>2 DEF Seen
  <2>10. CASE cb.kind # "all"
    <3>1. \A c \in ChainedByAll : calls'[c] = calls[c]
      BY <2>1, <2>5, <2>10 DEF Owned
    <3>2. \A h \in On(stack') : h.op \in Closures => h \in On(stack)
      BY <2>7, <2>8, <2>10
    <3> QED
      BY <1>1, <2>1, <2>3, <2>4, <2>6, <2>8, <2>10, <3>1, <3>2 DEF Seen
  <2> QED
    BY <2>9, <2>10
<1>13. ASSUME NEW p, NotifyFinally(p) PROVE Seen
  <2> DEFINE k == Top.i - Len(m_thenCallbacks[p])
             cb == m_finallyCallbacks[p][k]
             g == IF cb.called THEN Script(cb.chained, "finally") ELSE Propagate(p, cb.chained)
  <2>1. /\ Top.op \in Notifying /\ Top.p = p /\ k \in DOMAIN m_finallyCallbacks[p]
        /\ calls' = IF cb.called THEN [calls EXCEPT ![cb.chained] = @ + 1] ELSE calls
        /\ UNCHANGED <<m_promiseState, origin, alls, m_thenCallbacks>>
    BY <1>13 DEF NotifyFinally, Running, Notifying, lists, results
  <2>2. Continue(<<g, next>>)
    BY <1>13 DEF NotifyFinally, next
  <2>3. p \in Promises
    BY <1>2, <2>1 DEF Good, Notifying, Walking
  <2>4. Top.i \notin DOMAIN m_thenCallbacks[p]
    <3>1. PICK S : m_thenCallbacks[p] \in Seq(S)
      BY <2>3 DEF ListType, IsList
    <3>2. PICK Q : m_finallyCallbacks[p] \in Seq(Q)
      BY <2>3 DEF ListType, IsList
    <3>3. Len(m_thenCallbacks[p]) \in Nat /\ k \in Nat \ {0}
      BY <2>1, <3>1, <3>2
    <3> QED
      BY <1>3, <3>1, <3>3
  <2>5. Owned(cb.chained)
    BY <2>1, <2>3 DEF CallbackInv
  <2>6. SameTables /\ SameCounts
    BY <1>7, <2>1
  <2>7. IsFrame(g) /\ g.op \notin Notifying /\ g.op \notin Closures
    BY CallsAreQuiet, TameCalls DEF Quiet, Tame, Notifying, Walking
  <2> HIDE DEF g
  <2>8. /\ On(stack') = {g, next} \cup On(t)
        /\ \A f \in On(stack) : f = Top \/ f \in On(stack')
        /\ \E h \in On(stack') : h.op = Top.op /\ h.p = Top.p /\ h.i = Top.i + 1
        /\ \A h \in On(stack') : h.op \in Notifying =>
              h \in On(stack) \/ (h.p = Top.p /\ h.i = Top.i + 1)
        /\ \A h \in On(stack') : h.op \in Closures => h = g
    BY <1>11, <2>1, <2>2, <2>7
  <2>9. \A c \in ChainedByAll : calls'[c] = calls[c]
    BY <2>1, <2>5 DEF Owned
  <2>10. \A h \in On(stack') : h.op \in Closures => h \in On(stack)
    BY <2>7, <2>8
  <2> QED
    BY <1>1, <2>1, <2>3, <2>4, <2>6, <2>8, <2>9, <2>10 DEF Seen
<1>14. ASSUME NEW p \in Promises, NotifyEnds(p) \/ CancelEnds(p) PROVE Emptied
  <2>1. /\ ClearCallbacks(p) /\ Leave /\ Top.p = p
        /\ UNCHANGED <<m_promiseState, origin, alls, calls>>
        /\ Top.op \in {"notify", "renotify", "drop"}
        /\ Top.op # "drop" => Top.i > Len(m_thenCallbacks[p]) + Len(m_finallyCallbacks[p])
    BY <1>14 DEF NotifyEnds, CancelEnds, Running, ghosts, results
  <2>2. \/ isCancelled(p)
        \/ /\ Top \in On(stack) /\ Top.op \in Notifying /\ Top.p = p
           /\ Top.i > Len(m_thenCallbacks[p])
    <3>1. CASE Top.op = "drop"
      BY <1>2, <2>1, <3>1 DEF Good, Walking, Cancelling, isCancelled
    <3>2. CASE Top.op # "drop"
      <4>1. Len(m_thenCallbacks[p]) \in Nat /\ Len(m_finallyCallbacks[p]) \in Nat
        BY AddToList DEF ListType
      <4>2. Top.i > Len(m_thenCallbacks[p]) + Len(m_finallyCallbacks[p])
        BY <2>1, <3>2
      <4>3. Top.i > Len(m_thenCallbacks[p])
        <5>1. Top.i \in Nat
          BY <1>3
        <5>2. \A i, m, n \in Nat : i > m + n => i > m
          OBVIOUS
        <5> QED
          BY <4>1, <4>2, <5>1, <5>2, Zenon
      <4> QED
        BY <1>2, <2>1, <3>2, <4>3 DEF Notifying
    <3> QED
      BY <3>1, <3>2
  <2>3. On(stack') = On(t)
    BY <1>4, <2>1
  <2>4. Brings /\ \A f \in On(stack) : f.op \in Watched =>
                     f \in On(stack') \/ (f.op \in Notifying /\ f.p = p)
    BY <1>2, <2>1, <2>3 DEF Brings, Watched, Notifying, Closures
  <2> QED
    BY <1>7, <2>1, <2>2, <2>4 DEF Emptied
<1>15. ASSUME NEW p, CancelStarts(p) \/ HookCalled(p) PROVE Aside
  <2>1. /\ UNCHANGED <<origin, alls, m_thenCallbacks, calls>>
        /\ Top.op \notin Watched
        /\ UNCHANGED m_promiseState \/ \E s : m_promiseState[p] # "unused"
                                              /\ m_promiseState' = [m_promiseState EXCEPT ![p] = s]
    BY <1>15 DEF CancelStarts, HookCalled, Running, isPending, lists, ghosts, results, Watched,
       Closures, Notifying
  <2>2. Leave \/ \E f, g : Tame(f) /\ Tame(g) /\ (Continue(<<f, g>>) \/ Continue(<<f>>))
    <3> DEFINE f == IF alls[p].hooked THEN Frame("allCancel", p, 1, p) ELSE Script(p, "hook")
    <3>1. Tame(f) /\ Tame(Call("cancelled", p)) /\ Tame(Call("down", p))
      BY TameCalls DEF Closures
    <3>2. Leave \/ Continue(<<f, Call("cancelled", p)>>) \/ Continue(<<Call("down", p)>>)
      BY <1>15 DEF CancelStarts, HookCalled
    <3> HIDE DEF f
    <3> QED
      BY <3>1, <3>2
  <2>3. Keeps /\ Brings
    BY <1>6, <2>1, <2>2, TameCalls
  <2>4. Strangers
    BY <2>1, NoneBorn
  <2> QED
    BY <1>7, <2>1, <2>3, <2>4 DEF Aside
<1>16. ASSUME NEW p, CancelLinked(p) \/ CancelCallback(p) PROVE Aside
  <2>1. /\ Top.p = p /\ Top.op \in {"down", "drop"}
        /\ UNCHANGED <<m_promiseState, origin, alls, m_thenCallbacks, calls>>
        /\ \/ \E c : Continue(<<Call("cancel", c), next>>)
           \/ \E c : Continue(<<Call("reject", c), next>>)
           \/ Continue(<<next>>)
           \/ \E c : Continue(<<Call("cancel", c), Call("drop", p)>>)
           \/ Continue(<<Call("drop", p)>>)
    <3>1. CASE CancelLinked(p)
      BY <3>1 DEF CancelLinked, Running, next, ghosts, lists, results
    <3>2. CASE CancelCallback(p)
      <4>1. /\ Top.p = p /\ Top.op = "drop"
            /\ UNCHANGED <<m_promiseState, origin, alls, m_thenCallbacks, calls>>
        BY <3>2, Zenon DEF CancelCallback, Running, ghosts, lists, results
      <4>2. \/ \E c : Continue(<<Call("reject", c), next>>)
            \/ Continue(<<next>>)
        BY <3>2, OneByOne, Zenon DEF CancelCallback, Continue, next
      <4> QED
        BY <4>1, <4>2
    <3> QED
      BY <1>16, <3>1, <3>2
  <2>2. Top.op \notin Watched /\ Tame(next)
    BY <1>3, <2>1 DEF Watched, Closures, Notifying, Tame
  <2>3. \A c : Tame(Call("cancel", c)) /\ Tame(Call("reject", c)) /\ Tame(Call("drop", c))
    BY TameCalls DEF Closures
  <2>4. Keeps /\ Brings
    BY <1>6, <2>1, <2>2, <2>3
  <2> QED
    BY <1>7, <2>1, <2>4, NoneBorn DEF Aside
<1>17. ASSUME NEW r \in Promises, AllInput(r) PROVE AllHung
  <2> DEFINE k == Top.i
             p == Input(r, k)
             c == Link(r, k)
             cb == [kind |-> "all", on |-> {"Fulfilled", "Rejected"}, chained |-> c]
  <2>1. /\ Top.op = "all" /\ Top.p = r /\ k <= Len(alls[r].inputs)
        /\ m_thenCallbacks' = [m_thenCallbacks EXCEPT ![p] = Append(@, cb)]
        /\ UNCHANGED calls
        /\ m_promiseState[c] = "unused" /\ m_promiseState' = [m_promiseState EXCEPT ![c] = "Pending"]
        /\ origin' = [origin EXCEPT ![c] = "then"]
        /\ alls' = [alls EXCEPT ![r].wired = k]
        /\ Continue(NotifyIfSettled(p, c) \o <<next>>)
    BY <1>17, Zenon DEF AllInput, Running, promise_wireLinks, next, Input, Link
  <2>2. k \in Places(r) /\ p \in Promises /\ c \in Promises
    BY <1>3, <2>1, PlacesAreNumbers DEF Made
  <2>3. Idle(p)
    BY <1>17, IdleWhenChained DEF Input, Next
  <2>4. Born(c)
    BY <2>1, <2>2 DEF Born, StateType
  <2>5. SameTables /\ SameCounts
    <3>1. \E s \in Promises : \E x : alls' \in {[alls EXCEPT ![s].wired = x],
                                              [alls EXCEPT ![s].freed = x],
                                              [alls EXCEPT ![s].hooked = x]}
      BY <2>1
    <3>2. /\ SameCounts
          /\ \A s \in Promises : /\ alls'[s].inputs = alls[s].inputs /\ alls'[s].bad = alls[s].bad
                                 /\ alls'[s].chained = alls[s].chained
      BY <3>1, SmallChanges
    <3>3. \A d \in Promises : origin'[d] = origin[d] \/ (d = c /\ origin'[d] = "then")
      BY <2>1, <2>2 DEF TableInv
    <3> QED
      BY <2>4, <3>2, <3>3 DEF SameTables
  <2>6. cb.kind = "all" /\ cb.chained = c
    OBVIOUS
  <2> HIDE DEF p, c, cb, k
  <2>7. \/ /\ Continue(<<next>>)
           /\ isPending(p) \/ isCancelled(p)
        \/ Continue(<<Frame("renotify", p, 1, c), next>>)
    BY <2>1, OneByOne DEF NotifyIfSettled
  <2>8. On(stack') = {next} \cup On(t) \/ On(stack') = {Frame("renotify", p, 1, c), next} \cup On(t)
    <3>1. Continue(<<next>>) => On(stack') = {next} \cup On(t)
      BY <1>4
    <3>2. IsFrame(Frame("renotify", p, 1, c))
      BY <1>5
    <3>3. Continue(<<Frame("renotify", p, 1, c), next>>) =>
              On(stack') = {Frame("renotify", p, 1, c), next} \cup On(t)
      BY <1>3, <1>4, <3>2
    <3> QED
      BY <2>7, <3>1, <3>3
  <2>9. LET f == Frame("renotify", p, 1, c) IN f.op = "renotify" /\ f.p = p /\ f.i = 1
    BY FrameFields, 1 \in Nat \ {0}
  <2>10. Notified(p)
    <3>1. CASE isPending(p) \/ isCancelled(p)
      BY <3>1 DEF Notified, Answered, isPending, isCancelled
    <3>2. CASE Continue(<<Frame("renotify", p, 1, c), next>>)
      <4>1. Frame("renotify", p, 1, c) \in On(stack')
        BY <1>3, <1>4, <1>5, <3>2
      <4> QED
        BY <2>9, <4>1 DEF Notified, Notifying
    <3> QED
      BY <2>7, <3>1, <3>2
  <2>11. Brings
    BY <1>2, <1>3, <2>1, <2>8, <2>9 DEF Brings, Closures, Notifying
  <2>12. next \in On(stack') /\ next.op = "all" /\ next.p = r /\ next.i = k + 1
    BY <1>3, <2>1, <2>8 DEF k
  <2>13. \A f \in On(stack) : f.op \in Watched =>
              f \in On(stack') \/ (f.op = "all" /\ f.p = r /\ f.i = k)
    BY <1>2, <2>1, <2>8 DEF k
  <2>14. /\ Born(Link(r, k)) /\ origin' = [origin EXCEPT ![Link(r, k)] = "then"]
         /\ m_promiseState' = [m_promiseState EXCEPT ![Link(r, k)] = "Pending"]
         /\ Idle(Input(r, k)) /\ Notified(Input(r, k))
         /\ cb.kind = "all" /\ cb.chained = Link(r, k)
         /\ m_thenCallbacks' = [m_thenCallbacks EXCEPT ![Input(r, k)] = Append(@, cb)]
    BY <2>1, <2>3, <2>4, <2>6, <2>10 DEF p, c
  <2>15. UNCHANGED calls /\ \E g \in On(stack') : g.op = "all" /\ g.p = r /\ g.i = k + 1
    BY <2>1, <2>12
  <2> QED
    BY <2>2, <2>5, <2>11, <2>13, <2>14, <2>15, Zenon DEF AllHung, HungAt
<1>18. ASSUME NEW r \in Promises, AllEnds(r) PROVE Aside
  <2>1. /\ Top.op = "all" /\ Top.p = r /\ Top.i > Len(alls[r].inputs) /\ Leave
        /\ UNCHANGED <<m_promiseState, origin, m_thenCallbacks, calls>>
        /\ UNCHANGED alls \/ alls' = [alls EXCEPT ![r].hooked = TRUE]
    BY <1>18 DEF AllEnds, Running, lists, ghosts
  <2>2. SameTables /\ SameCounts
    BY <1>7, <2>1
  <2>3. Keeps /\ Brings
    BY <1>2, <1>4, <2>1 DEF Keeps, Brings
  <2> QED
    BY <2>1, <2>2, <2>3, NoneBorn DEF Aside
<1>19. ASSUME NEW r \in Promises, AllRelease(r) \/ AllCancel(r) PROVE Aside
  <2>1. PICK x : alls' = [alls EXCEPT ![r].freed = x]
    BY <1>19 DEF AllRelease, AllCancel
  <2>2. /\ UNCHANGED <<m_promiseState, origin, m_thenCallbacks, calls>>
        /\ Top.op \in {"allRelease", "allCancel"}
        /\ \/ Continue(<<>>)
           \/ Continue(ClosureReturns)
           \/ \E c : Continue(<<Call("cancel", c), next>>)
    BY <1>19 DEF AllRelease, AllCancel, Closure, Running, lists, next
  <2>3. /\ Top.op \notin Watched /\ Tame(next) /\ Tame(Frame("resolve", Top.p, 1, Plain))
        /\ \A c : Tame(Call("cancel", c))
    <3>1. Top.op \notin Watched /\ Tame(next)
      BY <1>3, <2>2 DEF Watched, Closures, Notifying, Tame
    <3>2. "resolve" \notin Closures /\ "cancel" \notin Closures
      BY DEF Closures
    <3> QED
      BY <3>1, <3>2, TameCalls
  <2>4. Keeps /\ Brings
    BY <1>6, <2>2, <2>3 DEF ClosureReturns
  <2> QED
    BY <1>7, <2>1, <2>2, <2>4, NoneBorn DEF Aside
<1>20. ASSUME NEW r \in Promises, AllFulfilled(r) \/ AllRejected(r) PROVE CountsOne
  <2> DEFINE a == alls[r]
             b == alls'[r]
  <2>1. /\ UNCHANGED <<m_promiseState, origin, m_thenCallbacks, calls>>
        /\ Top.op \in Closures
    BY <1>20 DEF AllFulfilled, AllRejected, Closure, Running, lists, ghosts, Closures
  <2>2. PICK k \in Places(r) : Link(r, k) = Top.p
    BY <1>20, PlacesAreNumbers DEF AllFulfilled, AllRejected, Closure, Link
  <2>3. IsAll(a) /\ \A s \in Promises \ {r} : alls'[s] = alls[s]
    BY <1>20 DEF AllsInv, AllFulfilled, AllRejected
  <2>4. \/ /\ a.done /\ b = a /\ Continue(ClosureReturns)
        \/ /\ ~a.done /\ Top.op = "allFulfilled"
           /\ b = [a EXCEPT !.remaining = a.remaining - 1, !.done = a.remaining = 1]
           /\ Continue(IF a.remaining = 1
                       THEN <<Frame("resolve", r, 1, Plain), Call("allRelease", Top.p)>>
                       ELSE ClosureReturns)
        \/ /\ ~a.done /\ Top.op = "allRejected"
           /\ b = [a EXCEPT !.done = TRUE]
           /\ Continue(<<Call("reject", r), Frame("allCancel", Top.p, 1, r)>>)
    <3>1. CASE AllFulfilled(r)
      BY <3>1 DEF AllFulfilled, AllsInv, Closure, Running
    <3>2. CASE AllRejected(r)
      BY <3>2 DEF AllRejected, AllsInv, Closure, Running
    <3> QED
      BY <1>20, <3>1, <3>2
  <2>5. /\ \A f \in On(stack) : f = Top \/ f \in On(stack')
        /\ \A g \in On(stack') : g.op \notin Closures /\ (g.op \in Notifying => g \in On(stack))
        /\ ~a.done /\ Top.op = "allFulfilled" /\ a.remaining = 1 =>
              \E g \in On(stack') : g.op = "resolve" /\ g.p = r
        /\ ~a.done /\ Top.op = "allRejected" => \E g \in On(stack') : g.op = "reject" /\ g.p = r
    <3>1. \A c, op, v : /\ IsFrame(Frame(op, c, 1, v)) /\ IsFrame(Call(op, c))
                        /\ Frame(op, c, 1, v).op = op /\ Call(op, c).op = op
                        /\ Frame(op, c, 1, v).p = c /\ Call(op, c).p = c
      BY FrameFields, 1 \in Nat \ {0} DEF Call
    <3>2. \/ On(stack') = {Frame("resolve", Top.p, 1, Plain)} \cup On(t)
             /\ ~(~a.done /\ Top.op = "allFulfilled" /\ a.remaining = 1)
             /\ ~(~a.done /\ Top.op = "allRejected")
          \/ On(stack') = {Frame("resolve", r, 1, Plain), Call("allRelease", Top.p)} \cup On(t)
             /\ Top.op = "allFulfilled"
          \/ On(stack') = {Call("reject", r), Frame("allCancel", Top.p, 1, r)} \cup On(t)
             /\ Top.op = "allRejected"
      <4>1. Continue(ClosureReturns) => On(stack') = {Frame("resolve", Top.p, 1, Plain)} \cup On(t)
        BY <1>4, Zenon DEF ClosureReturns
      <4>2. Continue(<<Frame("resolve", r, 1, Plain), Call("allRelease", Top.p)>>) =>
                On(stack') = {Frame("resolve", r, 1, Plain), Call("allRelease", Top.p)} \cup On(t)
        BY <1>4, <3>1, Zenon
      <4>3. Continue(<<Call("reject", r), Frame("allCancel", Top.p, 1, r)>>) =>
                On(stack') = {Call("reject", r), Frame("allCancel", Top.p, 1, r)} \cup On(t)
        BY <1>4, <3>1, Zenon
      <4>4. "allFulfilled" # "allRejected"
        OBVIOUS
      <4> HIDE DEF a, b, t
      <4> QED
        BY <2>4, <4>1, <4>2, <4>3, <4>4, Zenon
    <3> HIDE DEF a
    <3> QED
      BY <1>2, <3>1, <3>2 DEF Closures, Notifying
  <2>6. /\ b.inputs = a.inputs /\ b.chained = a.chained /\ b.bad = a.bad
        /\ IF a.done THEN b.remaining = a.remaining /\ b.done = a.done
           ELSE IF Top.op = "allFulfilled"
           THEN b.remaining = a.remaining - 1 /\ b.done = (a.remaining = 1)
           ELSE b.done
    <3> HIDE DEF a, b
    <3>1. CASE b = a /\ a.done
      BY <3>1
    <3>2. CASE ~a.done /\ Top.op = "allFulfilled"
               /\ b = [a EXCEPT !.remaining = a.remaining - 1, !.done = a.remaining = 1]
      <4> DEFINE x == a.remaining - 1
                 y == (a.remaining = 1)
                 c == [a EXCEPT !.remaining = x]
      <4>1. b = [c EXCEPT !.done = y]
        BY <3>2
      <4>2. IsAll(c)
        BY <2>3, FieldsAreFree
      <4> HIDE DEF x, y
      <4>3. c.inputs = a.inputs /\ c.chained = a.chained /\ c.bad = a.bad /\ c.remaining = x
        BY <2>3, RemainingField
      <4> HIDE DEF c
      <4>4. /\ b.inputs = c.inputs /\ b.chained = c.chained /\ b.bad = c.bad
            /\ b.remaining = c.remaining /\ b.done = y
        BY <4>1, <4>2, DoneField
      <4> QED
        BY <3>2, <4>3, <4>4 DEF x, y
    <3>3. CASE ~a.done /\ Top.op = "allRejected" /\ b = [a EXCEPT !.done = TRUE]
      BY <2>3, <3>3, DoneField
    <3> QED
      BY <2>4, <3>1, <3>2, <3>3
  <2>7. SameTables
    BY <2>1, <2>3, <2>6 DEF SameTables
  <2>8. IF a.done THEN b.remaining = a.remaining /\ b.done = a.done
        ELSE IF Top.op = "allFulfilled"
        THEN /\ b.remaining = a.remaining - 1 /\ b.done = (a.remaining = 1)
             /\ b.done => \E g \in On(stack') : g.op = "resolve" /\ g.p = r
        ELSE b.done /\ \E g \in On(stack') : g.op = "reject" /\ g.p = r
    <3> HIDE DEF a, b
    <3> QED
      BY <2>1, <2>5, <2>6 DEF Closures
  <2>9. /\ \A f \in On(stack) : f = Top \/ f \in On(stack')
        /\ \A g \in On(stack') : g.op \notin Closures /\ (g.op \in Notifying => g \in On(stack))
    BY <2>5
  <2> QED
    BY <1>1, <2>1, <2>2, <2>3, <2>7, <2>8, <2>9, Zenon DEF CountsOne
<1> QED
  BY <1>1, <1>8, <1>9, <1>10, <1>12, <1>13, <1>14, <1>15, <1>16, <1>17, <1>18, <1>19, <1>20
  DEF PromiseStep, StepKind

LEMMA StepKinds ==
    ASSUME StateType, AllsInv, TableInv, WalkInv, ListType, FramesInv, CallbackInv,
           [Next]_vars, Intact'
    PROVE  StepKind
<1>1. CASE UNCHANGED vars
  <2>1. UNCHANGED <<m_promiseState, origin, alls, m_thenCallbacks, calls, stack>>
    BY <1>1 DEF vars, lists, results, ghosts
  <2>2. Keeps /\ Brings
    BY <2>1, ZenonT(40) DEF Keeps, Brings
  <2> QED
    BY <2>1, <2>2, NoneBorn DEF StepKind, Aside, SameTables, SameCounts
<1> QED
  BY <1>1, ScriptKinds, FrameKinds, DefinedBefore DEF StepKind

-----------------------------------------------------------------------------
(* What is known of the calls under way stays true.                        *)

LEMMA TableMoves ==
    ASSUME StepKind
    PROVE  SameTables \/ \E r \in Promises : TableMade(r)
BY DEF StepKind, Aside, Hung, AllMade, AllHung, HungAt, Seen, Emptied, CountsOne

(* Whatever has been made keeps its origin and its table, and no table     *)
(* gets a promise that had been made before.                               *)
LEMMA MadeKeeps ==
    ASSUME StateType, AllsInv, TableInv, [Next]_vars, StepKind
    PROVE  /\ \A c \in Made : /\ c \in Made' /\ origin'[c] = origin[c]
                              /\ alls'[c].inputs = alls[c].inputs
                              /\ alls'[c].chained = alls[c].chained
           /\ \A c \in Made \ ChainedByAll : c \notin ChainedByAll'
           /\ \A r \in Promises : \A k \in Places(r)' :
                 Link(r, k)' \in Made =>
                     k \in Places(r) /\ Link(r, k)' = Link(r, k) /\ Input(r, k)' = Input(r, k)
<1> DEFINE Kept(r) == alls'[r].inputs = alls[r].inputs /\ alls'[r].chained = alls[r].chained
<1>1. AllsInv'
  BY AllsStep
<1>2. \A r \in Promises : Places(r)' = DOMAIN alls'[r].chained
  <2>1. ASSUME NEW r \in Promises PROVE Places(r)' = DOMAIN alls'[r].chained
    <3>1. IsAll(alls[r])'
      BY <1>1 DEF AllsInv
    <3>2. /\ alls'[r].inputs \in Seq(Made') /\ alls'[r].chained \in Seq(Promises)
          /\ Len(alls'[r].inputs) = Len(alls'[r].chained)
      <4>1. PICK pair \in Inputs' : \E b, w, n, d, f, h :
                alls'[r] = Table(pair[1], b, pair[2], w, n, d, f, h)
        BY <3>1 DEF IsAll
      <4>2. alls'[r].inputs = pair[1] /\ alls'[r].chained = pair[2]
        BY <4>1 DEF Table
      <4> QED
        BY <4>2 DEF Inputs
    <3> QED
      BY <3>2 DEF Places
  <2> QED
    BY <2>1
<1>3. \A c \in Made : c \in Made'
  BY MadeStays
<1>4. \A r \in Promises : Kept(r) => Places(r)' = Places(r)
          /\ \A k : Link(r, k)' = Link(r, k) /\ Input(r, k)' = Input(r, k)
  BY DEF Places, Link, Input
<1>5. CASE SameTables
  <2>1. \A r \in Promises : Kept(r)
    BY <1>5 DEF SameTables
  <2>2. \A c \in Made : origin'[c] = origin[c]
    BY <1>5 DEF SameTables, Born, Made
  <2>3. ChainedByAll' = ChainedByAll
    BY <2>1 DEF ChainedByAll
  <2> QED
    BY <1>3, <1>4, <2>1, <2>2, <2>3 DEF Made
<1>6. ASSUME NEW r \in Promises, TableMade(r)
      PROVE  /\ \A c \in Made : origin'[c] = origin[c] /\ Kept(c)
             /\ \A c \in Made : c \in ChainedByAll' => c \in ChainedByAll
             /\ \A s \in Promises : \A k \in Places(s)' :
                   Link(s, k)' \in Made =>
                     k \in Places(s) /\ Link(s, k)' = Link(s, k) /\ Input(s, k)' = Input(s, k)
  <2>1. r \notin Made
    BY <1>6 DEF TableMade, Fresh, Made
  <2>2. \A s \in Promises : s # r => Kept(s)
    BY <1>6 DEF TableMade
  <2>3. \A k \in Places(r)' : Link(r, k)' \notin Made
    BY <1>2, <1>6 DEF TableMade, Fresh, Made, Link
  <2>4. \A c \in Made : origin'[c] = origin[c]
    BY <1>6, <2>1 DEF TableMade, Made, TableInv
  <2>5. \A c \in Made : c \in ChainedByAll' => c \in ChainedByAll
    <3>1. ASSUME NEW c \in Made, NEW s \in Promises, NEW k \in DOMAIN alls'[s].chained,
                 alls'[s].chained[k] = c
          PROVE  c \in ChainedByAll
      <4>1. s # r
        BY <1>2, <2>3, <3>1 DEF Link
      <4>2. alls'[s].chained = alls[s].chained
        BY <2>2, <4>1
      <4> QED
        BY <3>1, <4>2 DEF ChainedByAll
    <3> QED
      BY <3>1 DEF ChainedByAll
  <2> QED
    BY <1>4, <2>1, <2>2, <2>3, <2>4, <2>5 DEF Made
<1> QED
  BY <1>3, <1>5, <1>6, TableMoves

(* A handler that has run stays so.                                        *)
LEMMA CalledStays ==
    ASSUME StateType, AllsInv, WalkInv, ListType, HandlerInv, HandlerInv', [Next]_vars, Intact',
           NEW c \in Promises, calls[c] = 1
    PROVE  calls'[c] = 1
<1>1. Intact /\ (Still \/ Added \/ Visited \/ Cleared)
  BY HandlerMoves
<1>2. calls \in [Promises -> {0, 1}] /\ calls' \in [Promises -> {0, 1}]
  BY DEF HandlerInv
<1>3. UNCHANGED calls \/ \E d : calls' = [calls EXCEPT ![d] = @ + 1]
  BY <1>1 DEF Still, Added, Visited, Cleared
<1> QED
  BY <1>2, <1>3

LEMMA FrameStays ==
    ASSUME StateType, AllsInv, TableInv, WalkInv, ListType, HandlerInv, HandlerInv',
           [Next]_vars, StepKind, Intact'
    PROVE  \A f : FrameOK(f) => FrameOK(f)'
<1> SUFFICES ASSUME NEW f, FrameOK(f) PROVE FrameOK(f)'
  OBVIOUS
<1>1. /\ \A c \in Made : /\ c \in Made' /\ origin'[c] = origin[c]
                         /\ alls'[c].inputs = alls[c].inputs
                         /\ alls'[c].chained = alls[c].chained
      /\ \A c \in Made \ ChainedByAll : c \notin ChainedByAll'
      /\ \A r \in Promises : \A k \in Places(r)' :
            Link(r, k)' \in Made =>
                k \in Places(r) /\ Link(r, k)' = Link(r, k) /\ Input(r, k)' = Input(r, k)
  BY MadeKeeps
<1>2. \A p \in Promises : m_promiseState[p] \in Settled => m_promiseState'[p] = m_promiseState[p]
  BY SettledPersists
<1>3. \A c : Owned(c) => Owned(c)'
  BY <1>1 DEF Owned
<1>4. \A p \in Promises, s \in Settled : m_promiseState[p] = s => m_promiseState'[p] = s
  BY <1>2
<1>5. Made \subseteq Promises /\ \A r \in Promises : \A k \in Places(r) : Input(r, k) \in Promises
  BY PlacesAreNumbers DEF Made
<1>6. f.op \in Notifying => f.p \in Made' /\ m_promiseState'[f.p] \in Answered
  BY <1>1, <1>4, <1>5 DEF FrameOK, Answered, Settled
<1>7. f.op = "script" /\ f.v # "hook" => Owned(f.p)'
  BY <1>3 DEF FrameOK
<1>8. ASSUME f.p \in Made
      PROVE  /\ origin'[f.p] = origin[f.p] /\ f.p \in Made' /\ Places(f.p)' = Places(f.p)
             /\ \A k \in Places(f.p) : Input(f.p, k)' = Input(f.p, k)
             /\ \A k \in Places(f.p), s \in Settled : m_promiseState[Input(f.p, k)] = s
                                              => m_promiseState'[Input(f.p, k)'] = s
  BY <1>1, <1>4, <1>5, <1>8 DEF Places, Input
<1>9. f.op = "resolve" =>
          \/ Owned(f.p)'
          \/ /\ f.v = Plain /\ f.p \in Made'
             /\ origin'[f.p] = "all" =>
                   \A k \in Places(f.p)' : m_promiseState'[Input(f.p, k)'] = "Fulfilled"
  BY <1>3, <1>8 DEF FrameOK, Settled
<1>10. f.op = "reject" =>
          /\ f.p \in Made'
          /\ origin'[f.p] = "all" =>
                \E k \in Places(f.p)' : m_promiseState'[Input(f.p, k)'] = "Rejected"
  BY <1>8 DEF FrameOK, Settled
<1>11. /\ f.op \in Closures \cup {"allRelease"} => f.p \in Made' /\ origin'[f.p] # "all"
       /\ f.op = "allCancel" => f.p \in Made' /\ (f.p # f.v => origin'[f.p] # "all")
  BY <1>8 DEF FrameOK
<1>12. f.op \in Closures =>
          /\ calls'[f.p] = 1
          /\ \A r \in Promises : \A k \in Places(r)' :
                Link(r, k)' = f.p =>
                    m_promiseState'[Input(r, k)'] = IF f.op = "allFulfilled" THEN "Fulfilled"
                                                                            ELSE "Rejected"
  <2> SUFFICES ASSUME f.op \in Closures
               PROVE  /\ calls'[f.p] = 1
                      /\ \A r \in Promises : \A k \in Places(r)' :
                            Link(r, k)' = f.p =>
                                m_promiseState'[Input(r, k)'] =
                                    IF f.op = "allFulfilled" THEN "Fulfilled" ELSE "Rejected"
    OBVIOUS
  <2>1. f.p \in Made /\ f.p \in Promises /\ calls[f.p] = 1
    BY <1>5 DEF FrameOK
  <2>2. calls'[f.p] = 1
    BY <2>1, CalledStays
  <2>3. ASSUME NEW r \in Promises, NEW k \in Places(r)', Link(r, k)' = f.p
        PROVE  m_promiseState'[Input(r, k)'] =
                   IF f.op = "allFulfilled" THEN "Fulfilled" ELSE "Rejected"
    <3>1. k \in Places(r) /\ Link(r, k) = f.p /\ Input(r, k)' = Input(r, k)
      BY <1>1, <2>1, <2>3
    <3>2. m_promiseState[Input(r, k)] = IF f.op = "allFulfilled" THEN "Fulfilled" ELSE "Rejected"
      BY <3>1 DEF FrameOK
    <3> QED
      BY <1>4, <1>5, <3>1, <3>2 DEF Settled
  <2> QED
    BY <2>2, <2>3
<1> QED
  BY <1>6, <1>7, <1>9, <1>10, <1>11, <1>12 DEF FrameOK

(* What is to be known of a new call, by its kind.                         *)
LEMMA NewFramesAfter ==
    ASSUME NEW f
    PROVE  /\ f.op \in {"cancel", "cancelled", "down", "drop", "all"} => FrameOK(f)'
           /\ f.op = "script" /\ (f.v = "hook" \/ Owned(f.p)') => FrameOK(f)'
           /\ f.op \in {"resolve", "reject"} /\ Owned(f.p)' => FrameOK(f)'
           /\ f.op \in Notifying /\ f.p \in Made' /\ m_promiseState'[f.p] \in Answered => FrameOK(f)'
           /\ /\ f.op \in {"resolve", "reject", "allRelease", "allCancel"}
              /\ f.op = "resolve" => f.v = Plain
              /\ f.p \in Made' /\ origin'[f.p] # "all"
              => FrameOK(f)'
  BY DEF FrameOK, Notifying, Closures, Owned

LEMMA FrameIs ==
    ASSUME NEW op, NEW p, NEW i \in Nat \ {0}, NEW v
    PROVE  LET f == Frame(op, p, i, v) IN IsFrame(f) /\ f.op = op /\ f.p = p /\ f.i = i /\ f.v = v
<1>1. Frame(op, p, i, v).v = v
  BY DEF Frame
<1> QED
  BY <1>1, FrameFields

(* Scripts: what they are handed is theirs to settle.                      *)
LEMMA ScriptFrames ==
    ASSUME StateType, AllsInv, TableInv, WalkInv, FramesInv, ScriptStep, Intact',
           \A f : FrameOK(f) => FrameOK(f)',
           \A c \in Made : c \in Made' /\ origin'[c] = origin[c],
           \A c : Owned(c) => Owned(c)'
    PROVE  FramesInv'
<1>1. Intact /\ StackOK(m_promiseState, stack) /\ IsStack(stack)
      /\ (stack # <<>> => Top.op = "script" /\ FrameOK(Top))
  <2>1. Intact /\ StackOK(m_promiseState, stack) /\ IsStack(stack)
    BY DefinedBefore DEF Next
  <2>2. stack # <<>> => On(stack) = {Top} \cup On(Tail(stack))
    BY <2>1, OnTop DEF Top
  <2>3. stack # <<>> => Top.op = "script"
    BY DEF ScriptStep, Scripting
  <2> QED
    BY <2>1, <2>2, <2>3 DEF FramesInv
<1>2. /\ UNCHANGED stack => FramesInv'
      /\ stack # <<>> /\ (Leave \/ Continue(<<>>)) => FramesInv'
      /\ \A f : IsFrame(f) /\ FrameOK(f)' =>
            /\ stack' = <<f>> \o stack => FramesInv'
            /\ stack # <<>> /\ Continue(<<f>>) => FramesInv'
  BY <1>1, FramesAfter DEF Closures
<1>3. \A op, p, v : LET f == Frame(op, p, 1, v) IN IsFrame(f) /\ f.op = op /\ f.p = p /\ f.v = v
  BY FrameIs, 1 \in Nat \ {0}
<1>4. ASSUME NEW c \in Promises, m_promiseState[c] = "unused", UNCHANGED alls, c \notin ChainedByAll,
             m_promiseState' = [m_promiseState EXCEPT ![c] = "Pending"],
             origin'[c] # "all"
      PROVE  Owned(c)'
  BY <1>4 DEF Owned, Made, ChainedByAll, StateType
<1>5. ASSUME NEW p, NEW c, p \in Known, stack' = NotifyIfSettled(p, c) \o stack
      PROVE  FramesInv'
  <2>1. CASE isPending(p) \/ isCancelled(p)
    <3>1. stack' = <<>> \o stack
      BY <1>5, <2>1 DEF NotifyIfSettled
    <3> QED
      BY <1>1, <1>2, <3>1, PushNone
  <2>2. CASE ~(isPending(p) \/ isCancelled(p))
    <3> DEFINE f == Frame("renotify", p, 1, c)
    <3>1. stack' = <<f>> \o stack
      BY <1>5, <2>2 DEF NotifyIfSettled
    <3>2. IsFrame(f) /\ f.op = "renotify" /\ f.p = p
      BY <1>3
    <3>3. p \in Made' /\ m_promiseState'[p] \in Answered
      <4>1. p \in Made /\ p \in Promises /\ m_promiseState[p] \in Answered
        BY <1>5, <2>2 DEF Known, Made, StateType, Answered, Settled, isPending, isCancelled
      <4>2. m_promiseState'[p] = m_promiseState[p]
        BY <4>1, SettledPersists DEF Answered, Settled, Next
      <4> QED
        BY <4>1, <4>2
    <3> HIDE DEF f
    <3>4. FrameOK(f)'
      BY <3>2, <3>3, NewFramesAfter DEF Notifying
    <3> QED
      BY <1>2, <3>1, <3>2, <3>4
  <2> QED
    BY <2>1, <2>2
<1>6. ASSUME NEW p \in Promises, New(p) \/ OnCancel(p) PROVE FramesInv'
  BY <1>2, <1>6 DEF New, OnCancel
<1>7. ASSUME NEW p \in Promises, lua_async(p) PROVE FramesInv'
  <2>1. Owned(p)'
    <3>1. /\ UNCHANGED alls /\ p \notin ChainedByAll /\ m_promiseState[p] = "unused"
          /\ m_promiseState' = [m_promiseState EXCEPT ![p] = "Pending"]
          /\ origin' = [origin EXCEPT ![p] = "async"]
      BY <1>7 DEF lua_async, Fresh, results
    <3>2. origin'[p] # "all"
      BY <3>1 DEF TableInv
    <3> QED
      BY <1>4, <3>1, <3>2
  <2> DEFINE f == Script(p, "coroutine")
  <2>2. IsFrame(f) /\ f.op = "script" /\ f.p = p /\ stack' = <<f>> \o stack
    BY <1>3, <1>7 DEF lua_async, Script
  <2> HIDE DEF f
  <2> QED
    BY <1>2, <2>1, <2>2, NewFramesAfter
<1>8. ASSUME NEW p \in Promises, NEW c \in Promises, \/ \E on : AndThen(p, c, on)
                                                     \/ \E called : Finally(p, c, called)
      PROVE  FramesInv'
  BY <1>5, <1>8 DEF AndThen, Finally
<1>9. ASSUME NEW p \in Promises, Cancel(p) PROVE FramesInv'
  <2> DEFINE f == Call("cancel", p)
  <2>1. IsFrame(f) /\ f.op = "cancel" /\ stack' = <<f>> \o stack
    BY <1>3, <1>9 DEF Cancel, Call
  <2> HIDE DEF f
  <2> QED
    BY <1>2, <2>1, NewFramesAfter
<1>10. ASSUME NEW p \in Promises, NEW v, Settle(p, v) PROVE FramesInv'
  <2>1. PICK f : f \in {Frame("resolve", p, 1, v), Call("reject", p)} /\ stack' = <<f>> \o stack
    BY <1>10 DEF Settle
  <2>2. Owned(p)
    <3>1. p \in Made /\ origin[p] = "new"
      BY <1>10 DEF Settle, isPending, Made
    <3>2. p \notin ChainedByAll
      BY <3>1, ChainedIsLinked DEF TableInv
    <3> QED
      BY <3>1, <3>2 DEF Owned
  <2>3. IsFrame(f) /\ f.op \in {"resolve", "reject"} /\ f.p = p
    BY <1>3, <2>1 DEF Call
  <2>4. FrameOK(f)'
    BY <2>2, <2>3, NewFramesAfter
  <2> QED
    BY <1>2, <2>1, <2>3, <2>4
<1>11. ASSUME NEW r \in Promises, All(r) PROVE FramesInv'
  <2>1. TableMade(r)
    BY <1>11, AllMakesTable
  <2>2. PICK n \in Nat : /\ alls'[r].inputs \in [1..n -> Promises]
                         /\ IF n = 0 THEN stack' = <<Frame("resolve", r, 1, Plain)>> \o stack
                                     ELSE stack' = <<Call("all", r)>> \o stack
    BY <2>1 DEF TableMade
  <2>3. CASE n = 0
    <3> DEFINE f == Frame("resolve", r, 1, Plain)
    <3>1. IsFrame(f) /\ f.op = "resolve" /\ f.p = r /\ f.v = Plain
      BY <1>3
    <3>2. Places(r)' = {}
      BY <2>2, <2>3 DEF Places
    <3>3. r \in Made'
      BY <2>1 DEF TableMade, Made, StateType
    <3> HIDE DEF f
    <3>4. FrameOK(f)'
      BY <3>1, <3>2, <3>3 DEF FrameOK, Notifying, Closures
    <3> QED
      BY <1>2, <2>2, <2>3, <3>1, <3>4 DEF f
  <2>4. CASE n # 0
    <3> DEFINE f == Call("all", r)
    <3>1. IsFrame(f) /\ f.op = "all" /\ stack' = <<f>> \o stack
      BY <1>3, <2>2, <2>4 DEF Call
    <3> HIDE DEF f
    <3> QED
      BY <1>2, <3>1, NewFramesAfter
  <2> QED
    BY <2>3, <2>4
<1>12. ASSUME NEW p \in Promises, lua_await(p) PROVE FramesInv'
  BY <1>2, <1>12 DEF lua_await, Awaitable, Running
<1>13. ASSUME NEW v, Return(v) PROVE FramesInv'
  <2>1. stack # <<>>
    BY <1>13 DEF Return, Running
  <2>2. CASE Top.v = "hook"
    BY <1>2, <1>13, <2>1, <2>2 DEF Return
  <2>3. CASE Top.v # "hook"
    <3>1. \E f : /\ f \in {Propagate(stack[2].p, Top.p), Frame("resolve", Top.p, 1, v)}
                 /\ Continue(<<f>>)
      BY <1>13, <2>3 DEF Return
    <3>2. PICK f : /\ f \in {Propagate(stack[2].p, Top.p), Frame("resolve", Top.p, 1, v)}
                   /\ Continue(<<f>>)
      BY <3>1
    <3>3. IsFrame(f) /\ f.op \in {"resolve", "reject"} /\ f.p = Top.p
      BY <1>3, <3>2 DEF Propagate, Call
    <3>4. Owned(f.p)
      BY <1>1, <2>1, <2>3, <3>3 DEF FrameOK
    <3>5. FrameOK(f)'
      BY <3>3, <3>4, NewFramesAfter
    <3> QED
      BY <1>2, <2>1, <3>2, <3>3, <3>5
  <2> QED
    BY <2>2, <2>3
<1>14. ASSUME Throw PROVE FramesInv'
  <2>1. PICK f : f = Call("reject", Top.p) /\ Continue(<<f>>)
    BY <1>14 DEF Throw
  <2>2. IsFrame(f) /\ f.op = "reject" /\ f.p = Top.p
    BY <1>3, <2>1 DEF Call
  <2>3. stack # <<>> /\ Owned(f.p)
    BY <1>1, <1>14, <2>2 DEF Throw, Running, FrameOK
  <2>4. FrameOK(f)'
    BY <2>2, <2>3, NewFramesAfter
  <2> QED
    BY <1>2, <2>1, <2>2, <2>3, <2>4
<1> QED
  BY <1>6, <1>7, <1>8, <1>9, <1>10, <1>11, <1>12, <1>13, <1>14 DEF ScriptStep

(* The numbers that are in a table.                                        *)
WiredInv == \A r \in Promises : alls[r].wired \in Nat

LEMMA WiredField ==
    ASSUME NEW a, IsAll(a), NEW x
    PROVE  /\ [a EXCEPT !.wired = x].wired = x
           /\ [a EXCEPT !.remaining = x].wired = a.wired
           /\ [a EXCEPT !.done = x].wired = a.wired
           /\ [a EXCEPT !.freed = x].wired = a.wired
           /\ [a EXCEPT !.hooked = x].wired = a.wired
<1>1. PICK i, bad, c, w, n, d, f, h : a = Table(i, bad, c, w, n, d, f, h)
  BY DEF IsAll
<1>2. [a EXCEPT !.wired = x] = Table(i, bad, c, x, n, d, f, h) /\ a.wired = w
  BY <1>1 DEF Table
<1>3. [a EXCEPT !.remaining = x] = Table(i, bad, c, w, x, d, f, h)
  BY <1>1 DEF Table
<1>4. [a EXCEPT !.done = x] = Table(i, bad, c, w, n, x, f, h)
  BY <1>1 DEF Table
<1>5. [a EXCEPT !.freed = x] = Table(i, bad, c, w, n, d, x, h)
  BY <1>1 DEF Table
<1>6. [a EXCEPT !.hooked = x] = Table(i, bad, c, w, n, d, f, x)
  BY <1>1 DEF Table
<1> QED
  BY <1>2, <1>3, <1>4, <1>5, <1>6 DEF Table

LEMMA WiredStep ==
    ASSUME AllsInv, WalkInv, WiredInv, [Next]_vars
    PROVE  WiredInv'
<1>1. ASSUME NEW r \in Promises, NEW a, a.wired \in Nat, alls' = [alls EXCEPT ![r] = a]
      PROVE  WiredInv'
  BY <1>1 DEF WiredInv, AllsInv
<1>2. CASE UNCHANGED alls
  BY <1>2 DEF WiredInv
<1>11. ASSUME NEW r \in Promises, NEW x
       PROVE  /\ [alls[r] EXCEPT !.wired = x].wired = x
              /\ [alls[r] EXCEPT !.remaining = x].wired = alls[r].wired
              /\ [alls[r] EXCEPT !.done = x].wired = alls[r].wired
              /\ [alls[r] EXCEPT !.freed = x].wired = alls[r].wired
              /\ [alls[r] EXCEPT !.hooked = x].wired = alls[r].wired
  <2> DEFINE a == alls[r]
  <2>1. IsAll(a)
    BY DEF AllsInv
  <2> HIDE DEF a
  <2>2. /\ [a EXCEPT !.wired = x].wired = x
        /\ [a EXCEPT !.remaining = x].wired = a.wired
        /\ [a EXCEPT !.done = x].wired = a.wired
        /\ [a EXCEPT !.freed = x].wired = a.wired
        /\ [a EXCEPT !.hooked = x].wired = a.wired
    BY <2>1, WiredField
  <2> QED
    BY <2>2 DEF a
<1>3. ASSUME NEW r \in Promises, All(r) PROVE WiredInv'
  <2>1. PICK i, bad, c : alls' = [alls EXCEPT ![r] = NewAll(i, bad, c)]
    BY <1>3 DEF All
  <2>2. PICK n : NewAll(i, bad, c) = Table(i, bad, c, 0, n, FALSE, {}, FALSE)
    BY NewTable
  <2>3. NewAll(i, bad, c).wired \in Nat
    BY <2>2 DEF Table
  <2> QED
    BY <1>1, <2>1, <2>3
<1>4. ASSUME NEW p \in Promises, OnCancel(p) \/ AllEnds(p) PROVE WiredInv'
  <2>1. UNCHANGED alls \/ \E x : alls' = [alls EXCEPT ![p] = [alls[p] EXCEPT !.hooked = x]]
    BY <1>4 DEF OnCancel, AllEnds
  <2>2. ASSUME NEW x, alls' = [alls EXCEPT ![p] = [alls[p] EXCEPT !.hooked = x]] PROVE WiredInv'
    BY <1>1, <1>11, <2>2 DEF WiredInv
  <2> QED
    BY <1>2, <2>1, <2>2
<1>5. ASSUME NEW p \in Promises, AllInput(p) PROVE WiredInv'
  <2>1. alls' = [alls EXCEPT ![p] = [alls[p] EXCEPT !.wired = Top.i]]
    BY <1>5 DEF AllInput
  <2>2. Top.i \in Nat
    <3>1. stack # <<>> /\ IsStack(stack)
      BY <1>5 DEF AllInput, Running, WalkInv, LiveOK
    <3>2. PICK S : stack \in Seq(S) /\ \A g \in S : IsFrame(g)
      BY <3>1 DEF IsStack
    <3>3. IsFrame(Top)
      BY <3>1, <3>2, HeadTailProperties, EmptySeq DEF Top
    <3> QED
      BY <3>3, NextPlace
  <2>3. [alls[p] EXCEPT !.wired = Top.i].wired = Top.i
    BY <1>11
  <2> QED
    BY <1>1, <2>1, <2>2, <2>3
<1>6. ASSUME NEW r \in Promises, AllFulfilled(r) PROVE WiredInv'
  <2>1. CASE ~alls[r].done
    <3> DEFINE b == [alls[r] EXCEPT !.remaining = alls[r].remaining - 1]
               d == alls[r].remaining = 1
    <3>1. alls' = [alls EXCEPT ![r] = [b EXCEPT !.done = d]]
      BY <1>6, <2>1 DEF AllFulfilled, AllsInv
    <3>2. IsAll(b) /\ b.wired \in Nat
      <4>1. IsAll(alls[r])
        BY DEF AllsInv
      <4>2. IsAll(b)
        BY <4>1, FieldsAreFree
      <4>3. b.wired = alls[r].wired
        BY <1>11
      <4> HIDE DEF b
      <4> QED
        BY <4>2, <4>3 DEF WiredInv
    <3> HIDE DEF b, d
    <3>3. [b EXCEPT !.done = d].wired = b.wired
      BY <3>2, WiredField
    <3> QED
      BY <1>1, <3>1, <3>2, <3>3
  <2> QED
    BY <1>2, <1>6, <2>1 DEF AllFulfilled
<1>7. ASSUME NEW r \in Promises, AllRejected(r) PROVE WiredInv'
  <2>1. UNCHANGED alls \/ alls' = [alls EXCEPT ![r] = [alls[r] EXCEPT !.done = TRUE]]
    BY <1>7 DEF AllRejected
  <2> QED
    <3>1. CASE UNCHANGED alls
      BY <1>2, <3>1
    <3>2. CASE alls' = [alls EXCEPT ![r] = [alls[r] EXCEPT !.done = TRUE]]
      <4>1. [alls[r] EXCEPT !.done = TRUE].wired = alls[r].wired
        BY <1>11
      <4> QED
        BY <1>1, <3>2, <4>1 DEF WiredInv
    <3> QED
      BY <2>1, <3>1, <3>2
<1>8. ASSUME NEW r \in Promises, AllRelease(r) \/ AllCancel(r) PROVE WiredInv'
  <2>1. PICK x : alls' = [alls EXCEPT ![r] = [alls[r] EXCEPT !.freed = x]]
    BY <1>8 DEF AllRelease, AllCancel
  <2> QED
    BY <1>1, <1>11, <2>1 DEF WiredInv
<1>9. CASE ScriptStep
  <2>1. ASSUME NEW p, NEW c, (\E on : AndThen(p, c, on)) \/ \E called : Finally(p, c, called)
        PROVE  UNCHANGED alls
    BY <2>1 DEF AndThen, Finally, results
  <2>2. ASSUME NEW p, \/ New(p) \/ Cancel(p) \/ lua_async(p) \/ lua_await(p)
                      \/ \E v : Settle(p, v)
        PROVE  UNCHANGED alls
    BY <2>2 DEF New, Cancel, lua_async, lua_await, Settle, results
  <2>3. ASSUME (\E v : Return(v)) \/ Throw PROVE UNCHANGED alls
    BY <2>3 DEF Return, Throw, results
  <2> QED
    BY <1>2, <1>3, <1>4, <1>9, <2>1, <2>2, <2>3 DEF ScriptStep
<1>10. CASE PromiseStep
  <2>1. ASSUME NEW p, ResolveValue(p) \/ reject(p) \/ CancelStarts(p) PROVE UNCHANGED alls
    BY <2>1 DEF ResolveValue, reject, CancelStarts, results
  <2>2. ASSUME NEW p, NEW inner, ResolveSettled(p, inner) \/ ResolveAdopts(p, inner)
        PROVE  UNCHANGED alls
    BY <2>2 DEF ResolveSettled, ResolveAdopts, results
  <2>3. ASSUME NEW p, NotifyThen(p) \/ NotifyFinally(p) \/ NotifyEnds(p) PROVE UNCHANGED alls
    BY <2>3 DEF NotifyThen, NotifyFinally, NotifyEnds, results
  <2>4. ASSUME NEW p, HookCalled(p) \/ CancelLinked(p) \/ CancelCallback(p) \/ CancelEnds(p)
        PROVE  UNCHANGED alls
    BY <2>4 DEF HookCalled, CancelLinked, CancelCallback, CancelEnds, results
  <2>5. ASSUME ResolveIgnored PROVE UNCHANGED alls
    BY <2>5 DEF ResolveIgnored, results
  <2> QED
    BY <1>2, <1>4, <1>5, <1>6, <1>7, <1>8, <1>10, <2>1, <2>2, <2>3, <2>4, <2>5 DEF PromiseStep
<1> QED
  BY <1>2, <1>9, <1>10 DEF Next, Rest, LoseList, vars, results

(* The closure that runs has not been counted.                             *)
LEMMA LastOne ==
    ASSUME AllsInv, NEW r \in Promises, NEW k \in Places(r), Link(r, k) = Top.p,
           Top \in On(stack), Top.op \in Closures,
           Cardinality(Counted(r)) + alls[r].remaining = Owing(r),
           alls[r].remaining = 1
    PROVE  \A j \in Places(r) : j = k \/ j \in Counted(r)
<1> DEFINE n == Len(alls[r].inputs)
           D == Counted(r) \cup {k}
<1>1. n \in Nat /\ Places(r) = 1..n
  BY PlacesAreNumbers
<1>2. Counted(r) \subseteq Places(r) /\ k \notin Counted(r)
  BY DEF Counted, Ran
<1>3. IsFiniteSet(1..n) /\ Cardinality(1..n) = n
  BY <1>1, FS_Interval
<1>4. IsFiniteSet(Counted(r))
  BY <1>1, <1>2, <1>3, FS_Subset
<1>5. Cardinality(Counted(r)) \in Nat
  BY <1>4, FS_CardinalityType
<1>6. IsFiniteSet(D) /\ Cardinality(D) = Cardinality(Counted(r)) + 1
  BY <1>2, <1>4, FS_AddElement
<1>7. D \subseteq 1..n
  BY <1>1, <1>2
<1>8. Cardinality(D) = n
  <2>1. Cardinality(D) <= n
    BY <1>3, <1>7, FS_Subset
  <2> QED
    BY <1>1, <1>5, <1>6, <2>1 DEF Owing
<1>9. D = 1..n
  BY <1>3, <1>7, <1>8, FS_Subset
<1> QED
  BY <1>1, <1>9

(* The promise code: what it settles, it may settle.                       *)
LEMMA FrameFrames ==
    ASSUME StateType, AllsInv, TableInv, WalkInv, WiredInv, ListType, HandlerInv, HandlerInv',
           FramesInv, CallbackInv, CountInv, PromiseStep, Intact',
           \A f : FrameOK(f) => FrameOK(f)',
           \A c \in Made : c \in Made' /\ origin'[c] = origin[c],
           \A c \in Made : alls'[c].inputs = alls[c].inputs,
           \A c : Owned(c) => Owned(c)'
    PROVE  FramesInv'
<1>1. Intact /\ stack # <<>> /\ StackOK(m_promiseState, stack) /\ IsStack(stack)
  BY DefinedBefore, FramesRun DEF Next
<1>2. /\ Top \in On(stack) /\ IsFrame(Top) /\ Good(m_promiseState, Top) /\ FrameOK(Top)
  BY <1>1, OnTop, PopOne DEF Top, StackOK, FramesInv
<1>0. PICK next : next = [Top EXCEPT !.i = @ + 1]
  OBVIOUS
<1>3. /\ IsFrame(next) /\ next.op = Top.op /\ next.p = Top.p /\ next.v = Top.v
      /\ Top.i \in Nat \ {0}
  BY <1>0, <1>2, NextPlace
<1>4. FrameOK(next)'
  BY <1>2, <1>3 DEF FrameOK
<1>5. /\ Leave \/ Continue(<<>>) => FramesInv'
      /\ \A f : IsFrame(f) /\ FrameOK(f)' =>
            /\ Continue(<<f>>) => FramesInv'
            /\ \A g : IsFrame(g) /\ FrameOK(g)' /\ g.op \notin Closures =>
                   (Continue(<<f, g>>) => FramesInv')
  BY <1>1, FramesAfter
<1>6. \A op, p, v : LET f == Frame(op, p, 1, v) IN IsFrame(f) /\ f.op = op /\ f.p = p /\ f.v = v
  BY FrameIs, 1 \in Nat \ {0}
<1>7. \A op \in {"cancel", "cancelled", "down", "drop"} : \A p :
          IsFrame(Call(op, p)) /\ FrameOK(Call(op, p))' /\ Call(op, p).op = op
  BY <1>6, NewFramesAfter DEF Call
<1>8. \A p, what : what = "hook" \/ Owned(p) => IsFrame(Script(p, what)) /\ FrameOK(Script(p, what))'
  <2>1. ASSUME NEW p, NEW what, what = "hook" \/ Owned(p)
        PROVE  IsFrame(Script(p, what)) /\ FrameOK(Script(p, what))'
    <3> DEFINE f == Script(p, what)
    <3>1. IsFrame(f) /\ f.op = "script" /\ f.p = p /\ f.v = what
      BY <1>6 DEF Script
    <3> HIDE DEF f
    <3>2. f.v = "hook" \/ Owned(f.p)'
      BY <2>1, <3>1
    <3>3. FrameOK(f)'
      BY <3>1, <3>2, NewFramesAfter
    <3> QED
      BY <3>1, <3>3 DEF f
  <2> QED
    BY <2>1
<1>9. ASSUME NEW op \in {"resolve", "reject"}, NEW p, NEW v, Owned(p)
      PROVE  IsFrame(Frame(op, p, 1, v)) /\ FrameOK(Frame(op, p, 1, v))'
  <2> DEFINE f == Frame(op, p, 1, v)
  <2>1. IsFrame(f) /\ f.op = op /\ f.p = p
    BY <1>6
  <2> HIDE DEF f
  <2>2. Owned(f.p)'
    BY <1>9, <2>1
  <2>3. FrameOK(f)'
    BY <1>9, <2>1, <2>2, NewFramesAfter
  <2> QED
    BY <2>1, <2>3 DEF f
<1>10. ASSUME NEW p, NEW c, Owned(c), NEW f, f = Propagate(p, c)
       PROVE  IsFrame(f) /\ FrameOK(f)'
  <2>1. PICK op \in {"resolve", "reject"} : \E v : f = Frame(op, c, 1, v)
    BY <1>10 DEF Propagate, Call
  <2>2. PICK v : f = Frame(op, c, 1, v)
    BY <2>1
  <2>3. IsFrame(Frame(op, c, 1, v)) /\ FrameOK(Frame(op, c, 1, v))'
    BY <1>9, <1>10
  <2> QED
    BY <2>2, <2>3
<1>11. ASSUME NEW op \in Notifying, NEW p \in Made', m_promiseState'[p] \in Answered, NEW v
       PROVE  IsFrame(Frame(op, p, 1, v)) /\ FrameOK(Frame(op, p, 1, v))'
  <2> DEFINE f == Frame(op, p, 1, v)
  <2>1. IsFrame(f) /\ f.op = op /\ f.p = p
    BY <1>6
  <2> HIDE DEF f
  <2>2. FrameOK(f)'
    BY <1>11, <2>1, NewFramesAfter
  <2> QED
    BY <2>1, <2>2 DEF f
<1>12. ASSUME Top.p \in Made, origin[Top.p] # "all"
       PROVE  Continue(ClosureReturns) => FramesInv'
  <2>0. PICK f : f = Frame("resolve", Top.p, 1, Plain)
    OBVIOUS
  <2>1. IsFrame(f) /\ f.op = "resolve" /\ f.p = Top.p /\ f.v = Plain
    BY <1>6, <2>0
  <2>2. f.p \in Made' /\ origin'[f.p] # "all"
    BY <1>12, <2>1
  <2>3. FrameOK(f)'
    BY <2>1, <2>2, NewFramesAfter
  <2> QED
    BY <1>5, <2>0, <2>1, <2>3 DEF ClosureReturns
<1>13. ASSUME ResolveIgnored \/ \E p : \/ NotifyEnds(p) \/ CancelEnds(p) \/ AllEnds(p)
                                       \/ \E inner : ResolveAdopts(p, inner)
       PROVE  FramesInv'
  BY <1>5, <1>13 DEF ResolveIgnored, NotifyEnds, CancelEnds, AllEnds, ResolveAdopts
<1>14. ASSUME NEW p \in Promises, ResolveValue(p) \/ reject(p) PROVE FramesInv'
  <2>1. \/ Leave
        \/ /\ Continue(<<Call("notify", p)>>)
           /\ m_promiseState' \in {[m_promiseState EXCEPT ![p] = "Fulfilled"],
                                   [m_promiseState EXCEPT ![p] = "Rejected"]}
    BY <1>14 DEF ResolveValue, reject
  <2>2. CASE Leave
    BY <1>5, <2>2
  <2>3. CASE ~Leave
    <3>1. m_promiseState'[p] \in Answered /\ p \in Made'
      BY <2>1, <2>3 DEF StateType, Answered, Made
    <3>2. IsFrame(Call("notify", p)) /\ FrameOK(Call("notify", p))'
      BY <1>11, <3>1 DEF Call, Notifying
    <3> QED
      BY <1>5, <2>1, <2>3, <3>2
  <2> QED
    BY <2>2, <2>3
<1>15. ASSUME NEW p \in Promises, NEW inner \in Promises, ResolveSettled(p, inner) PROVE FramesInv'
  <2>1. Owned(p)
    <3>1. Top.op = "resolve" /\ Top.p = p /\ Top.v = inner
      BY <1>15 DEF ResolveSettled, Resolving, Running
    <3>2. inner # Plain
      BY NoneAssumption
    <3> QED
      BY <1>2, <3>1, <3>2 DEF FrameOK
  <2>2. PICK f : /\ Continue(<<f>>)
                 /\ f \in {Frame("resolve", p, 1, Plain), Call("reject", p), Call("cancel", p)}
    BY <1>15 DEF ResolveSettled, Settled, isCancelled
  <2>3. IsFrame(f) /\ FrameOK(f)'
    BY <1>7, <1>9, <2>1, <2>2 DEF Call
  <2> QED
    BY <1>5, <2>2, <2>3
<1>16. ASSUME NEW p \in Promises, CancelStarts(p) PROVE FramesInv'
  <2>0. PICK f : f = IF alls[p].hooked THEN Frame("allCancel", p, 1, p) ELSE Script(p, "hook")
    OBVIOUS
  <2>1. \/ Leave
        \/ isPending(p) /\ Continue(<<f, Call("cancelled", p)>>)
        \/ Continue(<<Call("down", p)>>)
    BY <1>16, <2>0 DEF CancelStarts
  <2>2. ASSUME isPending(p) PROVE IsFrame(f) /\ FrameOK(f)'
    <3>1. CASE ~alls[p].hooked
      BY <1>8, <2>0, <3>1
    <3>2. CASE alls[p].hooked
      <4>1. IsFrame(f) /\ f.op = "allCancel" /\ f.p = p /\ f.v = p
        BY <1>6, <2>0, <3>2
      <4>2. p \in Made'
        BY <2>2 DEF isPending, Made
      <4>3. FrameOK(f)'
        BY <4>1, <4>2 DEF FrameOK, Notifying, Closures
      <4> QED
        BY <4>1, <4>3
    <3> QED
      BY <3>1, <3>2
  <2> QED
    BY <1>5, <1>7, <2>1, <2>2 DEF Closures
<1>17. ASSUME NEW p, HookCalled(p) PROVE FramesInv'
  BY <1>5, <1>7, <1>17 DEF HookCalled
<1>18. ASSUME NEW p \in Promises, CancelLinked(p) PROVE FramesInv'
  <2>1. /\ Top.op = "down"
        /\ \/ \E c : Continue(<<Call("cancel", c), next>>)
           \/ \E c : Continue(<<Call("cancel", c), Call("drop", p)>>)
           \/ Continue(<<Call("drop", p)>>)
    BY <1>0, <1>18 DEF CancelLinked, Running
  <2> QED
    BY <1>3, <1>4, <1>5, <1>7, <2>1 DEF Closures
<1>19. ASSUME NEW p \in Promises, CancelCallback(p) PROVE FramesInv'
  <2>0. PICK cb : cb = m_thenCallbacks[p][Top.i]
    OBVIOUS
  <2>1. /\ Top.op = "drop"
        /\ \/ cb.kind = "await" /\ Continue(<<Call("reject", cb.chained), next>>)
           \/ Continue(<<next>>)
    BY <1>0, <1>19, <2>0, OneByOne, Zenon DEF CancelCallback, Running, Continue
  <2>2. Top.i \in DOMAIN m_thenCallbacks[p]
    <3>1. PICK S : m_thenCallbacks[p] \in Seq(S)
      BY DEF ListType, IsList
    <3> QED
      BY <1>3, <1>19, <3>1 DEF CancelCallback
  <2>3. cb.kind = "await" => Owned(cb.chained)
    BY <2>0, <2>2 DEF CallbackInv
  <2>4. cb.kind = "await" => IsFrame(Call("reject", cb.chained)) /\ FrameOK(Call("reject", cb.chained))'
    BY <1>9, <2>3 DEF Call
  <2> QED
    BY <1>3, <1>4, <1>5, <2>1, <2>4, Zenon DEF Closures

<1>20. ASSUME NEW p \in Promises, NotifyThen(p) PROVE FramesInv'
  <2>9. PICK cb : cb = m_thenCallbacks[p][Top.i]
    OBVIOUS
  <2>10. PICK what : what = IF m_promiseState[p] = "Fulfilled" THEN "allFulfilled" ELSE "allRejected"
    OBVIOUS
  <2> DEFINE handled == m_promiseState[p] \in cb.on
  <2>11. PICK g : g = CASE cb.kind = "await" -> Script(cb.chained, "coroutine")
                        [] cb.kind = "all" -> Call(what, cb.chained)
                        [] cb.kind = "then" /\ handled -> Script(cb.chained, "handler")
                        [] OTHER -> Propagate(p, cb.chained)
    OBVIOUS
  <2>1. /\ Top.op \in Notifying /\ Top.p = p /\ Top.i <= Len(m_thenCallbacks[p])
        /\ calls' = IF handled THEN [calls EXCEPT ![cb.chained] = @ + 1] ELSE calls
        /\ UNCHANGED <<m_promiseState, origin, alls, m_thenCallbacks>>
    BY <1>20, <2>9, ZenonT(40) DEF NotifyThen, Running, Notifying, lists, results
  <2>0. ~Resumed(p)
    BY <1>1, <2>1, NotResumed DEF Notifying
  <2>2. Continue(<<g, next>>)
    BY <1>0, <1>20, <2>0, <2>9, <2>10, <2>11, Zenon DEF NotifyThen
  <2>3. m_promiseState[p] \in Answered
    BY <1>2, <2>1 DEF FrameOK
  <2>4. Top.i \in DOMAIN m_thenCallbacks[p]
    <3>1. PICK S : m_thenCallbacks[p] \in Seq(S)
      BY DEF ListType, IsList
    <3> QED
      BY <1>3, <2>1, <3>1
  <2>5. IF cb.kind = "all" THEN ByAll(p, cb) ELSE Owned(cb.chained)
    BY <2>4, <2>9 DEF CallbackInv
  <2>6. next.op \notin Closures
    BY <1>3, <2>1 DEF Closures, Notifying
  <2>7. CASE cb.kind # "all"
    <3>1. \/ g = Script(cb.chained, "coroutine") \/ g = Script(cb.chained, "handler")
          \/ g = Propagate(p, cb.chained)
      <4>1. CASE cb.kind = "await"
        BY <2>11, <4>1
      <4>2. CASE cb.kind = "then" /\ handled
        BY <2>11, <4>2
      <4>3. CASE cb.kind # "await" /\ ~(cb.kind = "then" /\ handled)
        BY <2>7, <2>11, <4>3
      <4> QED
        BY <4>1, <4>2, <4>3
    <3>2. Owned(cb.chained)
      BY <2>5, <2>7
    <3>3. IsFrame(g) /\ FrameOK(g)'
      BY <1>8, <1>10, <3>1, <3>2
    <3> QED
      BY <1>3, <1>4, <1>5, <2>2, <2>6, <3>3
  <2>8. CASE cb.kind = "all"
    <3> DEFINE c == cb.chained
    <3>1. g = Call(what, c)
      BY <2>8, <2>11
    <3>2. \E r \in Promises : \E k \in Places(r) : Link(r, k) = c /\ Input(r, k) = p
      BY <2>5, <2>8 DEF ByAll
    <3>3. handled /\ c \in Made /\ c \in Promises
      BY <2>3, <2>5, <2>8 DEF ByAll, Made
    <3>4. calls'[c] = 1
      <4>1. calls[c] \in {0, 1} /\ calls'[c] \in {0, 1}
        BY <3>3 DEF HandlerInv
      <4>2. calls'[c] = calls[c] + 1
        BY <2>1, <3>3 DEF HandlerInv
      <4> QED
        BY <4>1, <4>2
    <3>5. origin[c] = "then"
      BY <3>2, <3>3 DEF TableInv
    <3>6. \A s \in Promises : \A j \in Places(s) : Link(s, j) = c => Input(s, j) = p
      BY <3>2 DEF TableInv
    <3>7. what \in Closures /\ (what = "allFulfilled" <=> m_promiseState[p] = "Fulfilled")
      BY <2>10 DEF Closures
    <3>8. m_promiseState[p] = IF what = "allFulfilled" THEN "Fulfilled" ELSE "Rejected"
      BY <2>3, <3>7 DEF Answered
    <3> HIDE DEF c
    <3>9. IsFrame(g) /\ g.op = what /\ g.p = c
      BY <1>6, <3>1 DEF Call
    <3>10. \A s \in Promises : \A j \in Places(s)' :
               Link(s, j)' = c => m_promiseState'[Input(s, j)'] =
                                      IF what = "allFulfilled" THEN "Fulfilled" ELSE "Rejected"
      BY <2>1, <3>6, <3>8 DEF Places, Link, Input
    <3>11. c \in Made' /\ origin'[c] # "all"
      BY <3>3, <3>5
    <3>12. FrameOK(g)'
      BY <3>4, <3>7, <3>9, <3>10, <3>11 DEF FrameOK, Closures, Notifying
    <3> QED
      BY <1>3, <1>4, <1>5, <2>2, <2>6, <3>9, <3>12
  <2> QED
    BY <2>7, <2>8
<1>21. ASSUME NEW p \in Promises, NotifyFinally(p) PROVE FramesInv'
  <2> DEFINE k == Top.i - Len(m_thenCallbacks[p])
  <2>5. PICK cb : cb = m_finallyCallbacks[p][k]
    OBVIOUS
  <2>6. PICK g : g = IF cb.called THEN Script(cb.chained, "finally") ELSE Propagate(p, cb.chained)
    OBVIOUS
  <2>1. Top.op \in Notifying /\ k \in DOMAIN m_finallyCallbacks[p]
    BY <1>21 DEF NotifyFinally, Running, Notifying
  <2>2. Continue(<<g, next>>)
    BY <1>0, <1>21, <2>5, <2>6 DEF NotifyFinally
  <2>3. Owned(cb.chained)
    BY <2>1, <2>5 DEF CallbackInv
  <2>4. IsFrame(g) /\ FrameOK(g)'
    BY <1>8, <1>10, <2>3, <2>6
  <2> QED
    BY <1>3, <1>4, <1>5, <2>1, <2>2, <2>4 DEF Closures, Notifying
<1>22. ASSUME NEW r \in Promises, AllInput(r) PROVE FramesInv'
  <2>6. PICK k, p, c : k = Top.i /\ p = Input(r, k) /\ c = Link(r, k)
    OBVIOUS
  <2>1. /\ Top.op = "all" /\ k <= Len(alls[r].inputs)
        /\ Continue(NotifyIfSettled(p, c) \o <<next>>)
    BY <1>0, <1>22, <2>6 DEF AllInput, Running, Input, Link
  <2>2. k \in Places(r) /\ p \in Made /\ p \in Promises
    BY <1>3, <2>1, <2>6, PlacesAreNumbers DEF Made
  <2>3. \/ Continue(<<next>>)
        \/ /\ Continue(<<Frame("renotify", p, 1, c), next>>)
           /\ ~(isPending(p) \/ isCancelled(p))
    BY <2>1, OneByOne DEF NotifyIfSettled
  <2>4. next.op \notin Closures
    BY <1>3, <2>1 DEF Closures
  <2>5. ASSUME ~(isPending(p) \/ isCancelled(p))
        PROVE  IsFrame(Frame("renotify", p, 1, c)) /\ FrameOK(Frame("renotify", p, 1, c))'
    <3>1. m_promiseState[p] \in Answered
      BY <2>2, <2>5 DEF Made, StateType, Answered, Settled, isPending, isCancelled
    <3>2. m_promiseState'[p] = m_promiseState[p]
      BY <2>2, <3>1, SettledPersists DEF Answered, Settled, Next
    <3>3. p \in Made' /\ m_promiseState'[p] \in Answered
      BY <2>2, <3>1, <3>2
    <3> QED
      BY <1>11, <3>3 DEF Notifying
  <2> QED
    BY <1>3, <1>4, <1>5, <2>3, <2>4, <2>5
<1>23. ASSUME NEW r \in Promises, AllFulfilled(r) \/ AllRejected(r) PROVE FramesInv'
  <2> DEFINE a == alls[r]
  <2>1. /\ Top.op \in Closures
        /\ \/ Continue(ClosureReturns)
           \/ /\ ~a.done /\ Top.op = "allFulfilled" /\ a.remaining = 1
              /\ Continue(<<Frame("resolve", r, 1, Plain), Call("allRelease", Top.p)>>)
           \/ /\ ~a.done /\ Top.op = "allRejected"
              /\ Continue(<<Call("reject", r), Frame("allCancel", Top.p, 1, r)>>)
    BY <1>23 DEF AllFulfilled, AllRejected, Closure, Running, Closures
  <2>2. PICK k \in Places(r) : Link(r, k) = Top.p
    BY <1>23, PlacesAreNumbers DEF AllFulfilled, AllRejected, Closure, Link
  <2>3. Top.p \in Made /\ origin[Top.p] # "all"
    BY <1>2, <2>1 DEF FrameOK
  <2>4. origin[r] = "all" /\ r \in Made /\ Places(r) # {}
    BY <2>2 DEF TableInv, Made
  <2>5. UNCHANGED m_promiseState /\ r \in Made' /\ origin'[r] = "all"
    BY <1>23, <2>4 DEF AllFulfilled, AllRejected
  <2>6. Places(r)' = Places(r) /\ \A j : Input(r, j)' = Input(r, j)
    <3>1. alls'[r].inputs = alls[r].inputs
      BY <2>4
    <3> QED
      BY <3>1 DEF Places, Input
  <2>7. m_promiseState[Input(r, k)] = IF Top.op = "allFulfilled" THEN "Fulfilled" ELSE "Rejected"
    BY <1>2, <2>1, <2>2 DEF FrameOK
  <2>8. CASE Continue(ClosureReturns)
    BY <1>12, <2>3, <2>8
  <2>9. CASE /\ ~a.done /\ Top.op = "allFulfilled" /\ a.remaining = 1
             /\ Continue(<<Frame("resolve", r, 1, Plain), Call("allRelease", Top.p)>>)
    <3>0. PICK f, g : f = Frame("resolve", r, 1, Plain) /\ g = Call("allRelease", Top.p)
      OBVIOUS
    <3>1. /\ Cardinality(Counted(r)) + alls[r].remaining = Owing(r)
          /\ \A j \in Counted(r) : m_promiseState[Input(r, j)] = "Fulfilled"
      BY <2>4, <2>9 DEF CountInv, CountOK
    <3>2. \A j \in Places(r) : j = k \/ j \in Counted(r)
      BY <1>2, <2>1, <2>2, <2>9, <3>1, LastOne
    <3>3. \A j \in Places(r)' : m_promiseState'[Input(r, j)'] = "Fulfilled"
      BY <2>5, <2>6, <2>7, <2>9, <3>1, <3>2
    <3>4. IsFrame(f) /\ f.op = "resolve" /\ f.p = r /\ f.v = Plain
      BY <1>6, <3>0
    <3>5. IsFrame(g) /\ g.op = "allRelease" /\ g.p = Top.p
      BY <1>6, <3>0 DEF Call
    <3>6. FrameOK(f)'
      BY <2>5, <3>3, <3>4 DEF FrameOK, Notifying, Closures
    <3>7. g.p \in Made' /\ origin'[g.p] # "all"
      BY <2>3, <3>5
    <3>8. FrameOK(g)'
      BY <3>5, <3>7, NewFramesAfter
    <3> QED
      BY <1>5, <2>9, <3>0, <3>4, <3>5, <3>6, <3>8 DEF Closures
  <2>10. CASE /\ ~a.done /\ Top.op = "allRejected"
              /\ Continue(<<Call("reject", r), Frame("allCancel", Top.p, 1, r)>>)
    <3>0. PICK f, g : f = Call("reject", r) /\ g = Frame("allCancel", Top.p, 1, r)
      OBVIOUS
    <3>1. k \in Places(r)' /\ m_promiseState'[Input(r, k)'] = "Rejected"
      BY <2>5, <2>6, <2>7, <2>10
    <3>2. IsFrame(f) /\ f.op = "reject" /\ f.p = r
      BY <1>6, <3>0 DEF Call
    <3>3. IsFrame(g) /\ g.op = "allCancel" /\ g.p = Top.p
      BY <1>6, <3>0
    <3>4. FrameOK(f)'
      BY <2>5, <3>1, <3>2 DEF FrameOK, Notifying, Closures
    <3>5. g.p \in Made' /\ origin'[g.p] # "all"
      BY <2>3, <3>3
    <3>6. FrameOK(g)'
      BY <3>3, <3>5, NewFramesAfter
    <3> QED
      BY <1>5, <2>10, <3>0, <3>2, <3>3, <3>4, <3>6 DEF Closures
  <2> QED
    BY <2>1, <2>8, <2>9, <2>10
<1>24. ASSUME NEW r \in Promises, AllRelease(r) PROVE FramesInv'
  <2>1. Top.p \in Made /\ origin[Top.p] # "all"
    BY <1>2, <1>24 DEF FrameOK, AllRelease, Closure, Running
  <2> QED
    BY <1>12, <1>24, <2>1 DEF AllRelease
<1>25. ASSUME NEW r \in Promises, AllCancel(r) PROVE FramesInv'
  <2>1. /\ Top.op = "allCancel" /\ Top.v = r
        /\ \/ \E c : Continue(<<Call("cancel", c), next>>)
           \/ Continue(<<>>)
           \/ Top.p # r /\ Continue(ClosureReturns)
    <3>1. alls[r].wired \in Nat /\ Top.i \in Nat
      BY <1>3 DEF WiredInv
    <3>2. Top.i <= alls[r].wired \/ Top.i > alls[r].wired
      <4>1. \A m, n \in Nat : m <= n \/ m > n
        OBVIOUS
      <4> QED
        BY <3>1, <4>1, Zenon
    <3> QED
      BY <1>0, <1>25, <3>2 DEF AllCancel, Running
  <2>2. Top.p # r => Top.p \in Made /\ origin[Top.p] # "all"
    BY <1>2, <2>1 DEF FrameOK
  <2>3. next.op \notin Closures
    BY <1>3, <2>1 DEF Closures
  <2> QED
    BY <1>3, <1>4, <1>5, <1>7, <1>12, <2>1, <2>2, <2>3
<1> QED
  BY <1>13, <1>14, <1>15, <1>16, <1>17, <1>18, <1>19, <1>20, <1>21, <1>22, <1>23, <1>24, <1>25
  DEF PromiseStep

-----------------------------------------------------------------------------
(* The callbacks belong to Promise.all or to promises that scripts may     *)
(* settle.                                                                 *)

LEMMA CallbacksAfter ==
    ASSUME ListType, CallbackInv, \A q, cb : ByAll(q, cb) => ByAll(q, cb)', \A c : Owned(c) => Owned(c)'
    PROVE  /\ UNCHANGED lists => CallbackInv'
           /\ \A p \in Promises : ClearCallbacks(p) => CallbackInv'
           /\ \A p \in Promises : \A cb :
                 /\ IF cb.kind = "all" THEN ByAll(p, cb)' ELSE Owned(cb.chained)'
                 /\ m_thenCallbacks' = [m_thenCallbacks EXCEPT ![p] = Append(@, cb)]
                 /\ UNCHANGED m_finallyCallbacks
                 => CallbackInv'
           /\ \A p \in Promises : \A cb :
                 /\ Owned(cb.chained)'
                 /\ m_finallyCallbacks' = [m_finallyCallbacks EXCEPT ![p] = Append(@, cb)]
                 /\ UNCHANGED m_thenCallbacks
                 => CallbackInv'
<1>1. ASSUME NEW q \in Promises
      PROVE  /\ \A j \in DOMAIN m_thenCallbacks[q] : \A cb : cb = m_thenCallbacks[q][j] =>
                    IF cb.kind = "all" THEN ByAll(q, cb)' ELSE Owned(cb.chained)'
             /\ \A j \in DOMAIN m_finallyCallbacks[q] : \A c :
                    c = m_finallyCallbacks[q][j].chained => Owned(c)'
  BY DEF CallbackInv
<1>2. ASSUME /\ \A q \in Promises : \A j \in DOMAIN m_thenCallbacks'[q] : \A cb :
                    cb = m_thenCallbacks'[q][j] =>
                        IF cb.kind = "all" THEN ByAll(q, cb)' ELSE Owned(cb.chained)'
             /\ \A q \in Promises : \A j \in DOMAIN m_finallyCallbacks'[q] : \A c :
                    c = m_finallyCallbacks'[q][j].chained => Owned(c)'
      PROVE  CallbackInv'
  BY <1>2 DEF CallbackInv
<1>3. CASE UNCHANGED lists
  BY <1>1, <1>2, <1>3 DEF lists
<1>4. ASSUME NEW p \in Promises, ClearCallbacks(p) PROVE CallbackInv'
  <2>1. /\ DOMAIN m_thenCallbacks'[p] = {} /\ DOMAIN m_finallyCallbacks'[p] = {}
        /\ \A q \in Promises \ {p} : m_thenCallbacks'[q] = m_thenCallbacks[q]
                                     /\ m_finallyCallbacks'[q] = m_finallyCallbacks[q]
    BY <1>4 DEF ClearCallbacks, ListType
  <2> QED
    BY <1>1, <1>2, <2>1
<1>5. ASSUME NEW p \in Promises, NEW cb,
             IF cb.kind = "all" THEN ByAll(p, cb)' ELSE Owned(cb.chained)',
             m_thenCallbacks' = [m_thenCallbacks EXCEPT ![p] = Append(@, cb)],
             UNCHANGED m_finallyCallbacks
      PROVE  CallbackInv'
  <2>1. IsList(m_thenCallbacks[p])
    BY DEF ListType
  <2>2. /\ m_thenCallbacks'[p] = Append(m_thenCallbacks[p], cb)
        /\ \A q \in Promises \ {p} : m_thenCallbacks'[q] = m_thenCallbacks[q]
    BY <1>5 DEF ListType
  <2>3. \A j \in DOMAIN m_thenCallbacks'[p] :
            (j \in DOMAIN m_thenCallbacks[p] /\ m_thenCallbacks'[p][j] = m_thenCallbacks[p][j])
            \/ m_thenCallbacks'[p][j] = cb
    BY <2>1, <2>2, AddToList
  <2> QED
    BY <1>1, <1>2, <1>5, <2>2, <2>3
<1>6. ASSUME NEW p \in Promises, NEW cb, Owned(cb.chained)',
             m_finallyCallbacks' = [m_finallyCallbacks EXCEPT ![p] = Append(@, cb)],
             UNCHANGED m_thenCallbacks
      PROVE  CallbackInv'
  <2>1. IsList(m_finallyCallbacks[p])
    BY DEF ListType
  <2>2. /\ m_finallyCallbacks'[p] = Append(m_finallyCallbacks[p], cb)
        /\ \A q \in Promises \ {p} : m_finallyCallbacks'[q] = m_finallyCallbacks[q]
    BY <1>6 DEF ListType
  <2>3. \A j \in DOMAIN m_finallyCallbacks'[p] :
            (j \in DOMAIN m_finallyCallbacks[p] /\ m_finallyCallbacks'[p][j] = m_finallyCallbacks[p][j])
            \/ m_finallyCallbacks'[p][j] = cb
    BY <2>1, <2>2, AddToList
  <2> QED
    BY <1>1, <1>2, <1>6, <2>2, <2>3
<1> QED
  BY <1>3, <1>4, <1>5, <1>6

LEMMA CallbackStep ==
    ASSUME StateType, AllsInv, TableInv, WalkInv, ListType, FramesInv, CallbackInv,
           [Next]_vars, Intact',
           \A c \in Made : /\ c \in Made' /\ origin'[c] = origin[c]
                           /\ alls'[c].inputs = alls[c].inputs
                           /\ alls'[c].chained = alls[c].chained,
           \A c : Owned(c) => Owned(c)'
    PROVE  CallbackInv'
<1>1. \A q, cb : ByAll(q, cb) => ByAll(q, cb)'
  <2>1. ASSUME NEW q, NEW cb, ByAll(q, cb) PROVE ByAll(q, cb)'
    <3>1. PICK r \in Promises : \E k \in Places(r) : Link(r, k) = cb.chained /\ Input(r, k) = q
      BY <2>1 DEF ByAll
    <3>2. r \in Made
      BY <3>1 DEF TableInv, Made
    <3>3. \E k \in Places(r)' : Link(r, k)' = cb.chained /\ Input(r, k)' = q
      BY <3>1, <3>2 DEF Places, Link, Input
    <3> QED
      BY <2>1, <3>3 DEF ByAll
  <2> QED
    BY <2>1
<1>2. /\ UNCHANGED lists => CallbackInv'
      /\ \A p \in Promises : ClearCallbacks(p) => CallbackInv'
      /\ \A p \in Promises : \A cb :
            /\ IF cb.kind = "all" THEN ByAll(p, cb)' ELSE Owned(cb.chained)'
            /\ m_thenCallbacks' = [m_thenCallbacks EXCEPT ![p] = Append(@, cb)]
            /\ UNCHANGED m_finallyCallbacks
            => CallbackInv'
      /\ \A p \in Promises : \A cb :
            /\ Owned(cb.chained)'
            /\ m_finallyCallbacks' = [m_finallyCallbacks EXCEPT ![p] = Append(@, cb)]
            /\ UNCHANGED m_thenCallbacks
            => CallbackInv'
  BY <1>1, CallbacksAfter
<1>3. ASSUME NEW p, NEW c \in Promises, Fresh(c), UNCHANGED alls, promise_wireLinks(p, c)
      PROVE  Owned(c)'
  <2>1. origin'[c] = "then" /\ c \in Made'
    BY <1>3 DEF promise_wireLinks, TableInv, Made, StateType
  <2>2. c \notin ChainedByAll'
    BY <1>3 DEF Fresh, ChainedByAll
  <2> QED
    BY <2>1, <2>2 DEF Owned
<1>4. Intact /\ (stack # <<>> => FrameOK(Top))
  <2>1. Intact
    BY DefinedBefore
  <2>2. stack # <<>> => On(stack) = {Top} \cup On(Tail(stack))
    BY <2>1, OnTop DEF WalkInv, StackOK, Top
  <2> QED
    BY <2>1, <2>2 DEF FramesInv
<1>5. ASSUME NEW p \in Promises, NEW c \in Promises, NEW on, AndThen(p, c, on) PROVE CallbackInv'
  <2>1. PICK cb : cb = [kind |-> "then", on |-> on, chained |-> c]
    OBVIOUS
  <2>2. cb.kind # "all" /\ cb.chained = c
    BY <2>1
  <2>3. Owned(c)'
    BY <1>3, <1>5 DEF AndThen, results
  <2>4. /\ m_thenCallbacks' = [m_thenCallbacks EXCEPT ![p] = Append(@, cb)]
        /\ UNCHANGED m_finallyCallbacks
    BY <1>5, <2>1 DEF AndThen
  <2> QED
    BY <1>2, <2>2, <2>3, <2>4
<1>6. ASSUME NEW p \in Promises, NEW c \in Promises, NEW called, Finally(p, c, called)
      PROVE  CallbackInv'
  <2>1. PICK cb : cb = [called |-> called, chained |-> c]
    OBVIOUS
  <2>2. cb.chained = c
    BY <2>1
  <2>3. Owned(c)'
    BY <1>3, <1>6 DEF Finally, results
  <2>4. /\ m_finallyCallbacks' = [m_finallyCallbacks EXCEPT ![p] = Append(@, cb)]
        /\ UNCHANGED m_thenCallbacks
    BY <1>6, <2>1 DEF Finally
  <2> QED
    BY <1>2, <2>2, <2>3, <2>4
<1>7. ASSUME NEW p \in Promises, lua_await(p) PROVE CallbackInv'
  <2>1. PICK cb : cb = [kind |-> "await", on |-> {}, chained |-> Top.p]
    OBVIOUS
  <2>2. cb.kind # "all" /\ cb.chained = Top.p
    BY <2>1
  <2>3. Owned(cb.chained)
    BY <1>4, <1>7, <2>2 DEF lua_await, Awaitable, Running, FrameOK
  <2>4. /\ m_thenCallbacks' = [m_thenCallbacks EXCEPT ![p] = Append(@, cb)]
        /\ UNCHANGED m_finallyCallbacks
    BY <1>7, <2>1 DEF lua_await
  <2> QED
    BY <1>2, <2>2, <2>3, <2>4
<1>8. ASSUME NEW p, NEW inner \in Promises, ResolveAdopts(p, inner) PROVE CallbackInv'
  <2>1. PICK cb : cb = [kind |-> "adopt", on |-> {}, chained |-> p]
    OBVIOUS
  <2>2. cb.kind # "all" /\ cb.chained = p
    BY <2>1
  <2>3. Owned(p)
    <3>1. stack # <<>> /\ Top.op = "resolve" /\ Top.p = p /\ Top.v = inner
      BY <1>8 DEF ResolveAdopts, Resolving, Running
    <3>2. inner # Plain
      BY NoneAssumption
    <3> QED
      BY <1>4, <3>1, <3>2 DEF FrameOK
  <2>4. /\ m_thenCallbacks' = [m_thenCallbacks EXCEPT ![inner] = Append(@, cb)]
        /\ UNCHANGED m_finallyCallbacks
    BY <1>8, <2>1 DEF ResolveAdopts
  <2> QED
    BY <1>2, <2>2, <2>3, <2>4
<1>9. ASSUME NEW r \in Promises, AllInput(r) PROVE CallbackInv'
  <2>1. PICK k, p, c : k = Top.i /\ p = Input(r, k) /\ c = Link(r, k)
    OBVIOUS
  <2>2. PICK cb : cb = [kind |-> "all", on |-> {"Fulfilled", "Rejected"}, chained |-> c]
    BY Zenon
  <2>3. cb.kind = "all" /\ cb.on = Answered /\ cb.chained = c
    BY <2>2 DEF Answered
  <2>4. /\ k <= Len(alls[r].inputs)
        /\ m_thenCallbacks' = [m_thenCallbacks EXCEPT ![p] = Append(@, cb)]
        /\ UNCHANGED m_finallyCallbacks
        /\ m_promiseState' = [m_promiseState EXCEPT ![c] = "Pending"]
        /\ stack # <<>>
    BY <1>9, <2>1, <2>2, Zenon DEF AllInput, Running, Input, Link, promise_wireLinks
  <2>5. k \in Places(r)
    <3>1. k \in Nat \ {0}
      BY <1>4, <2>1, <2>4, PopOne, NextPlace DEF WalkInv, Top
    <3> QED
      BY <2>4, <3>1, PlacesAreNumbers
  <2>6. p \in Promises /\ c \in Promises /\ r \in Made
    BY <2>1, <2>5, PlacesAreNumbers DEF Made, TableInv
  <2>7. k \in Places(r)' /\ Link(r, k)' = c /\ Input(r, k)' = p
    BY <2>1, <2>5, <2>6 DEF Places, Link, Input
  <2>8. c \in Made'
    BY <2>4, <2>6 DEF Made, StateType
  <2>9. ByAll(p, cb)'
    BY <2>3, <2>7, <2>8 DEF ByAll
  <2> QED
    BY <1>2, <2>3, <2>4, <2>6, <2>9
<1>10. ASSUME NEW p \in Promises, NotifyEnds(p) \/ CancelEnds(p) PROVE CallbackInv'
  BY <1>2, <1>10 DEF NotifyEnds, CancelEnds
<1>11. ASSUME NEW p, \/ New(p) \/ Cancel(p) \/ OnCancel(p) \/ All(p) \/ lua_async(p)
                     \/ \E v : Settle(p, v)
       PROVE  UNCHANGED lists
  BY <1>11 DEF New, Cancel, OnCancel, All, lua_async, Settle
<1>12. ASSUME (\E v : Return(v)) \/ Throw PROVE UNCHANGED lists
  BY <1>12 DEF Return, Throw
<1>13. ASSUME NEW p, \/ ResolveIgnored \/ ResolveValue(p) \/ reject(p)
                     \/ \E inner : ResolveSettled(p, inner)
                     \/ NotifyThen(p) \/ NotifyFinally(p)
       PROVE  UNCHANGED lists
  BY <1>13 DEF ResolveIgnored, ResolveValue, reject, ResolveSettled, NotifyThen, NotifyFinally
<1>14. ASSUME NEW p, \/ CancelStarts(p) \/ HookCalled(p) \/ CancelLinked(p) \/ CancelCallback(p)
       PROVE  UNCHANGED lists
  BY <1>14 DEF CancelStarts, HookCalled, CancelLinked, CancelCallback
<1>15. ASSUME NEW r, AllEnds(r) \/ AllFulfilled(r) \/ AllRejected(r) \/ AllRelease(r) \/ AllCancel(r)
       PROVE  UNCHANGED lists
  BY <1>15 DEF AllEnds, AllFulfilled, AllRejected, AllRelease, AllCancel
<1>16. CASE ScriptStep
  BY <1>2, <1>5, <1>6, <1>7, <1>11, <1>12, <1>16 DEF ScriptStep
<1>17. CASE PromiseStep
  BY <1>2, <1>8, <1>9, <1>10, <1>13, <1>14, <1>15, <1>17 DEF PromiseStep
<1>18. CASE UNCHANGED vars
  BY <1>2, <1>18 DEF vars
<1> QED
  BY <1>16, <1>17, <1>18, DefinedBefore

-----------------------------------------------------------------------------
(* The tables.                                                             *)

LEMMA OriginStep ==
    ASSUME [Next]_vars
    PROVE  UNCHANGED origin \/ \E c : \E x \in {"then", "async", "all"} :
                                   origin' = [origin EXCEPT ![c] = x]
<1>1. ASSUME NEW p, \/ New(p) \/ Cancel(p) \/ OnCancel(p) \/ lua_await(p) \/ \E v : Settle(p, v)
      PROVE  UNCHANGED origin
  BY <1>1 DEF New, Cancel, OnCancel, lua_await, Settle
<1>2. ASSUME NEW p \in Promises, All(p) \/ lua_async(p)
      PROVE  \E x \in {"async", "all"} : origin' = [origin EXCEPT ![p] = x]
  BY <1>2 DEF All, lua_async
<1>3. ASSUME NEW p, NEW c, (\E on : AndThen(p, c, on)) \/ \E called : Finally(p, c, called)
      PROVE  origin' = [origin EXCEPT ![c] = "then"]
  BY <1>3 DEF AndThen, Finally, promise_wireLinks
<1>4. ASSUME (\E v : Return(v)) \/ Throw PROVE UNCHANGED origin
  BY <1>4 DEF Return, Throw
<1>5. ASSUME NEW p, \/ ResolveIgnored \/ ResolveValue(p) \/ reject(p)
                    \/ \E inner : ResolveSettled(p, inner) \/ ResolveAdopts(p, inner)
                    \/ NotifyThen(p) \/ NotifyFinally(p) \/ NotifyEnds(p)
      PROVE  UNCHANGED origin
  BY <1>5 DEF ResolveIgnored, ResolveValue, reject, ResolveSettled, ResolveAdopts, NotifyThen,
     NotifyFinally, NotifyEnds
<1>6. ASSUME NEW p, \/ CancelStarts(p) \/ HookCalled(p) \/ CancelLinked(p) \/ CancelCallback(p)
                    \/ CancelEnds(p)
      PROVE  UNCHANGED origin
  BY <1>6 DEF CancelStarts, HookCalled, CancelLinked, CancelCallback, CancelEnds
<1>7. ASSUME NEW r, AllEnds(r) \/ AllFulfilled(r) \/ AllRejected(r) \/ AllRelease(r) \/ AllCancel(r)
      PROVE  UNCHANGED origin
  BY <1>7 DEF AllEnds, AllFulfilled, AllRejected, AllRelease, AllCancel
<1>8. ASSUME NEW r, AllInput(r) PROVE \E c : origin' = [origin EXCEPT ![c] = "then"]
  BY <1>8, Zenon DEF AllInput, promise_wireLinks
<1>9. CASE ScriptStep
  BY <1>1, <1>2, <1>3, <1>4, <1>9 DEF ScriptStep
<1>10. CASE PromiseStep
  BY <1>5, <1>6, <1>7, <1>8, <1>10 DEF PromiseStep
<1> QED
  BY <1>9, <1>10 DEF Next, Rest, LoseList, vars

(* The loop of a Promise.all goes on until all its promises are chained.   *)
LEMMA LoopGoesOn ==
    ASSUME AllsInv, IsStack(stack), StepKind, NEW f \in On(stack), f.op = "all", f.p \in Promises,
           NEW k \in Places(f.p), f.i <= k
    PROVE  \/ Born(Link(f.p, k))
           \/ \E g \in On(stack') : g.op = "all" /\ g.p = f.p /\ g.i <= k
<1> DEFINE r == f.p
           n == Len(alls[r].inputs)
<1>1. f.i \in Nat
  <2>1. IsFrame(f)
    BY DEF IsStack, On
  <2> QED
    BY <2>1, NextPlace
<1>2. n \in Nat /\ k \in 1..n
  BY PlacesAreNumbers
<1>3. ~(f.i > n)
  <2>1. \A i, m \in Nat : \A j \in 1..m : i <= j => ~(i > m)
    OBVIOUS
  <2> QED
    BY <1>1, <1>2, <2>1
<1>4. CASE Keeps
  BY <1>3, <1>4 DEF Keeps, Watched
<1>5. CASE AllHung
  <2>1. PICK s \in Promises : \E j \in Places(s) :
            /\ Born(Link(s, j))
            /\ \E g \in On(stack') : g.op = "all" /\ g.p = s /\ g.i = j + 1
            /\ \A h \in On(stack) : h.op \in Watched =>
                  h \in On(stack') \/ (h.op = "all" /\ h.p = s /\ h.i = j)
    BY <1>5 DEF AllHung, HungAt
  <2>2. PICK j \in Places(s) :
            /\ Born(Link(s, j))
            /\ \E g \in On(stack') : g.op = "all" /\ g.p = s /\ g.i = j + 1
            /\ \A h \in On(stack) : h.op \in Watched =>
                  h \in On(stack') \/ (h.op = "all" /\ h.p = s /\ h.i = j)
    BY <2>1
  <2>3. CASE f \in On(stack')
    BY <2>3
  <2>4. CASE s = r /\ f.i = j
    <3>1. CASE k = j
      BY <2>2, <2>4, <3>1
    <3>2. CASE k # j
      <4>1. \A a, b \in Nat : a <= b /\ b # a => a + 1 <= b
        OBVIOUS
      <4>2. k \in Nat /\ j \in Nat
        BY <1>1, <1>2, <2>4
      <4>3. j + 1 <= k
        BY <2>4, <3>2, <4>1, <4>2
      <4> QED
        BY <2>2, <2>4, <4>3
    <3> QED
      BY <3>1, <3>2
  <2> QED
    BY <2>2, <2>3, <2>4 DEF Watched
<1>6. CASE Seen
  BY <1>6 DEF Seen, Notifying
<1>7. CASE Emptied
  BY <1>7 DEF Emptied, Watched, Notifying
<1>8. CASE CountsOne
  BY <1>8 DEF CountsOne, Closures
<1> QED
  BY <1>4, <1>5, <1>6, <1>7, <1>8 DEF StepKind, Aside, Hung, AllMade

LEMMA TableStep ==
    ASSUME StateType, AllsInv, WalkInv, TableInv, [Next]_vars, StepKind, Intact'
    PROVE  TableInv'
<1>1. IsStack(stack)
  BY DefinedBefore DEF WalkInv, StackOK
<1>2. origin' \in [Promises -> {"new", "then", "async", "all"}]
  BY OriginStep DEF TableInv
<1>3. Made \subseteq Made'
  BY MadeStays
<1>4. CASE SameTables
  <2>1. \A r \in Promises : /\ Places(r)' = Places(r)
                             /\ \A k : Link(r, k)' = Link(r, k) /\ Input(r, k)' = Input(r, k)
    BY <1>4 DEF SameTables, Places, Link, Input
  <2>2. ASSUME NEW r \in Promises, m_promiseState'[r] = "unused" PROVE origin'[r] = "new"
    <3>1. m_promiseState[r] = "unused" /\ ~Born(r)
      BY <1>3, <2>2 DEF Made, Born
    <3> QED
      BY <1>4, <3>1 DEF SameTables, TableInv
  <2>3. ASSUME NEW r \in Promises, origin'[r] # "all" PROVE Places(r) = {}
    <3>1. CASE origin'[r] = origin[r]
      BY <2>3, <3>1 DEF TableInv
    <3>2. CASE Born(r)
      BY <3>2 DEF Born, TableInv
    <3> QED
      BY <1>4, <3>1, <3>2 DEF SameTables
  <2>4. ASSUME NEW r \in Promises, NEW k \in Places(r), Link(r, k) \in Made'
        PROVE  origin'[Link(r, k)] = "then"
    <3> DEFINE c == Link(r, k)
    <3>1. c \in Promises /\ c \in ChainedByAll
      BY PlacesAreNumbers, ChainedIsLinked
    <3>2. CASE c \in Made
      <4>1. origin[c] = "then" /\ ~Born(c)
        BY <3>2, ZenonT(40) DEF TableInv, Born, Made
      <4> QED
        BY <1>4, <3>1, <4>1 DEF SameTables
    <3>3. CASE c \notin Made
      <4>1. Born(c)
        BY <2>4, <3>1, <3>3 DEF Born, Made
      <4>2. CASE Strangers
        BY <3>1, <4>1, <4>2 DEF Strangers
      <4>3. CASE UNCHANGED m_promiseState
        BY <4>1, <4>3 DEF Born
      <4>4. CASE AllHung
        <5>1. PICK d : /\ Born(d) /\ origin' = [origin EXCEPT ![d] = "then"]
                       /\ m_promiseState' = [m_promiseState EXCEPT ![d] = "Pending"]
          BY <4>4 DEF AllHung, HungAt
        <5>2. c = d
          BY <4>1, <5>1 DEF Born, StateType
        <5> QED
          BY <3>1, <5>1, <5>2 DEF TableInv
      <4>5. CASE AllMade
        <5>1. PICK s \in Promises : TableMade(s)
          BY <4>5 DEF AllMade
        <5>2. c = s
          BY <4>1, <5>1 DEF Born, StateType, TableMade
        <5> QED
          BY <3>1, <5>1, <5>2 DEF TableMade, Fresh
      <4> QED
        BY <4>2, <4>3, <4>4, <4>5 DEF StepKind, Aside, Hung, Seen, Emptied, CountsOne
    <3> QED
      BY <3>2, <3>3
  <2>5. ASSUME NEW r \in Promises, NEW k \in Places(r)
        PROVE  \/ Link(r, k) \in Made'
               \/ \E g \in On(stack') : g.op = "all" /\ g.p = r /\ g.i <= k
    <3>1. CASE Link(r, k) \in Made
      BY <1>3, <3>1
    <3>2. ASSUME NEW f \in On(stack), f.op = "all", f.p = r, f.i <= k
          PROVE  \/ Link(r, k) \in Made'
                 \/ \E g \in On(stack') : g.op = "all" /\ g.p = r /\ g.i <= k
      <4>1. k \in Places(f.p) /\ f.p \in Promises
        BY <3>2
      <4>2. \/ Born(Link(f.p, k))
            \/ \E g \in On(stack') : g.op = "all" /\ g.p = f.p /\ g.i <= k
        BY <1>1, <3>2, <4>1, LoopGoesOn
      <4> QED
        BY <3>2, <4>2 DEF Born, Made
    <3> QED
      BY <3>1, <3>2 DEF TableInv
  <2>6. \A r, s \in Promises : \A j \in Places(r), k \in Places(s) :
            Link(r, j) = Link(s, k) => r = s /\ j = k
    BY DEF TableInv
  <2> QED
    BY <1>2, <2>1, <2>2, <2>3, <2>4, <2>5, <2>6 DEF TableInv
<1>5. ASSUME NEW s \in Promises, TableMade(s) PROVE TableInv'
  <2>1. PICK n \in Nat :
          /\ alls'[s].inputs \in [1..n -> Promises] /\ alls'[s].chained \in [1..n -> Promises]
          /\ \A k \in 1..n : alls'[s].chained[k] # s /\ Fresh(alls'[s].chained[k])
          /\ \A j, k \in 1..n : alls'[s].chained[j] = alls'[s].chained[k] => j = k
          /\ IF n = 0 THEN stack' = <<Frame("resolve", s, 1, Plain)>> \o stack
                      ELSE stack' = <<Call("all", s)>> \o stack
    BY <1>5 DEF TableMade
  <2>2. /\ Fresh(s) /\ m_promiseState' = [m_promiseState EXCEPT ![s] = "Pending"]
        /\ origin' = [origin EXCEPT ![s] = "all"]
        /\ \A r \in Promises \ {s} : alls'[r] = alls[r]
    BY <1>5 DEF TableMade
  <2>3. /\ Places(s)' = 1..n
        /\ \A k \in 1..n : Link(s, k)' \in Promises \ {s} /\ Fresh(Link(s, k)')
        /\ \A j, k \in 1..n : Link(s, j)' = Link(s, k)' => j = k
    BY <2>1 DEF Places, Link
  <2>4. \A r \in Promises \ {s} : /\ Places(r)' = Places(r)
                                   /\ \A k : Link(r, k)' = Link(r, k)
    BY <2>2 DEF Places, Link
  <2>5. Made' = Made \cup {s} /\ s \notin Made
    BY <2>2 DEF Made, StateType, Fresh
  <2>6. \A r \in Promises \ {s} : origin'[r] = origin[r] /\ (r \in Made' => r \in Made)
    BY <2>2, <2>5 DEF TableInv
  <2>7. origin'[s] = "all"
    BY <2>2 DEF TableInv
  <2>8. \A k \in Places(s)' : Link(s, k)' \notin Made'
    BY <2>3, <2>5 DEF Fresh, Made
  <2>9. ASSUME NEW k \in Places(s)'
        PROVE  \E g \in On(stack') : g.op = "all" /\ g.p = s /\ g.i <= k
    <3>1. n # 0 /\ k \in Nat /\ 1 <= k
      BY <2>3, <2>9
    <3>2. On(stack') = {Call("all", s)} \cup On(stack)
      BY <1>1, <2>1, <3>1, OnPush
    <3>3. LET g == Call("all", s) IN g.op = "all" /\ g.p = s /\ g.i = 1
      BY FrameIs, 1 \in Nat \ {0} DEF Call
    <3> QED
      BY <3>1, <3>2, <3>3
  <2>10. ASSUME NEW r \in Promises \ {s}, NEW k \in Places(r)
         PROVE  /\ Link(r, k) # s /\ Link(r, k) \in Promises
                /\ \A j \in 1..n : Link(r, k) # Link(s, j)'
                /\ \/ Link(r, k) \in Made
                   \/ \E g \in On(stack') : g.op = "all" /\ g.p = r /\ g.i <= k
    <3>1. Link(r, k) \in ChainedByAll /\ Link(r, k) \in Promises
      BY ChainedIsLinked, PlacesAreNumbers
    <3>2. On(stack) \subseteq On(stack')
      <4>1. PICK f : stack' = <<f>> \o stack
        BY <2>1
      <4> QED
        BY <1>1, <4>1, OnPush
    <3>3. \/ Link(r, k) \in Made
          \/ \E g \in On(stack) : g.op = "all" /\ g.p = r /\ g.i <= k
      BY DEF TableInv
    <3> QED
      BY <2>2, <2>3, <3>1, <3>2, <3>3 DEF Fresh
  <2>11. \A r \in Promises :
             /\ m_promiseState'[r] = "unused" => origin'[r] = "new"
             /\ origin'[r] # "all" => Places(r)' = {}
    <3>1. ASSUME NEW r \in Promises \ {s}
          PROVE  /\ m_promiseState'[r] = "unused" => origin'[r] = "new"
                 /\ origin'[r] # "all" => Places(r)' = {}
      BY <1>3, <2>4, <2>6 DEF TableInv, Made
    <3> QED
      BY <2>5, <2>7, <3>1 DEF Made
  <2>12. ASSUME NEW r \in Promises, NEW k \in Places(r)'
         PROVE  /\ Link(r, k)' \in Made' => origin'[Link(r, k)'] = "then"
                /\ \/ Link(r, k)' \in Made'
                   \/ \E f \in On(stack') : f.op = "all" /\ f.p = r /\ f.i <= k
    <3>1. CASE r = s
      BY <2>8, <2>9, <2>12, <3>1
    <3>2. CASE r # s
      <4>1. k \in Places(r) /\ Link(r, k)' = Link(r, k)
        BY <2>4, <2>12, <3>2
      <4>2. /\ Link(r, k) # s /\ Link(r, k) \in Promises
            /\ \/ Link(r, k) \in Made
               \/ \E g \in On(stack') : g.op = "all" /\ g.p = r /\ g.i <= k
        BY <2>10, <3>2, <4>1
      <4>3. Link(r, k) \in Made' => origin'[Link(r, k)] = "then"
        BY <2>6, <4>1, <4>2 DEF TableInv
      <4> QED
        BY <2>5, <4>1, <4>2, <4>3
    <3> QED
      BY <3>1, <3>2
  <2>13. ASSUME NEW r \in Promises, NEW q \in Promises, NEW j \in Places(r)', NEW k \in Places(q)',
                Link(r, j)' = Link(q, k)'
         PROVE  r = q /\ j = k
    <3>1. CASE r = s /\ q = s
      BY <2>3, <2>13, <3>1
    <3>2. CASE r # s /\ q = s
      BY <2>3, <2>4, <2>10, <2>13, <3>2
    <3>3. CASE r = s /\ q # s
      BY <2>3, <2>4, <2>10, <2>13, <3>3
    <3>4. CASE r # s /\ q # s
      BY <2>4, <2>13, <3>4 DEF TableInv
    <3> QED
      BY <3>1, <3>2, <3>3, <3>4
  <2> QED
    BY <1>2, <2>11, <2>12, <2>13 DEF TableInv
<1> QED
  BY <1>4, <1>5, TableMoves

-----------------------------------------------------------------------------
(* The inputs that are counted.                                            *)

LEMMA OnBelow ==
    ASSUME NEW s, IsList(s), NEW x, IsList(x)
    PROVE  On(s) \subseteq On(x \o s)
<1>1. PICK S : s \in Seq(S)
  BY DEF IsList
<1>2. PICK Q : x \in Seq(Q)
  BY DEF IsList
<1> DEFINE T == S \cup Q
           y == x \o s
<1>3. s \in Seq(T) /\ x \in Seq(T)
  BY <1>1, <1>2, SeqMonotonic
<1> HIDE DEF T
<1>4. /\ y \in Seq(T) /\ Len(y) = Len(x) + Len(s)
      /\ \A k \in 1..Len(y) : y[k] = IF k <= Len(x) THEN x[k] ELSE s[k - Len(x)]
  BY <1>3, ConcatProperties
<1> HIDE DEF y
<1>5. /\ DOMAIN s = 1..Len(s) /\ Len(s) \in Nat /\ Len(x) \in Nat
      /\ DOMAIN y = 1..Len(y)
  BY <1>3, <1>4
<1>6. ASSUME NEW k \in DOMAIN s PROVE \E j \in DOMAIN y : y[j] = s[k]
  <2>1. k + Len(x) \in 1..Len(y) /\ ~(k + Len(x) <= Len(x)) /\ (k + Len(x)) - Len(x) = k
    BY <1>4, <1>5
  <2> QED
    BY <1>4, <1>5, <2>1
<1> QED
  BY <1>6 DEF On, y

(* Only the innermost call is ever replaced.                               *)
LEMMA Underneath ==
    ASSUME IsStack(stack), stack # <<>>, [Next]_vars
    PROVE  On(Tail(stack)) \subseteq On(stack')
<1> DEFINE t == Tail(stack)
<1>1. IsList(stack) /\ IsList(t) /\ On(t) \subseteq On(stack)
  <2>1. PICK S : stack \in Seq(S)
    BY DEF IsStack
  <2>2. t \in Seq(S)
    BY <2>1, HeadTailProperties
  <2> QED
    BY <2>1, <2>2, OnTop DEF IsList
<1>2. IsList(<<>>) /\ (\A a : IsList(<<a>>)) /\ \A a, b : IsList(<<a, b>>)
  <2>1. <<>> \in Seq({})
    BY EmptySeq
  <2>2. ASSUME NEW a PROVE <<a>> \in Seq({a})
    OBVIOUS
  <2>3. ASSUME NEW a, NEW b PROVE <<a, b>> \in Seq({a, b})
    OBVIOUS
  <2> QED
    BY <2>1, <2>2, <2>3 DEF IsList
<1>3. ASSUME NEW x, IsList(x), Continue(x) PROVE On(t) \subseteq On(stack')
  BY <1>1, <1>3, OnBelow DEF Continue
<1>4. ASSUME NEW x, IsList(x), stack' = x \o stack PROVE On(t) \subseteq On(stack')
  BY <1>1, <1>4, OnBelow
<1>5. Leave \/ UNCHANGED stack => On(t) \subseteq On(stack')
  BY <1>1 DEF Leave
<1>6. \A p, c : IsList(NotifyIfSettled(p, c))
  BY <1>2 DEF NotifyIfSettled
<1>7. ASSUME NEW p, \/ New(p) \/ Cancel(p) \/ OnCancel(p) \/ lua_async(p) \/ lua_await(p)
                    \/ \E v : Settle(p, v)
      PROVE  On(t) \subseteq On(stack')
  BY <1>2, <1>4, <1>5, <1>7 DEF New, Cancel, OnCancel, lua_async, lua_await, Settle
<1>8. ASSUME NEW p, NEW c, (\E on : AndThen(p, c, on)) \/ \E called : Finally(p, c, called)
      PROVE  On(t) \subseteq On(stack')
  BY <1>4, <1>6, <1>8 DEF AndThen, Finally
<1>9. ASSUME NEW r, All(r) PROVE On(t) \subseteq On(stack')
  <2>1. PICK f : stack' = <<f>> \o stack
    BY <1>9 DEF All
  <2> QED
    BY <1>2, <1>4, <2>1
<1>10. ASSUME (\E v : Return(v)) \/ Throw PROVE On(t) \subseteq On(stack')
  <2>1. Continue(<<>>) \/ \E f : Continue(<<f>>)
    BY <1>10 DEF Return, Throw
  <2> QED
    BY <1>2, <1>3, <2>1
<1>11. ASSUME NEW p, \/ ResolveIgnored \/ ResolveValue(p) \/ reject(p)
                     \/ \E inner : ResolveSettled(p, inner) \/ ResolveAdopts(p, inner)
                     \/ NotifyEnds(p) \/ HookCalled(p) \/ CancelEnds(p)
       PROVE  On(t) \subseteq On(stack')
  <2>1. Leave \/ \E f : Continue(<<f>>)
    BY <1>11 DEF ResolveIgnored, ResolveValue, reject, ResolveSettled, ResolveAdopts, NotifyEnds,
       HookCalled, CancelEnds
  <2> QED
    BY <1>2, <1>3, <1>5, <2>1
<1>12. ASSUME NEW p, NotifyThen(p) \/ NotifyFinally(p) \/ CancelStarts(p) \/ CancelLinked(p)
       PROVE  On(t) \subseteq On(stack')
  <2>1. Leave \/ (\E f : Continue(<<f>>)) \/ \E f, g : Continue(<<f, g>>)
    BY <1>12 DEF NotifyThen, NotifyFinally, CancelStarts, CancelLinked
  <2> QED
    BY <1>2, <1>3, <1>5, <2>1
<1>13. ASSUME NEW p, CancelCallback(p) PROVE On(t) \subseteq On(stack')
  <2>1. (\E f : Continue(<<f>>)) \/ \E f, g : Continue(<<f, g>>)
    <3>1. PICK next : next = [Top EXCEPT !.i = @ + 1]
      BY Zenon
    <3>2. \/ \E f : Continue(<<f, next>>)
          \/ Continue(<<next>>)
      BY <1>13, <3>1, OneByOne, Zenon DEF CancelCallback, Continue
    <3> QED
      BY <3>2
  <2> QED
    BY <1>2, <1>3, <2>1
<1>14. ASSUME NEW r, AllInput(r) PROVE On(t) \subseteq On(stack')
  <2>1. (\E f : Continue(<<f>>)) \/ \E f, g : Continue(<<f, g>>)
    <3>1. PICK next, p, c : /\ next = [Top EXCEPT !.i = @ + 1]
                            /\ p = alls[r].inputs[Top.i] /\ c = alls[r].chained[Top.i]
      OBVIOUS
    <3>2. Continue(NotifyIfSettled(p, c) \o <<next>>)
      BY <1>14, <3>1 DEF AllInput
    <3>3. PICK g : g = Frame("renotify", p, 1, c)
      OBVIOUS
    <3>4. NotifyIfSettled(p, c) = <<>> \/ NotifyIfSettled(p, c) = <<g>>
      BY <3>3 DEF NotifyIfSettled
    <3>5. Continue(<<next>>) \/ Continue(<<g, next>>)
      BY <3>2, <3>4, OneByOne
    <3> QED
      BY <3>5
  <2> QED
    BY <1>2, <1>3, <2>1
<1>15. ASSUME NEW r, AllEnds(r) \/ AllFulfilled(r) \/ AllRejected(r) \/ AllRelease(r)
       PROVE  On(t) \subseteq On(stack')
  <2>1. Leave \/ (\E f : Continue(<<f>>)) \/ \E f, g : Continue(<<f, g>>)
    BY <1>15 DEF AllEnds, AllFulfilled, AllRejected, AllRelease, ClosureReturns
  <2> QED
    BY <1>2, <1>3, <1>5, <2>1
<1>16. ASSUME NEW r, AllCancel(r) PROVE On(t) \subseteq On(stack')
  <2>1. Continue(<<>>) \/ (\E f : Continue(<<f>>)) \/ \E f, g : Continue(<<f, g>>)
    BY <1>16 DEF AllCancel, ClosureReturns
  <2> QED
    BY <1>2, <1>3, <2>1
<1>17. CASE ScriptStep
  BY <1>7, <1>8, <1>9, <1>10, <1>17 DEF ScriptStep
<1>18. CASE PromiseStep
  BY <1>11, <1>12, <1>13, <1>14, <1>15, <1>16, <1>18 DEF PromiseStep
<1> QED
  BY <1>5, <1>17, <1>18 DEF Next, Rest, LoseList, vars

(* The call that will settle the result of a Promise.all stays until it    *)
(* has.                                                                    *)
LEMMA DueStays ==
    ASSUME WalkInv, FramesInv, StateType, [Next]_vars, Intact', NEW r \in Promises,
           origin[r] = "all", isPending(r)', NEW f \in On(stack), f.p = r, f.op \in {"resolve", "reject"}
    PROVE  f \in On(stack')
<1>1. Intact /\ IsStack(stack) /\ stack # <<>> /\ On(stack) = {Top} \cup On(Tail(stack))
  <2>1. Intact /\ IsStack(stack)
    BY DefinedBefore DEF WalkInv, StackOK
  <2>2. stack # <<>>
    BY DEF On
  <2> QED
    BY <2>1, <2>2, OnTop DEF Top
<1>2. CASE f \in On(Tail(stack))
  BY <1>1, <1>2, Underneath
<1>3. CASE f = Top
  <2>1. f.op = "resolve" => f.v = Plain
    BY DEF FramesInv, FrameOK, Owned
  <2>2. CASE UNCHANGED vars
    BY <2>2 DEF vars
  <2>3. ~ScriptStep
    BY <1>1, <1>3 DEF ScriptStep, Scripting
  <2>9. ~ResolveIgnored
    BY <1>3 DEF ResolveIgnored, isPending
  <2>4. ASSUME NEW p \in Promises \cap {Top.p}, ResolveValue(p) \/ reject(p)
        PROVE  FALSE
    BY <1>3, <2>4 DEF ResolveValue, Resolving, reject, isPending, StateType
  <2>5. ASSUME NEW p, NEW inner \in Promises, ResolveSettled(p, inner) \/ ResolveAdopts(p, inner)
        PROVE  FALSE
    <3>1. Top.op = "resolve" /\ Top.v = inner
      BY <2>5 DEF ResolveSettled, ResolveAdopts, Resolving, Running
    <3>2. inner # Plain
      BY NoneAssumption, Zenon
    <3> QED
      BY <1>3, <2>1, <3>1, <3>2
  <2>6. ASSUME NEW p, \/ NotifyThen(p) \/ NotifyFinally(p) \/ NotifyEnds(p) \/ CancelStarts(p)
                      \/ HookCalled(p) \/ CancelLinked(p) \/ CancelCallback(p) \/ CancelEnds(p)
        PROVE  FALSE
    BY <1>3, <2>6, Zenon DEF NotifyThen, NotifyFinally, NotifyEnds, CancelStarts, HookCalled, CancelLinked,
       CancelCallback, CancelEnds, Running
  <2>7. ASSUME NEW p, \/ AllInput(p) \/ AllEnds(p) \/ AllFulfilled(p) \/ AllRejected(p)
                      \/ AllRelease(p) \/ AllCancel(p)
        PROVE  FALSE
    BY <1>3, <2>7, Zenon DEF AllInput, AllEnds, AllFulfilled, AllRejected, AllRelease, AllCancel, Closure,
       Running
  <2>8. ~PromiseStep
    BY <2>4, <2>5, <2>6, <2>7, <2>9 DEF PromiseStep
  <2> QED
    BY <2>2, <2>3, <2>8, DefinedBefore
<1> QED
  BY <1>1, <1>2, <1>3

(* Only the closure that runs to its end is counted.                       *)
LEMMA RanMoves ==
    ASSUME AllsInv, HandlerInv, HandlerInv', FramesInv, IsStack(stack), StepKind,
           NEW c \in ChainedByAll
    PROVE  Ran(c)' <=> Ran(c) \/ (CountsOne /\ c = Top.p)
<1>1. /\ calls \in [Promises -> {0, 1}] /\ calls' \in [Promises -> {0, 1}]
      /\ c \in Promises
  <2>1. c \in Promises
    BY ChainedIsLinked, PlacesAreNumbers
  <2> QED
    BY <2>1 DEF HandlerInv
<1>2. ASSUME calls'[c] = calls[c],
             \A f \in On(stack) : f.op \in Closures => f \in On(stack'),
             \A f \in On(stack') : f.op \in Closures => f \in On(stack)
      PROVE  Ran(c)' <=> Ran(c)
  BY <1>2 DEF Ran
<1>3. CASE CountsOne
  <2>1. /\ UNCHANGED calls /\ stack # <<>> /\ Top.op \in Closures
        /\ \A g \in On(stack') : g.op \notin Closures
    BY <1>3 DEF CountsOne
  <2>2. Top \in On(stack) /\ FrameOK(Top) /\ \A f \in On(stack) : f.op \in Closures => f = Top
    <3>1. On(stack) = {Top} \cup On(Tail(stack))
      BY <2>1, OnTop DEF Top
    <3> QED
      BY <2>1, <3>1 DEF FramesInv, OnlyTop
  <2>3. calls[Top.p] = 1
    BY <2>1, <2>2 DEF FrameOK
  <2> QED
    BY <1>3, <2>1, <2>2, <2>3 DEF Ran
<1>4. CASE ~CountsOne /\ (Aside \/ Hung \/ AllMade)
  BY <1>2, <1>4 DEF Aside, Hung, AllMade, Keeps, Brings, Watched, Closures, Notifying
<1>5. CASE ~CountsOne /\ AllHung
  BY <1>2, <1>5 DEF AllHung, HungAt, Brings, Watched, Closures, Notifying
<1>6. CASE ~CountsOne /\ Emptied
  BY <1>2, <1>6 DEF Emptied, Brings, Watched, Closures, Notifying
<1>7. CASE ~CountsOne /\ Seen
  <2> DEFINE p == Top.p
             d == m_thenCallbacks[p][Top.i].chained
             all == Top.i \in DOMAIN m_thenCallbacks[p] /\ m_thenCallbacks[p][Top.i].kind = "all"
  <2>1. \A f \in On(stack) : f.op \in Closures => f \in On(stack')
    BY <1>7 DEF Seen, Closures, Notifying
  <2>2. CASE ~all
    BY <1>2, <1>7, <2>1, <2>2 DEF Seen
  <2>3. CASE all
    <3>1. /\ calls' = [calls EXCEPT ![d] = @ + 1]
          /\ \E g \in On(stack') : g.op \in Closures /\ g.p = d
          /\ \A g \in On(stack') : g.op \in Closures => g \in On(stack) \/ g.p = d
      BY <1>7, <2>3 DEF Seen
    <3>2. CASE c = d
      <4>1. calls[c] = 0
        BY <1>1, <3>1, <3>2
      <4> QED
        BY <1>7, <3>1, <3>2, <4>1 DEF Ran
    <3>3. CASE c # d
      <4>1. calls'[c] = calls[c]
        BY <1>1, <3>1, <3>3
      <4> HIDE DEF d
      <4> QED
        BY <1>7, <2>1, <3>1, <3>3, <4>1 DEF Ran
    <3> QED
      BY <3>2, <3>3
  <2> QED
    BY <2>2, <2>3
<1> QED
  BY <1>3, <1>4, <1>5, <1>6, <1>7 DEF StepKind

LEMMA CountStep ==
    ASSUME StateType, AllsInv, WalkInv, TableInv, TableInv', HandlerInv, HandlerInv', FramesInv, CountInv,
           [Next]_vars, StepKind, Intact',
           \A c \in Made : /\ c \in Made' /\ origin'[c] = origin[c]
                           /\ alls'[c].inputs = alls[c].inputs
                           /\ alls'[c].chained = alls[c].chained
    PROVE  CountInv'
<1> SUFFICES ASSUME NEW r \in Promises, origin'[r] = "all"
             PROVE  CountOK(r)'
  BY DEF CountInv, CountOK
<1>1. IsStack(stack)
  BY DefinedBefore DEF WalkInv, StackOK
<1>2. \A p \in Promises : m_promiseState[p] = "Fulfilled" => m_promiseState'[p] = "Fulfilled"
  BY SettledPersists DEF Settled
<1>3. CASE r \notin Made
  <2>1. m_promiseState[r] = "unused" /\ origin[r] = "new"
    BY <1>3 DEF Made, TableInv
  <2>2. ~SameTables
    BY <2>1 DEF SameTables
  <2>3. PICK s \in Promises : TableMade(s)
    BY <2>2, TableMoves
  <2>4. s = r
    BY <2>1, <2>3 DEF TableMade, TableInv
  <2>5. PICK n \in Nat :
          /\ alls'[r].inputs \in [1..n -> Promises] /\ alls'[r].chained \in [1..n -> Promises]
          /\ alls'[r].bad \in BOOLEAN /\ ~alls'[r].done
          /\ alls'[r].remaining = IF alls'[r].bad THEN n + 1 ELSE n
          /\ \A k \in 1..n : alls'[r].chained[k] # r /\ Fresh(alls'[r].chained[k])
          /\ IF n = 0 THEN stack' = <<Frame("resolve", r, 1, Plain)>> \o stack
                      ELSE stack' = <<Call("all", r)>> \o stack
    BY <2>3, <2>4 DEF TableMade
  <2>6. Places(r)' = 1..n /\ Len(alls'[r].inputs) = n
    <3>1. alls'[r].inputs \in Seq(Promises) /\ Len(alls'[r].inputs) = n
      BY <2>5, IsASeq
    <3> QED
      BY <2>5, <3>1 DEF Places
  <2>7. CASE n = 0
    <3>1. On(stack') = {Frame("resolve", r, 1, Plain)} \cup On(stack)
      BY <1>1, <2>5, <2>7, OnPush
    <3>2. LET f == Frame("resolve", r, 1, Plain) IN f.op = "resolve" /\ f.p = r
      BY FrameIs, 1 \in Nat \ {0}
    <3>3. \E f \in On(stack') : f.p = r /\ f.op \in {"resolve", "reject"}
      BY <3>1, <3>2
    <3> QED
      BY <2>6, <2>7, <3>3 DEF CountOK
  <2>8. CASE n # 0
    <3>1. Counted(r)' = {}
      <4>1. ASSUME NEW k \in 1..n PROVE ~Ran(Link(r, k))'
        <5>1. /\ Link(r, k)' \in Promises
              /\ m_promiseState'[Link(r, k)'] = "unused"
          BY <2>3, <2>4, <2>5, <4>1 DEF TableMade, Fresh, Link, StateType
        <5>2. calls'[Link(r, k)'] = 0
          BY <5>1 DEF HandlerInv
        <5> QED
          BY <5>2 DEF Ran
      <4> QED
        BY <2>6, <4>1 DEF Counted
    <3>2. Cardinality(Counted(r))' = 0
      BY <3>1, FS_EmptySet
    <3>3. 1 \in Places(r)'
      BY <2>6, <2>8, SMTT(20)
    <3> QED
      <4>1. /\ alls'[r].remaining \in Nat \ {0} /\ ~alls'[r].done
            /\ Cardinality(Counted(r))' + alls'[r].remaining = Owing(r)'
        BY <2>5, <2>6, <2>8, <3>2 DEF Owing
      <4> QED
        BY <3>1, <3>3, <4>1 DEF CountOK
  <2> QED
    BY <2>7, <2>8
<1>4. CASE r \in Made
  <2>1. /\ origin[r] = "all" /\ CountOK(r)
        /\ alls'[r].inputs = alls[r].inputs /\ alls'[r].chained = alls[r].chained
    BY <1>4 DEF CountInv
  <2>2. /\ Places(r)' = Places(r)
        /\ \A k : Link(r, k)' = Link(r, k) /\ Input(r, k)' = Input(r, k)
    BY <2>1 DEF Places, Link, Input
  <2>11. Owing(r)' = Owing(r) /\ Owing(r) \in Nat
    <3>1. alls'[r].bad = alls[r].bad
      <4>1. ASSUME NEW s \in Promises, TableMade(s) PROVE alls'[r] = alls[r]
        BY <1>4, <4>1 DEF TableMade, Fresh, Made
      <4> QED
        BY <4>1, TableMoves DEF SameTables
    <3>2. Len(alls[r].inputs) \in Nat
      BY PlacesAreNumbers
    <3> QED
      BY <2>1, <3>1, <3>2 DEF Owing
  <2>3. /\ \A k \in Places(r) : Link(r, k) \in ChainedByAll /\ Input(r, k) \in Promises
        /\ Len(alls[r].inputs) \in Nat /\ Places(r) = 1..Len(alls[r].inputs)
    BY PlacesAreNumbers, ChainedIsLinked DEF Made
  <2>4. ASSUME NEW k \in Places(r)
        PROVE  Ran(Link(r, k))' <=> Ran(Link(r, k)) \/ (CountsOne /\ Link(r, k) = Top.p)
    <3>1. PICK c \in ChainedByAll : c = Link(r, k)
      BY <2>3, <2>4
    <3>2. Ran(c)' <=> Ran(c) \/ (CountsOne /\ c = Top.p)
      BY <1>1, RanMoves
    <3>3. Link(r, k)' = c
      BY <2>2, <3>1
    <3> QED
      BY <3>1, <3>2, <3>3 DEF Ran
  <2>5. ASSUME isPending(r)', \E f \in On(stack) : f.p = r /\ f.op \in {"resolve", "reject"}
        PROVE  \E f \in On(stack') : f.p = r /\ f.op \in {"resolve", "reject"}
    BY <2>1, <2>5, DueStays
  <2>6. isPending(r)' => isPending(r)
    BY <1>4, SettledPersists DEF isPending, Made, StateType, Settled
  <2>7. ASSUME alls'[r].remaining = alls[r].remaining, alls'[r].done = alls[r].done,
               \A k \in Places(r) : ~(CountsOne /\ Link(r, k) = Top.p)
        PROVE  CountOK(r)'
    <3>1. Counted(r)' = Counted(r)
      BY <2>2, <2>4, <2>7 DEF Counted
    <3>2. CASE alls[r].done \/ Places(r) = {}
      BY <2>1, <2>2, <2>5, <2>6, <2>7, <3>2 DEF CountOK
    <3>3. CASE ~(alls[r].done \/ Places(r) = {})
      <4>1. /\ alls[r].remaining \in Nat \ {0}
            /\ Cardinality(Counted(r)) + alls[r].remaining = Owing(r)
            /\ \A k \in Counted(r) : m_promiseState[Input(r, k)] = "Fulfilled"
        BY <2>1, <3>3 DEF CountOK
      <4>2. \A k \in Counted(r)' : m_promiseState'[Input(r, k)'] = "Fulfilled"
        BY <1>2, <2>2, <2>3, <3>1, <4>1 DEF Counted
      <4>3. Cardinality(Counted(r))' + alls'[r].remaining = Owing(r)'
        BY <2>1, <2>7, <2>11, <3>1, <4>1
      <4> QED
        BY <2>2, <2>7, <3>3, <4>1, <4>2, <4>3 DEF CountOK
    <3> QED
      BY <3>2, <3>3
  <2>8. CASE SameCounts /\ ~CountsOne
    BY <2>7, <2>8 DEF SameCounts
  <2>9. CASE AllMade /\ ~CountsOne
    <3>1. PICK s \in Promises : TableMade(s)
      BY <2>9 DEF AllMade
    <3>2. s # r
      BY <1>4, <3>1 DEF TableMade, Fresh, Made
    <3>3. alls'[r] = alls[r]
      BY <3>1, <3>2 DEF TableMade
    <3> QED
      BY <2>7, <2>9, <3>3
  <2>10. CASE CountsOne
    <3> DEFINE a == alls[r]
               b == alls'[r]
    <3>1. PICK s \in Promises : \E k \in Places(s) :
            /\ Link(s, k) = Top.p
            /\ \A q \in Promises \ {s} : alls'[q] = alls[q]
            /\ LET x == alls[s]
                   y == alls'[s]
               IN  IF x.done THEN y.remaining = x.remaining /\ y.done = x.done
                   ELSE IF Top.op = "allFulfilled"
                   THEN /\ y.remaining = x.remaining - 1 /\ y.done = (x.remaining = 1)
                        /\ y.done => \E g \in On(stack') : g.op = "resolve" /\ g.p = s
                   ELSE y.done /\ \E g \in On(stack') : g.op = "reject" /\ g.p = s
      BY <2>10 DEF CountsOne
    <3>2. CASE s # r
      <4>1. \A k \in Places(r) : Link(r, k) # Top.p
        BY <3>1, <3>2 DEF TableInv
      <4>2. alls'[r] = alls[r]
        BY <3>1, <3>2
      <4> QED
        BY <2>7, <4>1, <4>2
    <3>3. CASE s = r
      <4>1. PICK k \in Places(r) : Link(r, k) = Top.p
        BY <3>1, <3>3
      <4>2. IF a.done THEN b.remaining = a.remaining /\ b.done = a.done
            ELSE IF Top.op = "allFulfilled"
            THEN /\ b.remaining = a.remaining - 1 /\ b.done = (a.remaining = 1)
                 /\ b.done => \E g \in On(stack') : g.op = "resolve" /\ g.p = r
            ELSE b.done /\ \E g \in On(stack') : g.op = "reject" /\ g.p = r
        BY <3>1, <3>3
      <4>3. CASE a.done
        BY <2>1, <2>5, <2>6, <4>2, <4>3 DEF CountOK
      <4>4. CASE ~a.done /\ b.done
        BY <4>2, <4>4 DEF CountOK
      <4>5. CASE ~a.done /\ ~b.done
        <5>1. Top.op = "allFulfilled" /\ b.remaining = a.remaining - 1 /\ a.remaining # 1
          BY <4>2, <4>5
        <5>2. /\ a.remaining \in Nat \ {0}
              /\ Cardinality(Counted(r)) + a.remaining = Owing(r)
              /\ \A j \in Counted(r) : m_promiseState[Input(r, j)] = "Fulfilled"
          BY <2>1, <4>1, <4>5 DEF CountOK
        <5>3. b.remaining \in Nat \ {0}
          BY <5>1, <5>2
        <5>4. stack # <<>> /\ Top \in On(stack) /\ FrameOK(Top)
          <6>1. stack # <<>>
            BY <2>10 DEF CountsOne
          <6> QED
            BY <1>1, <6>1, OnTop DEF Top, FramesInv
        <5>5. m_promiseState[Input(r, k)] = "Fulfilled"
          BY <4>1, <5>1, <5>4 DEF FrameOK, Closures
        <5>6. Counted(r)' = Counted(r) \cup {k}
          <6>1. \A j \in Places(r) : Link(r, j) = Top.p <=> j = k
            BY <4>1 DEF TableInv
          <6> QED
            BY <2>2, <2>4, <2>10, <4>1, <6>1 DEF Counted
        <5>7. k \notin Counted(r)
          BY <4>1, <5>1, <5>4 DEF Counted, Ran, Closures
        <5>8. IsFiniteSet(Counted(r))
          <6>1. IsFiniteSet(Places(r))
            BY <2>3, FS_Interval
          <6>2. Counted(r) \subseteq Places(r)
            BY DEF Counted
          <6> QED
            BY <6>1, <6>2, FS_Subset
        <5>9. Cardinality(Counted(r)) \in Nat
          BY <5>8, FS_CardinalityType
        <5>10. Cardinality(Counted(r) \cup {k}) = Cardinality(Counted(r)) + 1
          BY <5>7, <5>8, FS_AddElement
        <5>11. Cardinality(Counted(r))' + b.remaining = Owing(r)'
          <6>1. Cardinality(Counted(r))' = Cardinality(Counted(r)) + 1
            BY <5>6, <5>10
          <6>2. \A c, m \in Nat : (c + 1) + (m - 1) = c + m
            OBVIOUS
          <6>3. a.remaining \in Nat
            BY <5>2
          <6>4. Owing(r)' = Owing(r)
            BY <2>11
          <6> HIDE DEF a, b
          <6> QED
            BY <5>1, <5>2, <5>9, <6>1, <6>2, <6>3, <6>4
        <5>12. \A j \in Counted(r)' : m_promiseState'[Input(r, j)'] = "Fulfilled"
          BY <1>2, <2>2, <2>3, <4>1, <5>2, <5>5, <5>6 DEF Counted
        <5> QED
          BY <2>2, <4>1, <4>5, <5>3, <5>11, <5>12 DEF CountOK
      <4> QED
        BY <4>3, <4>4, <4>5
    <3> QED
      BY <3>2, <3>3
  <2> QED
    BY <2>8, <2>9, <2>10 DEF StepKind, Aside, Hung, AllHung, HungAt, Seen, Emptied
<1> QED
  BY <1>3, <1>4

-----------------------------------------------------------------------------
(* The promises that are chained hear of the answers.                      *)

(* A promise is settled by resolve, reject or cancel.                      *)
LEMMA SettlesWhen ==
    ASSUME StateType, [Next]_vars, NEW q \in Promises,
           m_promiseState'[q] \in Settled, m_promiseState[q] \notin Settled
    PROVE  stack # <<>> /\ (ResolveValue(q) \/ reject(q) \/ CancelStarts(q))
<1>1. ASSUME \/ UNCHANGED m_promiseState
             \/ \E c : m_promiseState' = [m_promiseState EXCEPT ![c] = "Pending"]
      PROVE  FALSE
  BY <1>1 DEF StateType, Settled
<1>2. ASSUME NEW p, \/ Cancel(p) \/ OnCancel(p) \/ lua_await(p) \/ (\E v : Settle(p, v) \/ Return(v))
                    \/ Throw
      PROVE  UNCHANGED m_promiseState
  BY <1>2 DEF Cancel, OnCancel, lua_await, Settle, Return, Throw
<1>3. ASSUME NEW p, NEW c, \/ New(c) \/ lua_async(c) \/ All(c)
                           \/ (\E on : AndThen(p, c, on)) \/ \E called : Finally(p, c, called)
      PROVE  m_promiseState' = [m_promiseState EXCEPT ![c] = "Pending"]
  BY <1>3 DEF New, lua_async, All, AndThen, Finally, promise_wireLinks
<1>4. ASSUME NEW p, \/ ResolveIgnored \/ \E inner : ResolveSettled(p, inner) \/ ResolveAdopts(p, inner)
      PROVE  UNCHANGED m_promiseState
  BY <1>4 DEF ResolveIgnored, ResolveSettled, ResolveAdopts
<1>5. ASSUME NEW p, NotifyThen(p) \/ NotifyFinally(p) \/ NotifyEnds(p)
      PROVE  UNCHANGED m_promiseState
  BY <1>5 DEF NotifyThen, NotifyFinally, NotifyEnds
<1>6. ASSUME NEW p, HookCalled(p) \/ CancelLinked(p) \/ CancelCallback(p) \/ CancelEnds(p)
      PROVE  UNCHANGED m_promiseState
  BY <1>6 DEF HookCalled, CancelLinked, CancelCallback, CancelEnds
<1>7. ASSUME NEW r, AllEnds(r) \/ AllFulfilled(r) \/ AllRejected(r) \/ AllRelease(r) \/ AllCancel(r)
      PROVE  UNCHANGED m_promiseState
  BY <1>7 DEF AllEnds, AllFulfilled, AllRejected, AllRelease, AllCancel
<1>8. ASSUME NEW p, AllInput(p)
      PROVE  \E c : m_promiseState' = [m_promiseState EXCEPT ![c] = "Pending"]
  BY <1>8, Zenon DEF AllInput, promise_wireLinks
<1>9. ASSUME NEW p \in Promises, ResolveValue(p) \/ reject(p) \/ CancelStarts(p)
      PROVE  ResolveValue(q) \/ reject(q) \/ CancelStarts(q)
  <2>1. \/ UNCHANGED m_promiseState
        \/ \E s : m_promiseState' = [m_promiseState EXCEPT ![p] = s]
    BY <1>9 DEF ResolveValue, reject, CancelStarts
  <2>2. p = q
    BY <1>1, <2>1 DEF StateType
  <2> QED
    BY <1>9, <2>2
<1>10. CASE ScriptStep
  BY <1>1, <1>2, <1>3, <1>10 DEF ScriptStep
<1>11. CASE PromiseStep
  <2>1. stack # <<>>
    BY <1>11 DEF PromiseStep
  <2> QED
    BY <2>1, <1>1, <1>4, <1>5, <1>6, <1>7, <1>8, <1>9, <1>11 DEF PromiseStep
<1> QED
  BY <1>1, <1>10, <1>11 DEF Next, Rest, LoseList, vars

(* An answer comes from resolve or reject.                                 *)
LEMMA AnswersAreGiven ==
    ASSUME StateType, [Next]_vars, NEW q \in Promises,
           m_promiseState'[q] \in Answered, m_promiseState[q] \notin Answered
    PROVE  ResolveValue(q) \/ reject(q)
<1>1. m_promiseState'[q] \in Settled /\ m_promiseState[q] \notin Settled
  BY SettledPersists DEF Answered, Settled
<1>2. ~CancelStarts(q)
  BY <1>1 DEF CancelStarts, StateType, isPending, Answered
<1> QED
  BY <1>1, <1>2, SettlesWhen

(* Who gets an answer tells it.                                            *)
LEMMA AnswerIsTold ==
    ASSUME IsStack(stack), StateType, [Next]_vars, NEW q \in Promises,
           m_promiseState'[q] \in Answered, m_promiseState[q] \notin Answered
    PROVE  \E f \in On(stack') : f.op \in Notifying /\ f.p = q
<1>1. Continue(<<Call("notify", q)>>) /\ stack # <<>>
  BY AnswersAreGiven DEF ResolveValue, Resolving, reject, isPending, Running
<1>2. IsStack(Tail(stack))
  <2>1. PICK S : stack \in Seq(S) /\ \A h \in S : IsFrame(h)
    BY DEF IsStack
  <2>2. Tail(stack) \in Seq(S)
    BY <1>1, <2>1, HeadTailProperties
  <2> QED
    BY <2>1, <2>2 DEF IsStack
<1>3. On(stack') = {Call("notify", q)} \cup On(Tail(stack))
  BY <1>1, <1>2, OnPush DEF Continue
<1>4. LET f == Call("notify", q) IN f.op \in Notifying /\ f.p = q
  BY FrameIs, 1 \in Nat \ {0}, SMTT(20) DEF Call, Notifying
<1> QED
  BY <1>3, <1>4

(* A promise is chained from an input when its callback is hung there.     *)
LEMMA ChainedIsHung ==
    ASSUME StateType, AllsInv, TableInv, StepKind, [Next]_vars,
           NEW r \in Promises, NEW k \in Places(r)', Link(r, k)' \in Made', Link(r, k)' \notin Made
    PROVE  /\ AllHung /\ k \in Places(r) /\ Link(r, k)' = Link(r, k) /\ Input(r, k)' = Input(r, k)
           /\ Born(Link(r, k))
<1>1. Link(r, k)' \in Promises
  BY DEF Made
<1>2. ~AllMade
  <2> SUFFICES ASSUME AllMade PROVE FALSE
    OBVIOUS
  <2>1. PICK s \in Promises : TableMade(s)
    BY DEF AllMade
  <2>2. Link(r, k)' = s /\ s \notin ChainedByAll
    BY <1>1, <2>1 DEF TableMade, Fresh, Made, StateType
  <2>3. CASE r = s
    <3>1. PICK n \in Nat :
            /\ alls'[s].inputs \in [1..n -> Promises]
            /\ \A j \in 1..n : alls'[s].chained[j] # s
      BY <2>1 DEF TableMade
    <3> QED
      BY <2>2, <2>3, <3>1 DEF Places, Link
  <2>4. CASE r # s
    <3>1. alls'[r] = alls[r]
      BY <2>1, <2>4 DEF TableMade
    <3>2. k \in Places(r) /\ Link(r, k)' = Link(r, k)
      BY <3>1, ZenonT(40) DEF Places, Link
    <3> QED
      BY <2>2, <3>2, ChainedIsLinked
  <2> QED
    BY <2>3, <2>4
<1>3. SameTables
  BY <1>2 DEF StepKind, Aside, Hung, AllHung, HungAt, Seen, Emptied, CountsOne
<1>4. k \in Places(r) /\ Link(r, k)' = Link(r, k) /\ Input(r, k)' = Input(r, k)
  BY <1>3 DEF SameTables, Places, Link, Input
<1>5. Born(Link(r, k)) /\ Link(r, k) \in ChainedByAll
  BY <1>1, <1>4, ChainedIsLinked DEF Born, Made
<1>6. ~Strangers /\ ~UNCHANGED m_promiseState
  BY <1>5, ZenonT(40) DEF Strangers, Born
<1> QED
  BY <1>2, <1>4, <1>5, <1>6 DEF StepKind, Aside, Hung, Seen, Emptied, CountsOne

(* A callback that waits is told before its list is cleared.               *)
LEMMA WaitsOn ==
    ASSUME StateType, ListType, SlotInv, StepKind, IsStack(stack),
           NEW q \in Promises, NEW c, Waits(q, c),
           \A p \in Promises : isCancelled(p) => isCancelled(p)',
           calls[c] = 1 => calls'[c] = 1
    PROVE  calls'[c] = 1 \/ isCancelled(q)' \/ Waits(q, c)'
<1>1. PICK j \in DOMAIN m_thenCallbacks[q] :
          m_thenCallbacks[q][j].kind = "all" /\ m_thenCallbacks[q][j].chained = c
  BY DEF Waits
<1>2. CASE m_thenCallbacks'[q] = m_thenCallbacks[q]
  BY <1>1, <1>2 DEF Waits
<1>3. ASSUME NEW p \in Promises, NEW cb,
             m_thenCallbacks' = [m_thenCallbacks EXCEPT ![p] = Append(@, cb)]
      PROVE  Waits(q, c)'
  <2>1. IsList(m_thenCallbacks[q])
    BY DEF ListType
  <2>2. m_thenCallbacks'[q] \in {m_thenCallbacks[q], Append(m_thenCallbacks[q], cb)}
    BY <1>3 DEF ListType
  <2>3. j \in DOMAIN m_thenCallbacks'[q] /\ m_thenCallbacks'[q][j] = m_thenCallbacks[q][j]
    BY <2>1, <2>2, AddToList
  <2> QED
    BY <1>1, <2>3 DEF Waits
<1>4. CASE Hung
  <2>1. \E p \in Promises : \E cb :
            m_thenCallbacks' = [m_thenCallbacks EXCEPT ![p] = Append(@, cb)]
    BY <1>4 DEF Hung
  <2> QED
    BY <1>3, <2>1
<1>5. CASE AllHung
  <2>1. \E p : \E cb : m_thenCallbacks' = [m_thenCallbacks EXCEPT ![p] = Append(@, cb)]
    BY <1>5 DEF AllHung, HungAt
  <2>2. PICK p, cb : m_thenCallbacks' = [m_thenCallbacks EXCEPT ![p] = Append(@, cb)]
    BY <2>1
  <2>3. CASE p \in Promises
    BY <1>3, <2>2, <2>3
  <2>4. CASE p \notin Promises
    BY <1>2, <2>2, <2>4 DEF ListType
  <2> QED
    BY <2>3, <2>4
<1>6. CASE Emptied
  <2>1. PICK p \in Promises :
        /\ ClearCallbacks(p)
        /\ \/ isCancelled(p)
           \/ /\ Top \in On(stack) /\ Top.op \in Notifying /\ Top.p = p
              /\ Top.i > Len(m_thenCallbacks[p])
    BY <1>6 DEF Emptied
  <2>2. CASE p # q
    BY <1>2, <2>1, <2>2 DEF ClearCallbacks, ListType
  <2>3. CASE p = q /\ isCancelled(p)
    BY <2>3
  <2>4. CASE /\ p = q /\ Top \in On(stack) /\ Top.op \in Notifying /\ Top.p = p
             /\ Top.i > Len(m_thenCallbacks[p])
    <3>1. j < Top.i
      <4>1. IsList(m_thenCallbacks[q])
        BY DEF ListType
      <4>2. Len(m_thenCallbacks[q]) \in Nat /\ j \in 1..Len(m_thenCallbacks[q])
        BY <1>1, <4>1, AddToList
      <4>3. Top.i \in Nat
        <5>1. IsFrame(Top)
          BY <2>4 DEF IsStack, On
        <5> QED
          BY <5>1, NextPlace
      <4> QED
        BY <2>4, <4>2, <4>3
    <3> QED
      BY <1>1, <2>4, <3>1 DEF SlotInv
  <2> QED
    BY <2>1, <2>2, <2>3, <2>4
<1> QED
  BY <1>2, <1>4, <1>5, <1>6 DEF StepKind, Aside, AllMade, Seen, CountsOne

LEMMA SlotStep ==
    ASSUME StateType, AllsInv, WalkInv, ListType, ListType', TableInv, HandlerInv, HandlerInv', CallbackInv,
           SlotInv, [Next]_vars, StepKind, Intact'
    PROVE  SlotInv'
<1>1. IsStack(stack) /\ IsStack(stack')
  BY DefinedBefore, WalkStep DEF WalkInv, StackOK
<1>2. \A f \in On(stack) \cup On(stack') : f.i \in Nat \ {0}
  <2>1. \A f \in On(stack) \cup On(stack') : IsFrame(f)
    BY <1>1 DEF IsStack, On
  <2> QED
    BY <2>1, NextPlace
<1>3. \A c \in Promises : calls[c] = 1 => calls'[c] = 1
  BY CalledStays
<1>4. \A p \in Promises : isCancelled(p) => isCancelled(p)'
  BY SettledPersists DEF isCancelled, Settled
<1>5. ASSUME NEW r \in Promises, NEW k \in Places(r)', Link(r, k)' \in Made'
      PROVE  \/ calls'[Link(r, k)'] = 1 \/ isCancelled(Input(r, k))'
             \/ Waits(Input(r, k), Link(r, k))'
  <2>1. CASE Link(r, k)' \in Made
    <3>1. k \in Places(r) /\ Link(r, k)' = Link(r, k) /\ Input(r, k)' = Input(r, k)
      BY <1>5, <2>1, MadeKeeps
    <3>2. PICK c, q : c = Link(r, k) /\ q = Input(r, k)
      OBVIOUS
    <3>3. q \in Promises /\ c \in Promises
      BY <3>1, <3>2, PlacesAreNumbers DEF Made
    <3>4. calls[c] = 1 \/ isCancelled(q) \/ Waits(q, c)
      BY <2>1, <3>1, <3>2 DEF SlotInv
    <3>5. calls'[c] = 1 \/ isCancelled(q)' \/ Waits(q, c)'
      BY <1>1, <1>3, <1>4, <3>3, <3>4, WaitsOn
    <3> QED
      BY <3>1, <3>2, <3>5 DEF Waits, isCancelled
  <2>2. CASE Link(r, k)' \notin Made
    <3>1. /\ AllHung /\ k \in Places(r) /\ Link(r, k)' = Link(r, k) /\ Input(r, k)' = Input(r, k)
          /\ Born(Link(r, k))
      BY <1>5, <2>2, ChainedIsHung
    <3>2. PICK s \in Promises : \E j \in Places(s) : \E cb : HungAt(s, j, cb)
      BY <3>1, Zenon DEF AllHung, HungAt
    <3>10. PICK j \in Places(s) : \E cb : HungAt(s, j, cb)
      BY <3>2
    <3>11. PICK cb : HungAt(s, j, cb)
      BY <3>10
    <3>3. /\ m_promiseState' = [m_promiseState EXCEPT ![Link(s, j)] = "Pending"]
          /\ cb.kind = "all" /\ cb.chained = Link(s, j)
          /\ m_thenCallbacks' = [m_thenCallbacks EXCEPT ![Input(s, j)] = Append(@, cb)]
      BY <3>11 DEF HungAt
    <3>4. Link(s, j) = Link(r, k)
      BY <3>1, <3>3 DEF Born, StateType
    <3>5. s = r /\ j = k
      BY <3>1, <3>4 DEF TableInv
    <3>6. PICK q : q = Input(r, k)
      OBVIOUS
    <3>7. q \in Promises
      BY <3>1, <3>6, PlacesAreNumbers DEF Made
    <3>8. IsList(m_thenCallbacks[q]) /\ m_thenCallbacks'[q] = Append(m_thenCallbacks[q], cb)
      BY <3>3, <3>5, <3>6, <3>7 DEF ListType
    <3>9. \E i \in DOMAIN m_thenCallbacks'[q] : m_thenCallbacks'[q][i] = cb
      <4>1. Len(m_thenCallbacks[q]) \in Nat
        BY <3>8, AddToList
      <4>2. Len(m_thenCallbacks[q]) + 1 \in 1..Len(m_thenCallbacks[q]) + 1
        BY <4>1
      <4> QED
        BY <3>8, <4>2, AddToList
    <3> QED
      BY <3>1, <3>3, <3>5, <3>6, <3>9 DEF Waits
  <2> QED
    BY <2>1, <2>2
<1>6. ASSUME NEW f \in On(stack'), f.op \in Notifying, NEW j \in DOMAIN m_thenCallbacks'[f.p],
             j < f.i, m_thenCallbacks'[f.p][j].kind = "all", f.p \in Promises
      PROVE  calls'[m_thenCallbacks'[f.p][j].chained] = 1
  <2>1. j \in Nat \ {0} /\ f.i # 1
    <3>1. IsList(m_thenCallbacks'[f.p])
      BY <1>6 DEF ListType
    <3>2. Len(m_thenCallbacks'[f.p]) \in Nat /\ DOMAIN m_thenCallbacks'[f.p] = 1..Len(m_thenCallbacks'[f.p])
      BY <3>1, AddToList
    <3> QED
      BY <1>6, <3>2
  <2>2. CASE f \in On(stack) /\ m_thenCallbacks'[f.p] = m_thenCallbacks[f.p]
    <3>1. PICK cb : cb = m_thenCallbacks[f.p][j]
      OBVIOUS
    <3>2. cb.kind = "all" /\ j \in DOMAIN m_thenCallbacks[f.p]
      BY <1>6, <2>2, <3>1
    <3>3. calls[cb.chained] = 1
      BY <1>6, <2>2, <3>1, <3>2 DEF SlotInv
    <3>4. cb.chained \in Promises
      BY <1>6, <3>1, <3>2 DEF CallbackInv, ByAll, Made
    <3> QED
      BY <1>3, <2>2, <3>1, <3>3, <3>4
  <2>3. CASE Brings /\ UNCHANGED m_thenCallbacks
    BY <1>6, <2>1, <2>2, <2>3 DEF Brings
  <2>4. CASE Hung
    <3>1. PICK p \in Promises : \E cb :
            Idle(p) /\ m_thenCallbacks' = [m_thenCallbacks EXCEPT ![p] = Append(@, cb)]
      BY <2>4 DEF Hung
    <3>2. f \in On(stack)
      BY <1>6, <2>1, <2>4 DEF Hung, Brings
    <3>3. f.p # p
      BY <1>6, <3>1, <3>2 DEF Idle
    <3> QED
      BY <1>6, <2>2, <3>1, <3>2, <3>3 DEF ListType
  <2>5. CASE AllHung
    <3>1. PICK p : \E cb :
            Idle(p) /\ m_thenCallbacks' = [m_thenCallbacks EXCEPT ![p] = Append(@, cb)]
      BY <2>5 DEF AllHung, HungAt
    <3>2. f \in On(stack)
      BY <1>6, <2>1, <2>5 DEF AllHung, HungAt, Brings
    <3>3. f.p # p
      BY <1>6, <3>1, <3>2 DEF Idle
    <3> QED
      BY <1>6, <2>2, <3>1, <3>2, <3>3 DEF ListType
  <2>6. CASE Seen
    <3>1. UNCHANGED m_thenCallbacks
      BY <2>6 DEF Seen
    <3>2. CASE f \in On(stack)
      BY <2>2, <3>1, <3>2
    <3>3. CASE f \notin On(stack)
      <4>1. f.p = Top.p /\ f.i = Top.i + 1 /\ Top \in On(stack) /\ Top.op \in Notifying
        <5>1. On(stack) = {Top} \cup On(Tail(stack))
          BY <1>1, <2>6, OnTop DEF Seen, Top
        <5> QED
          BY <1>6, <2>6, <3>3, <5>1, ZenonT(40) DEF Seen
      <4>2. PICK cb : cb = m_thenCallbacks[Top.p][j]
        OBVIOUS
      <4>3. j \in DOMAIN m_thenCallbacks[Top.p] /\ cb.kind = "all" /\ cb.chained \in Promises
        BY <1>6, <3>1, <4>1, <4>2 DEF CallbackInv, ByAll, Made
      <4>4. CASE j < Top.i
        <5>1. calls[cb.chained] = 1
          BY <4>1, <4>2, <4>3, <4>4 DEF SlotInv
        <5> QED
          BY <1>3, <3>1, <4>1, <4>2, <4>3, <5>1
      <4>5. CASE j = Top.i
        <5>1. calls' = [calls EXCEPT ![cb.chained] = @ + 1]
          BY <2>6, <4>2, <4>3, <4>5 DEF Seen
        <5>2. calls'[cb.chained] = 1
          BY <4>3, <5>1 DEF HandlerInv
        <5> QED
          BY <3>1, <4>1, <4>2, <5>2
      <4>6. j < Top.i \/ j = Top.i
        <5>1. \A a, b \in Nat : a < b + 1 => a < b \/ a = b
          OBVIOUS
        <5>2. Top.i \in Nat /\ j \in Nat
          BY <1>2, <2>1, <4>1
        <5>3. j < Top.i + 1
          BY <1>6, <4>1
        <5> QED
          BY <5>1, <5>2, <5>3
      <4> QED
        BY <4>4, <4>5, <4>6
    <3> QED
      BY <3>2, <3>3
  <2>7. CASE Emptied
    <3>1. PICK p \in Promises : ClearCallbacks(p)
      BY <2>7 DEF Emptied
    <3>2. f \in On(stack)
      BY <1>6, <2>1, <2>7 DEF Emptied, Brings
    <3>3. CASE f.p = p
      BY <1>6, <3>1, <3>3 DEF ClearCallbacks, ListType
    <3>4. CASE f.p # p
      BY <1>6, <2>2, <3>1, <3>2, <3>4 DEF ClearCallbacks, ListType
    <3> QED
      BY <3>3, <3>4
  <2>8. CASE CountsOne
    BY <1>6, <2>2, <2>8 DEF CountsOne
  <2> QED
    BY <2>3, <2>4, <2>5, <2>6, <2>7, <2>8 DEF StepKind, Aside, AllMade
<1>7. ASSUME NEW q \in Promises, m_promiseState'[q] \in Answered, m_thenCallbacks'[q] # <<>>
      PROVE  \E f \in On(stack') : f.op \in Notifying /\ f.p = q
  <2>1. CASE m_promiseState[q] \notin Answered
    BY <1>1, <1>7, <2>1, AnswerIsTold
  <2>2. CASE m_promiseState[q] \in Answered
    <3>1. CASE m_thenCallbacks'[q] = m_thenCallbacks[q]
      <4>1. PICK f \in On(stack) : f.op \in Notifying /\ f.p = q
        BY <1>7, <2>2, <3>1 DEF SlotInv
      <4>2. CASE f \in On(stack')
        BY <4>1, <4>2
      <4>3. CASE Keeps
        BY <4>1, <4>3 DEF Keeps, Watched, Notifying
      <4>4. CASE AllHung
        BY <4>1, <4>4 DEF AllHung, HungAt, Watched, Notifying
      <4>5. CASE Seen
        BY <4>1, <4>2, <4>5 DEF Seen
      <4>6. CASE Emptied
        <5>1. PICK p \in Promises :
                /\ ClearCallbacks(p)
                /\ \A h \in On(stack) : h.op \in Watched =>
                      h \in On(stack') \/ (h.op \in Notifying /\ h.p = p)
          BY <4>6 DEF Emptied
        <5>2. p # q
          BY <1>7, <5>1 DEF ClearCallbacks, ListType
        <5> QED
          BY <4>1, <5>1, <5>2 DEF Watched
      <4>7. CASE CountsOne
        BY <4>1, <4>2, <4>7, ZenonT(40) DEF CountsOne, Closures, Notifying
      <4> QED
        BY <4>3, <4>4, <4>5, <4>6, <4>7 DEF StepKind, Aside, Hung, AllMade
    <3>2. CASE m_thenCallbacks'[q] # m_thenCallbacks[q]
      <4>1. CASE Hung
        <5>1. PICK p \in Promises : \E cb :
                Notified(p) /\ m_thenCallbacks' = [m_thenCallbacks EXCEPT ![p] = Append(@, cb)]
          BY <4>1 DEF Hung
        <5>2. p = q
          BY <3>2, <5>1 DEF ListType
        <5> QED
          BY <2>2, <5>1, <5>2 DEF Notified
      <4>2. CASE AllHung
        <5>1. PICK p : \E cb :
                Notified(p) /\ m_thenCallbacks' = [m_thenCallbacks EXCEPT ![p] = Append(@, cb)]
          BY <4>2 DEF AllHung, HungAt
        <5>2. p = q
          BY <3>2, <5>1 DEF ListType
        <5> QED
          BY <2>2, <5>1, <5>2 DEF Notified
      <4>3. CASE Emptied
        <5>1. PICK p \in Promises : ClearCallbacks(p)
          BY <4>3 DEF Emptied
        <5> QED
          BY <1>7, <3>2, <5>1 DEF ClearCallbacks, ListType
      <4> QED
        BY <3>2, <4>1, <4>2, <4>3 DEF StepKind, Aside, AllMade, Seen, CountsOne
    <3> QED
      BY <3>1, <3>2
  <2> QED
    BY <2>1, <2>2
<1>8. \A f \in On(stack') : f.op \in Notifying => f.p \in Promises
  <2>1. StackOK(m_promiseState', stack')
    BY WalkStep DEF WalkInv
  <2> QED
    BY <2>1 DEF StackOK, Good, On, Walking, Notifying
<1> QED
  BY <1>5, <1>6, <1>7, <1>8 DEF SlotInv

-----------------------------------------------------------------------------
(* The steps and the conclusion.                                           *)

(* The result of a Promise.all is answered by the frame that knows of the  *)
(* inputs, and they stay as they are.                                      *)
LEMMA ResultStep ==
    ASSUME StateType, AllsInv, WalkInv, FramesInv, TableInv, ResultInv, [Next]_vars, Intact',
           \A c \in Made : /\ c \in Made' /\ origin'[c] = origin[c]
                           /\ alls'[c].inputs = alls[c].inputs
                           /\ alls'[c].chained = alls[c].chained
    PROVE  ResultInv'
<1> SUFFICES ASSUME NEW r \in Promises, origin'[r] = "all", m_promiseState'[r] \in Answered
             PROVE  /\ m_promiseState'[r] = "Fulfilled" =>
                          \A k \in Places(r)' : m_promiseState'[Input(r, k)'] = "Fulfilled"
                    /\ m_promiseState'[r] = "Rejected" =>
                          \E k \in Places(r)' : m_promiseState'[Input(r, k)'] = "Rejected"
  BY DEF ResultInv, Answered
<1>1. r \in Made
  <2>1. m_promiseState[r] \notin Answered => isPending(r)
    BY AnswersAreGiven DEF ResolveValue, Resolving, reject, isPending
  <2> QED
    BY <2>1 DEF Made, isPending, Answered
<1>2. origin[r] = "all" /\ Places(r)' = Places(r) /\ \A k : Input(r, k)' = Input(r, k)
  BY <1>1 DEF Places, Input
<1>3. \A k \in Places(r) : \A s \in Answered :
          m_promiseState[Input(r, k)] = s => m_promiseState'[Input(r, k)] = s
  <2>1. \A q \in Promises : m_promiseState[q] \in Settled => m_promiseState'[q] = m_promiseState[q]
    BY SettledPersists
  <2>2. \A k \in Places(r) : Input(r, k) \in Promises
    BY PlacesAreNumbers DEF Made
  <2> QED
    BY <2>1, <2>2 DEF Answered, Settled
<1>4. \/ /\ m_promiseState'[r] = "Fulfilled"
         /\ \A k \in Places(r) : m_promiseState[Input(r, k)] = "Fulfilled"
      \/ /\ m_promiseState'[r] = "Rejected"
         /\ \E k \in Places(r) : m_promiseState[Input(r, k)] = "Rejected"
  <2>1. CASE m_promiseState[r] \in Answered
    <3>1. m_promiseState'[r] = m_promiseState[r]
      BY <2>1, SettledPersists DEF Answered, Settled
    <3> QED
      BY <1>2, <2>1, <3>1 DEF ResultInv, Answered
  <2>2. CASE m_promiseState[r] \notin Answered
    <3>1. ResolveValue(r) \/ reject(r)
      BY <2>2, AnswersAreGiven
    <3>2. stack # <<>> /\ IsStack(stack)
      BY <3>1, DefinedBefore DEF ResolveValue, Resolving, reject, Running, WalkInv, StackOK
    <3>3. FrameOK(Top)
      BY <3>2, OnTop DEF FramesInv, Top
    <3>4. CASE ResolveValue(r)
      <4>1. Top.op = "resolve" /\ Top.p = r /\ m_promiseState'[r] = "Fulfilled"
        BY <3>4 DEF ResolveValue, Resolving, Running, StateType
      <4> QED
        BY <1>2, <3>3, <4>1 DEF FrameOK, Owned
    <3>5. CASE reject(r)
      <4>1. Top.op = "reject" /\ Top.p = r /\ m_promiseState'[r] = "Rejected"
        BY <2>2, <3>5 DEF reject, Running, StateType, Answered
      <4> QED
        BY <1>2, <3>3, <4>1 DEF FrameOK
    <3> QED
      BY <3>1, <3>4, <3>5
  <2> QED
    BY <2>1, <2>2
<1> QED
  BY <1>2, <1>3, <1>4 DEF Answered

LEMMA AllStep ==
    ASSUME StateType, AllsInv, WalkInv, ListInv, OnceInv, WiredInv, AllInv, [Next]_vars
    PROVE  AllInv'
<1> SUFFICES ASSUME Intact'
             PROVE  AllInv'
  BY DEF AllInv
<1>1. /\ ListType /\ FramesInv /\ TableInv /\ CallbackInv /\ CountInv /\ SlotInv /\ ResultInv
      /\ Intact /\ HandlerInv
  BY DefinedBefore DEF ListInv, OnceInv, AllInv
<1>2. ListType' /\ HandlerInv'
  BY ListStep, HandlerStep DEF ListInv, OnceInv
<1>3. StepKind
  BY <1>1, StepKinds
<1>4. /\ \A c \in Made : /\ c \in Made' /\ origin'[c] = origin[c]
                         /\ alls'[c].inputs = alls[c].inputs
                         /\ alls'[c].chained = alls[c].chained
      /\ \A c \in Made \ ChainedByAll : c \notin ChainedByAll'
  BY <1>1, <1>3, MadeKeeps
<1>5. \A c : Owned(c) => Owned(c)'
  BY <1>4 DEF Owned
<1>6. \A f : FrameOK(f) => FrameOK(f)'
  BY <1>1, <1>2, <1>3, FrameStays
<1>7. FramesInv'
  <2>1. CASE ScriptStep
    BY <1>1, <1>4, <1>5, <1>6, <2>1, ScriptFrames
  <2>2. CASE PromiseStep
    BY <1>1, <1>2, <1>4, <1>5, <1>6, <2>2, FrameFrames
  <2>3. CASE UNCHANGED vars
    <3>1. IsStack(stack)
      BY <1>1 DEF WalkInv, StackOK
    <3>2. UNCHANGED stack
      BY <2>3 DEF vars
    <3> QED
      BY <1>1, <1>6, <3>1, <3>2, FramesAfter
  <2> QED
    BY <2>1, <2>2, <2>3, DefinedBefore
<1>8. TableInv'
  BY <1>1, <1>3, TableStep
<1>9. CallbackInv'
  BY <1>1, <1>4, <1>5, CallbackStep
<1>10. CountInv'
  BY <1>1, <1>2, <1>3, <1>4, <1>8, CountStep
<1>11. SlotInv'
  BY <1>1, <1>2, <1>3, SlotStep
<1>12. ResultInv'
  BY <1>1, <1>4, ResultStep
<1> QED
  BY <1>7, <1>8, <1>9, <1>10, <1>11, <1>12 DEF AllInv

LEMMA AllInit == Init => WiredInv /\ AllInv
<1> SUFFICES ASSUME Init PROVE WiredInv /\ AllInv
  OBVIOUS
<1>1. On(stack) = {} /\ \A r \in Promises : Places(r) = {} /\ alls[r].wired = 0
  BY EmptySeq DEF Init, On, Places, NoAll
<1>2. \A p \in Promises : /\ m_thenCallbacks[p] = <<>> /\ m_finallyCallbacks[p] = <<>>
                          /\ origin[p] = "new" /\ m_promiseState[p] = "unused"
  BY DEF Init
<1>3. FramesInv
  BY <1>1 DEF Init, FramesInv, OnlyTop
<1>4. TableInv
  BY <1>1, <1>2 DEF Init, TableInv
<1>5. CallbackInv
  BY <1>2, EmptySeq DEF CallbackInv
<1>6. CountInv /\ ResultInv
  BY <1>2 DEF CountInv, CountOK, ResultInv
<1>7. SlotInv
  BY <1>1, <1>2 DEF SlotInv, Answered
<1> QED
  BY <1>1, <1>3, <1>4, <1>5, <1>6, <1>7 DEF WiredInv, AllInv

(* A rejected input has been counted when no call is under way, and the    *)
(* counted inputs of a pending result are fulfilled.                       *)
LEMMA NoneKeptBack ==
    ASSUME StateType, AllsInv, ListType, FramesInv, TableInv, CountInv, SlotInv, stack = <<>>,
           NEW r \in Promises, origin[r] = "all", isPending(r),
           NEW k \in Places(r), m_promiseState[Input(r, k)] = "Rejected"
    PROVE  FALSE
<1>1. On(stack) = {}
  BY EmptySeq DEF On
<1>2. Link(r, k) \in Made /\ Input(r, k) \in Promises
  BY <1>1, PlacesAreNumbers DEF TableInv, Made
<1>3. ~Waits(Input(r, k), Link(r, k))
  <2>1. m_thenCallbacks[Input(r, k)] = <<>>
    BY <1>1, <1>2 DEF SlotInv, Answered
  <2>2. DOMAIN m_thenCallbacks[Input(r, k)] = {}
    BY <2>1, EmptySeq
  <2> QED
    BY <2>2 DEF Waits
<1>4. calls[Link(r, k)] = 1
  BY <1>2, <1>3 DEF SlotInv, isCancelled
<1>5. k \in Counted(r)
  BY <1>1, <1>4 DEF Counted, Ran
<1>6. \A j \in Counted(r) : m_promiseState[Input(r, j)] = "Fulfilled"
  BY <1>1 DEF CountInv, CountOK
<1> QED
  BY <1>5, <1>6

(* While no promise is chained from under the walk of its own lists, the   *)
(* result of Promise.all is fulfilled only when all its inputs are,        *)
(* and rejected only when one is; when no call is under way, no rejected   *)
(* input has been kept back from it, whatever order they settled in.       *)
THEOREM AllAnswersForItsInputs == Spec => [](Intact => AllOrNothing)
<1>1. Init => AllsInv /\ WalkInv /\ ListInv /\ OnceInv /\ WiredInv /\ AllInv
  BY AllsInit, WalkInit, HandlerInit, AllInit
<1>2. /\ StateType /\ AllsInv /\ WalkInv /\ ListInv /\ OnceInv /\ WiredInv /\ AllInv
      /\ [Next]_vars
      => AllsInv' /\ WalkInv' /\ ListInv' /\ OnceInv' /\ WiredInv' /\ AllInv'
  BY AllsStep, WalkStep, ListStep, HandlerStep, WiredStep, AllStep
<1>3. StateType /\ AllsInv /\ ListInv /\ AllInv => (Intact => AllOrNothing)
  <2> SUFFICES ASSUME StateType, AllsInv, ListInv, AllInv, Intact,
                      NEW r \in Promises, origin[r] = "all"
               PROVE  LET With(state) == {k \in DOMAIN alls[r].inputs :
                                              m_promiseState[alls[r].inputs[k]] = state}
                      IN  /\ m_promiseState[r] = "Fulfilled" => With("Fulfilled") = DOMAIN alls[r].inputs
                          /\ m_promiseState[r] = "Rejected" => With("Rejected") # {}
                          /\ AtRest /\ isPending(r) => With("Rejected") = {}
    BY DEF AllOrNothing
  <2>1. /\ m_promiseState[r] = "Fulfilled" =>
              \A k \in Places(r) : m_promiseState[Input(r, k)] = "Fulfilled"
        /\ m_promiseState[r] = "Rejected" =>
              \E k \in Places(r) : m_promiseState[Input(r, k)] = "Rejected"
    BY DEF AllInv, ResultInv
  <2>2. AtRest /\ isPending(r) => \A k \in Places(r) : m_promiseState[Input(r, k)] # "Rejected"
    BY NoneKeptBack DEF AtRest, AllInv, ListInv
  <2> QED
    BY <2>1, <2>2 DEF Places, Input
<1> QED
  BY <1>1, <1>2, <1>3, StatesAreTyped, PTL DEF Spec

-----------------------------------------------------------------------------
(* No answer is lost.                                                      *)

Answerers == {"resolve", "reject", "cancel", "allFulfilled", "allRejected", "allRelease"}

(* The call f will settle p, or hang p's answer on a pending promise.      *)
Answering(f, p) ==
    /\ f.p = p
    /\ \/ f.op \in Answerers
       \/ f.op = "script" /\ f.v # "hook"
       \/ f.op = "allCancel" /\ f.v # p

(* The walk f will come to p: as a chained promise or a coroutine's, or as *)
(* a consumer of what was cancelled.                                       *)
Reaches(f, p) ==
    \/ /\ f.op \in Notifying
       /\ \/ \E j \in DOMAIN m_thenCallbacks[f.p] :
                f.i <= j /\ m_thenCallbacks[f.p][j].chained = p
          \/ \E j \in DOMAIN m_finallyCallbacks[f.p] :
                /\ f.i <= Len(m_thenCallbacks[f.p]) + j
                /\ m_finallyCallbacks[f.p][j].chained = p
    \/ /\ f.op \in {"cancelled", "down"}
       /\ \E j \in DOMAIN m_consumerRefs[f.p] : f.i <= j /\ m_consumerRefs[f.p][j] = p
    \/ /\ f.op \in Cancelling
       /\ \E j \in DOMAIN m_thenCallbacks[f.p] :
             /\ f.op = "drop" => f.i <= j
             /\ m_thenCallbacks[f.p][j].kind = "await" /\ m_thenCallbacks[f.p][j].chained = p

HangsOn(q, p) ==
    \/ \E j \in DOMAIN m_thenCallbacks[q] : m_thenCallbacks[q][j].chained = p
    \/ \E j \in DOMAIN m_finallyCallbacks[q] : m_finallyCallbacks[q][j].chained = p

(* p's answer will come from a call that is under way, or from a promise   *)
(* that is pending.                                                        *)
Coming(p) ==
    \/ \E f \in On(stack) : Answering(f, p) \/ Reaches(f, p)
    \/ \E q \in Promises : isPending(q) /\ HangsOn(q, p)

AnswerInv ==
    \A p \in Promises : isPending(p) /\ origin[p] \in {"then", "async"} /\ p \notin late => Coming(p)

(* What hangs on a promise that has not settled is its consumer, so that a *)
(* cancellation finds it, but for coroutines.                              *)
ConsumerInv ==
    \A q \in Promises : m_promiseState[q] \notin Settled =>
        /\ \A j \in DOMAIN m_thenCallbacks[q] :
              m_thenCallbacks[q][j].kind = "await" \/ m_thenCallbacks[q][j].chained \in Consumers(q)
        /\ \A j \in DOMAIN m_finallyCallbacks[q] : m_finallyCallbacks[q][j].chained \in Consumers(q)

LEMMA LastOf ==
    ASSUME NEW s, IsList(s), NEW x
    PROVE  /\ Len(s) \in Nat /\ Len(s) + 1 \in DOMAIN Append(s, x)
           /\ Append(s, x)[Len(s) + 1] = x
BY AddToList

LEMMA OnHead ==
    ASSUME NEW s, IsList(s), NEW f, NEW g
    PROVE  f \in On(<<f>> \o s) /\ f \in On(<<f, g>> \o s) /\ g \in On(<<f, g>> \o s)
<1>1. PICK S : s \in Seq(S)
  BY DEF IsList
<1> DEFINE T == S \cup {f, g}
           x == <<f>>
           y == <<f, g>>
<1>2. s \in Seq(T) /\ x \in Seq(T) /\ y \in Seq(T)
  BY <1>1, SeqMonotonic
<1>3. Len(x) = 1 /\ Len(y) = 2 /\ x[1] = f /\ y[1] = f /\ y[2] = g /\ Len(s) \in Nat
  BY <1>1
<1> HIDE DEF T, x, y
<1> DEFINE xs == x \o s
           ys == y \o s
<1>4. /\ xs \in Seq(T) /\ Len(xs) = Len(x) + Len(s)
      /\ \A k \in 1..Len(xs) : xs[k] = IF k <= Len(x) THEN x[k] ELSE s[k - Len(x)]
      /\ ys \in Seq(T) /\ Len(ys) = Len(y) + Len(s)
      /\ \A k \in 1..Len(ys) : ys[k] = IF k <= Len(y) THEN y[k] ELSE s[k - Len(y)]
  BY <1>2, ConcatProperties
<1> HIDE DEF xs, ys
<1>5. /\ DOMAIN xs = 1..Len(xs) /\ DOMAIN ys = 1..Len(ys)
  BY <1>4
<1>6. /\ 1 \in DOMAIN xs /\ xs[1] = f
      /\ 1 \in DOMAIN ys /\ ys[1] = f
      /\ 2 \in DOMAIN ys /\ ys[2] = g
  BY <1>3, <1>4, <1>5
<1>7. f \in On(xs) /\ f \in On(ys) /\ g \in On(ys)
  BY <1>6, Zenon DEF On
<1> QED
  BY <1>7 DEF x, y, xs, ys

(* The calls that a step puts on top of the stack are under way.           *)
LEMMA InnermostNow ==
    ASSUME IsStack(stack), stack # <<>>
    PROVE  /\ \A f : Continue(<<f>>) => f \in On(stack')
           /\ \A f, g : Continue(<<f, g>>) => f \in On(stack') /\ g \in On(stack')
           /\ \A f : stack' = <<f>> \o stack => f \in On(stack') /\ Top \in On(stack')
           /\ UNCHANGED stack => Top \in On(stack')
<1>1. IsList(stack) /\ IsList(Tail(stack)) /\ Top \in On(stack)
  <2>1. PICK S : stack \in Seq(S)
    BY DEF IsStack
  <2>2. Tail(stack) \in Seq(S)
    BY <2>1, HeadTailProperties
  <2> QED
    BY <2>1, <2>2, OnTop DEF IsList, Top
<1>2. \A f : stack' = <<f>> \o stack => On(stack') = {f} \cup On(stack)
  BY OnPush
<1> QED
  BY <1>1, <1>2, OnHead DEF Continue

(* The calls that answer the promise they are made for.                    *)
LEMMA AnsweringCalls ==
    ASSUME NEW p
    PROVE  /\ \A v : Answering(Frame("resolve", p, 1, v), p)
           /\ \A op \in Answerers : Answering(Call(op, p), p)
           /\ \A w : w # "hook" => Answering(Script(p, w), p)
           /\ \A q : Answering(Propagate(q, p), p)
<1>1. \A op, v : LET f == Frame(op, p, 1, v) IN f.op = op /\ f.p = p /\ f.v = v
  BY FrameIs, 1 \in Nat \ {0}
<1>2. \A op \in Answerers : \A v : Answering(Frame(op, p, 1, v), p)
  BY <1>1 DEF Answering
<1>3. \A op \in Answerers : Answering(Call(op, p), p)
  BY <1>2 DEF Call
<1>4. \A w : w # "hook" => Answering(Script(p, w), p)
  BY <1>1 DEF Answering, Script
<1>5. \A q : Answering(Propagate(q, p), p)
  BY <1>2, <1>3 DEF Propagate, Answerers
<1> QED
  BY <1>2, <1>3, <1>4, <1>5 DEF Answerers

(* What a step does to the lists.                                          *)
ListsMoved ==
    \/ UNCHANGED <<lists, m_consumerRefs>>
    \/ \E p \in Promises : \E cb :
          /\ m_thenCallbacks' = [m_thenCallbacks EXCEPT ![p] = Append(@, cb)]
          /\ UNCHANGED m_finallyCallbacks
          /\ \/ cb.kind = "await" /\ UNCHANGED m_consumerRefs
             \/ m_consumerRefs' = [m_consumerRefs EXCEPT ![p] = Append(@, cb.chained)]
    \/ \E p \in Promises : \E cb :
          /\ m_finallyCallbacks' = [m_finallyCallbacks EXCEPT ![p] = Append(@, cb)]
          /\ UNCHANGED m_thenCallbacks
          /\ m_consumerRefs' = [m_consumerRefs EXCEPT ![p] = Append(@, cb.chained)]
    \/ \E p \in Promises :
          /\ stack # <<>> /\ Top.op \in Walking /\ Top.p = p
          /\ ClearCallbacks(p)
          /\ UNCHANGED m_consumerRefs \/ m_consumerRefs' = [m_consumerRefs EXCEPT ![p] = <<>>]

(* The lists are lengthened, or cleared by the call that walked them.      *)
LEMMA ListMoves ==
    ASSUME AllsInv, WalkInv, [Next]_vars, Intact'
    PROVE  ListsMoved
<1>1. ASSUME NEW p, \/ New(p) \/ Cancel(p) \/ OnCancel(p) \/ All(p) \/ lua_async(p)
                    \/ (\E v : Settle(p, v)) \/ (\E v : Return(v)) \/ Throw
      PROVE  ListsMoved
  <2>1. UNCHANGED <<lists, m_consumerRefs>>
    BY <1>1 DEF New, Cancel, OnCancel, All, lua_async, Settle, Return, Throw, links
  <2> QED
    BY <2>1 DEF ListsMoved
<1>2. ASSUME NEW p \in Promises, lua_await(p)
      PROVE  ListsMoved
  <2>1. PICK cb : cb = [kind |-> "await", on |-> {}, chained |-> Top.p]
    OBVIOUS
  <2>2. /\ m_thenCallbacks' = [m_thenCallbacks EXCEPT ![p] = Append(@, cb)]
        /\ UNCHANGED m_finallyCallbacks /\ UNCHANGED m_consumerRefs
    BY <1>2, <2>1 DEF lua_await, links
  <2>3. cb.kind = "await"
    BY <2>1
  <2> QED
    BY <2>2, <2>3, Zenon DEF ListsMoved
<1>3. ASSUME NEW p \in Promises, NEW c, NEW on, AndThen(p, c, on)
      PROVE  ListsMoved
  <2>1. PICK cb : cb = [kind |-> "then", on |-> on, chained |-> c]
    OBVIOUS
  <2>2. /\ m_thenCallbacks' = [m_thenCallbacks EXCEPT ![p] = Append(@, cb)]
        /\ UNCHANGED m_finallyCallbacks
        /\ m_consumerRefs' = [m_consumerRefs EXCEPT ![p] = Append(@, c)]
    BY <1>3, <2>1 DEF AndThen, promise_wireLinks
  <2>3. cb.chained = c
    BY <2>1
  <2>4. m_consumerRefs' = [m_consumerRefs EXCEPT ![p] = Append(@, cb.chained)]
    BY <2>2, <2>3
  <2> QED
    BY <2>2, <2>4, Zenon DEF ListsMoved
<1>4. ASSUME NEW p \in Promises, NEW c, NEW called, Finally(p, c, called)
      PROVE  ListsMoved
  <2>1. PICK cb : cb = [called |-> called, chained |-> c]
    OBVIOUS
  <2>2. /\ m_finallyCallbacks' = [m_finallyCallbacks EXCEPT ![p] = Append(@, cb)]
        /\ UNCHANGED m_thenCallbacks
        /\ m_consumerRefs' = [m_consumerRefs EXCEPT ![p] = Append(@, c)]
    BY <1>4, <2>1 DEF Finally, promise_wireLinks
  <2>3. cb.chained = c
    BY <2>1
  <2>4. m_consumerRefs' = [m_consumerRefs EXCEPT ![p] = Append(@, cb.chained)]
    BY <2>2, <2>3
  <2> QED
    BY <2>2, <2>4, Zenon DEF ListsMoved
<1>5. ASSUME NEW p, \/ ResolveIgnored \/ ResolveValue(p) \/ reject(p)
                    \/ (\E inner : ResolveSettled(p, inner))
                    \/ NotifyThen(p) \/ NotifyFinally(p)
                    \/ CancelStarts(p) \/ HookCalled(p) \/ CancelLinked(p) \/ CancelCallback(p)
                    \/ AllEnds(p) \/ AllFulfilled(p) \/ AllRejected(p) \/ AllRelease(p) \/ AllCancel(p)
      PROVE  ListsMoved
  <2>1. UNCHANGED <<lists, links>>
    BY <1>5 DEF ResolveIgnored, ResolveValue, reject, ResolveSettled, NotifyThen, NotifyFinally,
         CancelStarts, HookCalled, CancelLinked, CancelCallback, AllEnds, AllFulfilled,
         AllRejected, AllRelease, AllCancel
  <2> QED
    BY <2>1 DEF ListsMoved, links
<1>6. ASSUME NEW p, NEW inner \in Promises, ResolveAdopts(p, inner)
      PROVE  ListsMoved
  <2>1. PICK cb : cb = [kind |-> "adopt", on |-> {}, chained |-> p]
    OBVIOUS
  <2>2. /\ m_thenCallbacks' = [m_thenCallbacks EXCEPT ![inner] = Append(@, cb)]
        /\ UNCHANGED m_finallyCallbacks
        /\ m_consumerRefs' = [m_consumerRefs EXCEPT ![inner] = Append(@, p)]
    BY <1>6, <2>1 DEF ResolveAdopts
  <2>3. cb.chained = p
    BY <2>1
  <2>4. m_consumerRefs' = [m_consumerRefs EXCEPT ![inner] = Append(@, cb.chained)]
    BY <2>2, <2>3
  <2> QED
    BY <2>2, <2>4, Zenon DEF ListsMoved
<1>7. ASSUME NEW p \in Promises, NotifyEnds(p) \/ CancelEnds(p)
      PROVE  ListsMoved
  <2>1. stack # <<>> /\ Top.op \in Walking /\ Top.p = p /\ ClearCallbacks(p)
    BY <1>7 DEF NotifyEnds, CancelEnds, Running, Walking
  <2>2. UNCHANGED m_consumerRefs \/ m_consumerRefs' = [m_consumerRefs EXCEPT ![p] = <<>>]
    BY <1>7 DEF NotifyEnds, CancelEnds, promise_cleanupLinks, links
  <2> QED
    BY <2>1, <2>2 DEF ListsMoved
<1>8. ASSUME NEW r \in Promises, stack # <<>>, Intact, AllInput(r)
      PROVE  ListsMoved
  <2> DEFINE p == alls[r].inputs[Top.i]
             c == alls[r].chained[Top.i]
  <2>1. p \in Promises
    <3>1. StackOK(m_promiseState, stack)
      BY <1>8 DEF WalkInv
    <3>2. IsFrame(Top)
      BY <1>8, <3>1, PopOne DEF Top
    <3>3. Top.i \in Nat \ {0} /\ Top.i <= Len(alls[r].inputs)
      BY <1>8, <3>2, NextPlace DEF AllInput
    <3> QED
      BY <3>3, PlacesAreNumbers DEF Places, Input, Made
  <2>2. PICK cb : cb = [kind |-> "all", on |-> {"Fulfilled", "Rejected"}, chained |-> c]
    BY Zenon
  <2>3. /\ m_thenCallbacks' = [m_thenCallbacks EXCEPT ![p] = Append(@, cb)]
        /\ UNCHANGED m_finallyCallbacks
        /\ m_consumerRefs' = [m_consumerRefs EXCEPT ![p] = Append(@, c)]
    BY <1>8, <2>2, Zenon DEF AllInput, promise_wireLinks
  <2>4. cb.chained = c
    BY <2>2
  <2> HIDE DEF p, c
  <2>5. m_consumerRefs' = [m_consumerRefs EXCEPT ![p] = Append(@, cb.chained)]
    BY <2>3, <2>4
  <2> QED
    BY <2>1, <2>3, <2>5, Zenon DEF ListsMoved
<1>9. CASE ScriptStep
  BY <1>1, <1>2, <1>3, <1>4, <1>9 DEF ScriptStep
<1>10. CASE PromiseStep
  BY <1>5, <1>6, <1>7, <1>8, <1>10, DefinedBefore DEF PromiseStep
<1>11. CASE UNCHANGED vars
  BY <1>11 DEF vars, links, ListsMoved
<1> QED
  BY <1>9, <1>10, <1>11, DefinedBefore

(* The lists of q are what they were, or longer.                           *)
Extends(s, t) == DOMAIN s \subseteq DOMAIN t /\ Len(s) <= Len(t) /\ \A j \in DOMAIN s : t[j] = s[j]
Grown(q) ==
    /\ Extends(m_thenCallbacks[q], m_thenCallbacks'[q])
    /\ Extends(m_finallyCallbacks[q], m_finallyCallbacks'[q])
    /\ Extends(m_consumerRefs[q], m_consumerRefs'[q])

(* No promise but the one that is walked loses a callback.                 *)
LEMMA ListsGrow ==
    ASSUME ListsMoved, ListType, RefType, NEW q \in Promises,
           stack # <<>> => Top.op \notin Walking \/ Top.p # q
    PROVE  Grown(q)
<1> DEFINE T(p) == m_thenCallbacks[p]
           F(p) == m_finallyCallbacks[p]
           C(p) == m_consumerRefs[p]
<1>1. /\ DOMAIN m_thenCallbacks = Promises /\ DOMAIN m_finallyCallbacks = Promises
      /\ DOMAIN m_consumerRefs = Promises
      /\ \A p \in Promises : IsList(T(p)) /\ IsList(F(p)) /\ IsList(C(p))
  BY DEF ListType, RefType
<1>2. ASSUME NEW s, IsList(s)
      PROVE  Extends(s, s) /\ \A x : Extends(s, Append(s, x))
  <2>1. Len(s) \in Nat
    BY <1>2, AddToList
  <2>2. ASSUME NEW x PROVE Extends(s, Append(s, x))
    <3>1. /\ IsList(Append(s, x)) /\ DOMAIN s = 1..Len(s) /\ DOMAIN Append(s, x) = 1..Len(s) + 1
          /\ \A j \in DOMAIN s : Append(s, x)[j] = s[j]
      BY <1>2, AddToList
    <3>2. Len(Append(s, x)) = Len(s) + 1
      <4>1. PICK S : s \in Seq(S)
        BY <1>2 DEF IsList
      <4>2. s \in Seq(S \cup {x}) /\ x \in S \cup {x}
        BY <4>1, SeqMonotonic
      <4> QED
        BY <4>2, AppendProperties
    <3> QED
      BY <2>1, <3>1, <3>2 DEF Extends
  <2> QED
    BY <2>1, <2>2 DEF Extends
<1>3. /\ \A f, p, x : f = [m_thenCallbacks EXCEPT ![p] = Append(@, x)] => Extends(T(q), f[q])
      /\ \A f, p, x : f = [m_finallyCallbacks EXCEPT ![p] = Append(@, x)] => Extends(F(q), f[q])
      /\ \A f, p, x : f = [m_consumerRefs EXCEPT ![p] = Append(@, x)] => Extends(C(q), f[q])
      /\ Extends(T(q), T(q)) /\ Extends(F(q), F(q)) /\ Extends(C(q), C(q))
  BY <1>1, <1>2
<1>4. CASE UNCHANGED <<lists, m_consumerRefs>>
  BY <1>3, <1>4 DEF Grown, lists
<1>5. ASSUME NEW p, NEW cb,
             m_thenCallbacks' = [m_thenCallbacks EXCEPT ![p] = Append(@, cb)],
             UNCHANGED m_finallyCallbacks,
             \/ UNCHANGED m_consumerRefs
             \/ m_consumerRefs' = [m_consumerRefs EXCEPT ![p] = Append(@, cb.chained)]
      PROVE  Grown(q)
  BY <1>3, <1>5 DEF Grown
<1>6. ASSUME NEW p, NEW cb,
             m_finallyCallbacks' = [m_finallyCallbacks EXCEPT ![p] = Append(@, cb)],
             UNCHANGED m_thenCallbacks,
             m_consumerRefs' = [m_consumerRefs EXCEPT ![p] = Append(@, cb.chained)]
      PROVE  Grown(q)
  BY <1>3, <1>6 DEF Grown
<1>7. ASSUME NEW p \in Promises, p # q, ClearCallbacks(p),
             UNCHANGED m_consumerRefs \/ m_consumerRefs' = [m_consumerRefs EXCEPT ![p] = <<>>]
      PROVE  Grown(q)
  <2>1. T(q)' = T(q) /\ F(q)' = F(q) /\ C(q)' = C(q)
    BY <1>1, <1>7 DEF ClearCallbacks
  <2> QED
    BY <1>3, <2>1 DEF Grown
<1> QED
  BY <1>4, <1>5, <1>6, <1>7 DEF ListsMoved

LEMMA HangsOnStill ==
    ASSUME NEW q \in Promises, Grown(q), NEW p, HangsOn(q, p)
    PROVE  HangsOn(q, p)'
BY DEF Grown, Extends, HangsOn

LEMMA ReachesStill ==
    ASSUME ListType, ListType', NEW f, f.i \in Nat, f.p \in Promises, Grown(f.p), NEW p, Reaches(f, p)
    PROVE  Reaches(f, p)'
<1> DEFINE q == f.p
<1>1. /\ IsList(m_thenCallbacks[q]) /\ IsList(m_finallyCallbacks[q])
      /\ IsList(m_thenCallbacks'[q]) /\ IsList(m_finallyCallbacks'[q])
  BY DEF ListType
<1>2. /\ Len(m_thenCallbacks[q]) \in Nat /\ Len(m_thenCallbacks'[q]) \in Nat
      /\ DOMAIN m_finallyCallbacks[q] = 1..Len(m_finallyCallbacks[q])
      /\ Len(m_finallyCallbacks[q]) \in Nat
      /\ Len(m_thenCallbacks[q]) <= Len(m_thenCallbacks'[q])
  BY <1>1, AddToList DEF Grown, Extends
<1>3. ASSUME NEW j \in DOMAIN m_thenCallbacks[q]
      PROVE  j \in DOMAIN m_thenCallbacks'[q] /\ m_thenCallbacks'[q][j] = m_thenCallbacks[q][j]
  BY DEF Grown, Extends
<1>4. ASSUME NEW j \in DOMAIN m_finallyCallbacks[q]
      PROVE  j \in DOMAIN m_finallyCallbacks'[q] /\ m_finallyCallbacks'[q][j] = m_finallyCallbacks[q][j]
  BY DEF Grown, Extends
<1>5. ASSUME NEW j \in DOMAIN m_consumerRefs[q]
      PROVE  j \in DOMAIN m_consumerRefs'[q] /\ m_consumerRefs'[q][j] = m_consumerRefs[q][j]
  BY DEF Grown, Extends
<1>6. ASSUME NEW j \in DOMAIN m_finallyCallbacks[q], f.i <= Len(m_thenCallbacks[q]) + j
      PROVE  f.i <= Len(m_thenCallbacks'[q]) + j
  BY <1>2, <1>6, SMTT(20)
<1> HIDE DEF q
<1> QED
  BY <1>3, <1>4, <1>5, <1>6 DEF Reaches, q

(* A call that answers p, or a walk that comes to it, is under way.        *)
LEMMA ComingBy ==
    ASSUME NEW p, NEW f \in On(stack'), Answering(f, p) \/ Reaches(f, p)'
    PROVE  Coming(p)'
<1>1. Answering(f, p)' \/ Reaches(f, p)'
  BY DEF Answering
<1> QED
  BY <1>1, Zenon DEF Coming

(* A walk that will come to p does, or goes on.                            *)
LEMMA NotifyingComes ==
    ASSUME ListType, WalkInv, Intact, stack # <<>>, IsFrame(Top), NEW q \in Promises, NEW p,
           NotifyThen(q) \/ NotifyFinally(q), Reaches(Top, p)
    PROVE  Coming(p)'
<1> DEFINE T == m_thenCallbacks[q]
           F == m_finallyCallbacks[q]
<1>1. /\ Top.op \in Notifying /\ Top.p = q /\ UNCHANGED lists
  BY DEF NotifyThen, NotifyFinally, Running, Notifying
<1>0. IsStack(stack) /\ ~Resumed(q)
  BY <1>1, NotResumed DEF WalkInv, StackOK, Notifying
<1>2. PICK next : next = [Top EXCEPT !.i = @ + 1]
  OBVIOUS
<1>3. /\ Top.i \in Nat \ {0} /\ next.i = Top.i + 1 /\ next.op = Top.op /\ next.p = q
  BY <1>1, <1>2, NextPlace
<1>4. /\ Len(T) \in Nat /\ DOMAIN T = 1..Len(T) /\ Len(F) \in Nat /\ DOMAIN F = 1..Len(F)
  BY AddToList DEF ListType
<1>5. ASSUME NotifyThen(q)
      PROVE  Top.i \in DOMAIN T /\ \E f : Continue(<<f, next>>) /\ Answering(f, T[Top.i].chained)
  <2> DEFINE cb == T[Top.i]
             f == CASE cb.kind = "await" -> Script(cb.chained, "coroutine")
                    [] cb.kind = "all" -> Call(IF m_promiseState[q] = "Fulfilled"
                                               THEN "allFulfilled" ELSE "allRejected",
                                               cb.chained)
                    [] cb.kind = "then" /\ m_promiseState[q] \in cb.on
                           -> Script(cb.chained, "handler")
                    [] OTHER -> Propagate(q, cb.chained)
  <2>1. Top.i <= Len(T) /\ Continue(<<f, next>>)
    BY <1>0, <1>2, <1>5, Zenon DEF NotifyThen
  <2>2. Answering(f, cb.chained)
    <3> DEFINE c == cb.chained
    <3>1. Answering(Script(c, "coroutine"), c) /\ Answering(Script(c, "handler"), c)
      BY AnsweringCalls
    <3>2. Answering(Call("allFulfilled", c), c) /\ Answering(Call("allRejected", c), c)
      BY AnsweringCalls DEF Answerers
    <3>3. Answering(Propagate(q, c), c)
      BY AnsweringCalls
    <3> HIDE DEF c
    <3>4. f \in {Script(c, "coroutine"), Script(c, "handler"), Call("allFulfilled", c),
                 Call("allRejected", c), Propagate(q, c)}
      BY DEF c
    <3> HIDE DEF f
    <3> QED
      BY <3>1, <3>2, <3>3, <3>4 DEF c
  <2> HIDE DEF f
  <2> QED
    BY <1>3, <1>4, <2>1, <2>2
<1>6. ASSUME NotifyFinally(q)
      PROVE  LET k == Top.i - Len(T) IN
             k \in DOMAIN F /\ \E f : Continue(<<f, next>>) /\ Answering(f, F[k].chained)
  <2> DEFINE k == Top.i - Len(T)
             cb == F[k]
             f == IF cb.called THEN Script(cb.chained, "finally") ELSE Propagate(q, cb.chained)
  <2>1. k \in DOMAIN F /\ Continue(<<f, next>>)
    BY <1>2, <1>6 DEF NotifyFinally
  <2>2. Answering(f, cb.chained)
    <3>1. /\ Answering(Script(cb.chained, "finally"), cb.chained)
          /\ Answering(Propagate(q, cb.chained), cb.chained)
      BY AnsweringCalls
    <3> QED
      BY <3>1
  <2> HIDE DEF f, k
  <2>3. k \in DOMAIN F /\ \E g : Continue(<<g, next>>) /\ Answering(g, F[k].chained)
    BY <2>1, <2>2
  <2> QED
    BY <2>3 DEF k
<1>7. PICK f : Continue(<<f, next>>)
  BY <1>5, <1>6
<1>8. Reaches(next, p) => Coming(p)'
  <2>1. next \in On(stack')
    BY <1>0, <1>7, InnermostNow
  <2>2. Reaches(next, p) => Reaches(next, p)'
    BY <1>1, <1>3 DEF Reaches, lists, Notifying, Cancelling
  <2> QED
    BY <2>1, <2>2, ComingBy
<1>9. \A g : Continue(<<g, next>>) /\ Answering(g, p) => Coming(p)'
  BY <1>0, InnermostNow, ComingBy
<1>10. ASSUME NEW j \in DOMAIN T, Top.i <= j, T[j].chained = p
       PROVE  Coming(p)'
  <2>1. CASE Top.i = j
    <3>1. NotifyThen(q)
      BY <1>3, <1>4, <1>10, <1>6
    <3> QED
      BY <1>5, <1>9, <1>10, <2>1, <3>1
  <2>2. CASE Top.i # j
    <3>1. next.i <= j
      BY <1>3, <1>4, <1>10, <2>2
    <3>2. Reaches(next, p)
      BY <1>1, <1>3, <1>10, <3>1 DEF Reaches
    <3> QED
      BY <1>8, <3>2
  <2> QED
    BY <2>1, <2>2
<1>11. ASSUME NEW j \in DOMAIN F, Top.i <= Len(T) + j, F[j].chained = p
       PROVE  Coming(p)'
  <2>1. CASE Top.i = Len(T) + j
    <3>1. Top.i - Len(T) = j /\ Top.i \notin DOMAIN T
      BY <1>3, <1>4, <1>11, <2>1
    <3>2. NotifyFinally(q)
      BY <1>5, <3>1
    <3> QED
      BY <1>6, <1>9, <1>11, <3>1, <3>2
  <2>2. CASE Top.i # Len(T) + j
    <3>1. j \in Nat /\ Len(T) \in Nat
      BY <1>4, <1>11
    <3>2. next.i <= Len(T) + j
      <4> HIDE DEF T, F
      <4> QED
        BY <1>3, <1>11, <2>2, <3>1
    <3>3. Reaches(next, p)
      BY <1>1, <1>3, <1>11, <3>2 DEF Reaches
    <3> QED
      BY <1>8, <3>3
  <2> QED
    BY <2>1, <2>2
<1> QED
  BY <1>1, <1>10, <1>11 DEF Reaches, Notifying, Cancelling

(* A cancellation that comes to p cancels it, or goes on.                  *)
LEMMA CancellingComes ==
    ASSUME ListType, RefType, IsStack(stack), stack # <<>>, IsFrame(Top), NEW q \in Promises, NEW p,
           HookCalled(q) \/ CancelLinked(q) \/ CancelCallback(q), Reaches(Top, p)
    PROVE  Coming(p)'
<1> DEFINE T == m_thenCallbacks[q]
           C == m_consumerRefs[q]
<1>1. /\ Top.op \in Cancelling /\ Top.p = q /\ UNCHANGED <<lists, m_consumerRefs>>
  BY DEF HookCalled, CancelLinked, CancelCallback, Running, Cancelling, links
<1>2. PICK next : next = [Top EXCEPT !.i = @ + 1]
  OBVIOUS
<1>3. /\ Top.i \in Nat \ {0} /\ next.i = Top.i + 1 /\ next.op = Top.op /\ next.p = q
  BY <1>1, <1>2, NextPlace
<1>4. DOMAIN T = 1..Len(T) /\ DOMAIN C = 1..Len(C) /\ Len(T) \in Nat /\ Len(C) \in Nat
  BY AddToList DEF ListType, RefType
<1>5. ASSUME NEW f \in On(stack'), Answering(f, p) \/ (Reaches(f, p) /\ f.p = q)
      PROVE  Coming(p)'
  <2>1. CASE Answering(f, p)
    BY <2>1, ComingBy
  <2>2. CASE Reaches(f, p) /\ f.p = q
    <3>1. Reaches(f, p)'
      BY <1>1, <2>2 DEF Reaches, lists
    <3> QED
      BY <3>1, ComingBy
  <2> QED
    BY <1>5, <2>1, <2>2
<1>6. \A op \in Cancelling : LET f == Call(op, q) IN f.op = op /\ f.p = q /\ f.i = 1
  BY FrameIs, 1 \in Nat \ {0} DEF Call
<1>7. CASE HookCalled(q)
  <2>1. PICK f : f = Call("down", q)
    OBVIOUS
  <2>2. f.op = "down" /\ f.p = q /\ f.i = 1
    BY <1>6, <2>1 DEF Cancelling
  <2>3. f \in On(stack')
    BY <1>7, <2>1, InnermostNow DEF HookCalled
  <2>4. Top.op = "cancelled"
    BY <1>7 DEF HookCalled, Running
  <2>5. Reaches(f, p)
    BY <1>1, <1>4, <2>2, <2>4 DEF Reaches, Notifying, Cancelling
  <2> QED
    BY <1>5, <2>2, <2>3, <2>5
<1>8. CASE CancelLinked(q)
  <2>1. Top.op = "down"
    BY <1>8 DEF CancelLinked, Running
  <2>2. CASE Top.i <= Len(C)
    <3>1. Continue(<<Call("cancel", C[Top.i]), next>>)
      BY <1>1, <1>2, <1>8, <2>2 DEF CancelLinked
    <3>2. Call("cancel", C[Top.i]) \in On(stack') /\ next \in On(stack')
      BY <3>1, InnermostNow
    <3>3. CASE Top.i \in DOMAIN C /\ C[Top.i] = p
      <4>1. Answering(Call("cancel", p), p)
        BY AnsweringCalls DEF Answerers
      <4>2. Call("cancel", p) \in On(stack')
        BY <3>2, <3>3
      <4> QED
        BY <4>1, <4>2, ComingBy
    <3>4. CASE ~(Top.i \in DOMAIN C /\ C[Top.i] = p)
      <4>1. \A j \in DOMAIN C : Top.i <= j /\ C[j] = p => next.i <= j
        BY <1>3, <1>4, <3>4
      <4>2. Reaches(next, p)
        BY <1>1, <1>3, <2>1, <4>1 DEF Reaches, Notifying, Cancelling
      <4> QED
        BY <1>3, <1>5, <3>2, <4>2
    <3> QED
      BY <3>3, <3>4
  <2>3. CASE ~(Top.i <= Len(C))
    <3>1. PICK f : f = Call("drop", q)
      OBVIOUS
    <3>2. f.op = "drop" /\ f.p = q /\ f.i = 1
      BY <1>6, <3>1 DEF Cancelling
    <3>3. Continue(<<f>>) \/ \E g : Continue(<<g, f>>)
      BY <1>8, <2>3, <3>1 DEF CancelLinked
    <3>4. f \in On(stack')
      BY <3>3, InnermostNow
    <3>5. \A j \in DOMAIN C : ~(Top.i <= j)
      BY <1>3, <1>4, <2>3
    <3>6. Reaches(f, p)
      BY <1>1, <1>4, <2>1, <3>2, <3>5 DEF Reaches, Notifying, Cancelling
    <3> QED
      BY <1>5, <3>2, <3>4, <3>6
  <2> QED
    BY <2>2, <2>3
<1>9. CASE CancelCallback(q)
  <2> DEFINE cb == T[Top.i]
  <2>1. Top.op = "drop" /\ Top.i \in DOMAIN T
    BY <1>3, <1>4, <1>9 DEF CancelCallback, Running
  <2>2. /\ cb.kind = "await" => Continue(<<Call("reject", cb.chained), next>>)
        /\ cb.kind # "await" => Continue(<<next>>)
    <3>1. Continue((IF cb.kind = "await" THEN <<Call("reject", cb.chained)>> ELSE <<>>) \o <<next>>)
      BY <1>2, <1>9 DEF CancelCallback
    <3> QED
      BY <3>1, OneByOne
  <2>3. next \in On(stack') /\ (cb.kind = "await" => Call("reject", cb.chained) \in On(stack'))
    BY <2>2, InnermostNow
  <2>4. CASE cb.kind = "await" /\ cb.chained = p
    <3>1. Answering(Call("reject", p), p)
      BY AnsweringCalls DEF Answerers
    <3>2. Call("reject", p) \in On(stack')
      BY <2>3, <2>4
    <3> QED
      BY <3>1, <3>2, ComingBy
  <2>5. CASE ~(cb.kind = "await" /\ cb.chained = p)
    <3>1. \A j \in DOMAIN T : Top.i <= j /\ T[j].kind = "await" /\ T[j].chained = p => next.i <= j
      BY <1>3, <1>4, <2>5
    <3>2. Reaches(next, p)
      BY <1>1, <1>3, <2>1, <3>1 DEF Reaches, Notifying, Cancelling
    <3> QED
      BY <1>3, <1>5, <2>3, <3>2
  <2> QED
    BY <2>4, <2>5
<1> QED
  BY <1>7, <1>8, <1>9

(* The last callback hangs its promise on the list's.                      *)
LEMMA LastHangs ==
    ASSUME ListType, NEW q \in Promises, NEW cb, NEW p, cb.chained = p,
           \/ m_thenCallbacks' = [m_thenCallbacks EXCEPT ![q] = Append(@, cb)]
           \/ m_finallyCallbacks' = [m_finallyCallbacks EXCEPT ![q] = Append(@, cb)]
    PROVE  HangsOn(q, p)'
<1> DEFINE T == m_thenCallbacks[q]
           F == m_finallyCallbacks[q]
<1>1. /\ Len(T) + 1 \in DOMAIN Append(T, cb) /\ Append(T, cb)[Len(T) + 1] = cb
      /\ Len(F) + 1 \in DOMAIN Append(F, cb) /\ Append(F, cb)[Len(F) + 1] = cb
  BY LastOf DEF ListType
<1>2. T' = Append(T, cb) \/ F' = Append(F, cb)
  BY DEF ListType
<1> QED
  BY <1>1, <1>2, SMTT(20) DEF HangsOn

(* What the innermost walk comes to, some call will.                       *)
LEMMA TopComes ==
    ASSUME ListType, RefType, WalkInv, Intact, Intact', stack # <<>>, IsFrame(Top), [Next]_vars,
           NEW p, Reaches(Top, p)
    PROVE  Coming(p)'
<1>0. IsStack(stack)
  BY DEF WalkInv, StackOK
<1>1. Top.op \in {"notify", "renotify", "cancelled", "down", "drop"}
  BY DEF Reaches, Notifying, Cancelling
<1>2. CASE ScriptStep
  BY <1>1, <1>2 DEF ScriptStep, Scripting
<1>3. CASE UNCHANGED vars
  <2>1. Reaches(Top, p)' /\ Top' = Top /\ UNCHANGED stack
    BY <1>3, Zenon DEF vars, lists, links, Reaches, Top
  <2>2. Top \in On(stack')
    BY <1>0, <2>1, InnermostNow
  <2>3. PICK f \in On(stack') : Reaches(f, p)'
    BY <2>1, <2>2
  <2> QED
    BY <2>3, ComingBy
<1>4. CASE PromiseStep
  <2>1. ASSUME NEW q, \/ ResolveIgnored \/ ResolveValue(q) \/ reject(q)
                      \/ (\E inner : ResolveSettled(q, inner) \/ ResolveAdopts(q, inner))
                      \/ CancelStarts(q) \/ AllInput(q) \/ AllEnds(q)
                      \/ AllFulfilled(q) \/ AllRejected(q) \/ AllRelease(q) \/ AllCancel(q)
        PROVE  FALSE
    BY <1>1, <2>1, Zenon DEF ResolveIgnored, ResolveValue, Resolving, reject, ResolveSettled, ResolveAdopts,
         CancelStarts, AllInput, AllEnds, AllFulfilled, AllRejected, AllRelease, AllCancel,
         Closure, Running
  <2>2. ASSUME NEW q \in Promises, NotifyEnds(q) \/ CancelEnds(q)
        PROVE  FALSE
    <3>1. Top.i \in Nat
      BY NextPlace
    <3>2. Top.p = q
      BY <2>2 DEF NotifyEnds, CancelEnds
    <3> DEFINE T == m_thenCallbacks[q]
               F == m_finallyCallbacks[q]
    <3>3. /\ Len(T) \in Nat /\ DOMAIN T = 1..Len(T) /\ Len(F) \in Nat /\ DOMAIN F = 1..Len(F)
      BY AddToList DEF ListType
    <3>4. CASE NotifyEnds(q)
      <4>1. Top.op \in Notifying /\ Top.i > Len(T) + Len(F)
        BY <3>4 DEF NotifyEnds, Running, Notifying
      <4>2. (\A j \in DOMAIN T : ~(Top.i <= j)) /\ \A j \in DOMAIN F : ~(Top.i <= Len(T) + j)
        <5> HIDE DEF T, F
        <5> QED
          BY <3>1, <3>3, <4>1
      <4> QED
        BY <3>2, <4>1, <4>2 DEF Reaches, Notifying, Cancelling
    <3>5. CASE CancelEnds(q)
      <4>1. Top.op = "drop" /\ Top.i > Len(T)
        BY <3>5 DEF CancelEnds, Running
      <4>2. \A j \in DOMAIN T : ~(Top.i <= j)
        BY <3>1, <3>3, <4>1
      <4> QED
        BY <3>2, <4>1, <4>2 DEF Reaches, Notifying, Cancelling
    <3> QED
      BY <2>2, <3>4, <3>5
  <2> QED
    BY <1>0, <1>4, <2>1, <2>2, NotifyingComes, CancellingComes, SMTT(30) DEF PromiseStep
<1> QED
  BY <1>2, <1>3, <1>4, DefinedBefore

(* The script that will answer p runs on, does so, or awaits a promise.    *)
LEMMA ScriptAnswers ==
    ASSUME ListType, IsStack(stack), stack # <<>>, NEW p, Answering(Top, p), ScriptStep
    PROVE  Coming(p)'
<1>1. Top.op = "script" /\ Top.v # "hook" /\ Top.p = p
  BY DEF ScriptStep, Scripting, Answering, Answerers
<1>2. Top \in On(stack') => Coming(p)'
  BY ComingBy
<1>3. ASSUME NEW q, \/ New(q) \/ OnCancel(q) \/ Cancel(q) \/ lua_async(q) \/ All(q)
                    \/ \E v : Settle(q, v)
      PROVE  Coming(p)'
  <2>1. UNCHANGED stack \/ \E f : stack' = <<f>> \o stack
    BY <1>3 DEF New, OnCancel, Cancel, lua_async, All, Settle
  <2> QED
    BY <1>2, <2>1, InnermostNow
<1>4. ASSUME NEW q, NEW c, (\E on : AndThen(q, c, on)) \/ \E called : Finally(q, c, called)
      PROVE  Coming(p)'
  <2>1. stack' = NotifyIfSettled(q, c) \o stack
    BY <1>4 DEF AndThen, Finally
  <2>2. stack' = stack \/ \E f : stack' = <<f>> \o stack
    <3>1. <<>> \o stack = stack
      <4>1. PICK S : stack \in Seq(S)
        BY DEF IsStack
      <4> QED
        BY <4>1, ConcatEmptySeq
    <3> QED
      BY <2>1, <3>1 DEF NotifyIfSettled
  <2> QED
    BY <1>2, <2>2, InnermostNow
<1>5. ASSUME NEW q \in Promises, lua_await(q)
      PROVE  Coming(p)'
  <2>1. PICK cb : cb = [kind |-> "await", on |-> {}, chained |-> p]
    OBVIOUS
  <2>2. m_thenCallbacks' = [m_thenCallbacks EXCEPT ![q] = Append(@, cb)] /\ isPending(q)'
    BY <1>1, <1>5, <2>1 DEF lua_await, Awaitable, isPending
  <2>3. cb.chained = p
    BY <2>1
  <2>4. HangsOn(q, p)'
    BY <2>2, <2>3, LastHangs
  <2> QED
    BY <2>2, <2>4 DEF Coming
<1>6. ASSUME NEW v, Return(v)
      PROVE  Coming(p)'
  <2>1. Continue(<<Propagate(stack[2].p, p)>>) \/ Continue(<<Frame("resolve", p, 1, v)>>)
    BY <1>1, <1>6 DEF Return
  <2>2. /\ Answering(Propagate(stack[2].p, p), p)
        /\ Answering(Frame("resolve", p, 1, v), p)
    BY AnsweringCalls
  <2> QED
    BY <2>1, <2>2, InnermostNow, ComingBy
<1>7. ASSUME Throw
      PROVE  Coming(p)'
  <2>1. Continue(<<Call("reject", p)>>)
    BY <1>1, <1>7 DEF Throw
  <2>2. Answering(Call("reject", p), p)
    BY AnsweringCalls DEF Answerers
  <2> QED
    BY <2>1, <2>2, InnermostNow, ComingBy
<1> QED
  BY <1>3, <1>4, <1>5, <1>6, <1>7 DEF ScriptStep

(* The call that will answer p does so by another, or hangs p's answer on  *)
(* a pending promise.                                                      *)
LEMMA CallAnswers ==
    ASSUME StateType, AllsInv, TableInv, ListType, IsStack(stack), stack # <<>>, IsFrame(Top),
           NEW p \in Promises, Answering(Top, p), isPending(p), isPending(p)', origin[p] # "all",
           PromiseStep
    PROVE  Coming(p)'
<1>1. Top.op \in Answerers \cup {"script", "allCancel"} /\ Top.p = p
  BY DEF Answering
<1>2. \A f : f \in On(stack') /\ Answering(f, p) => Coming(p)'
  BY ComingBy
<1>3. /\ Answering(Frame("resolve", p, 1, Plain), p) /\ Answering(Call("reject", p), p)
      /\ Answering(Call("cancel", p), p) /\ Answering(Call("allRelease", p), p)
  BY AnsweringCalls DEF Answerers
<1>4. Continue(ClosureReturns) => Coming(p)'
  BY <1>1, <1>2, <1>3, InnermostNow DEF ClosureReturns
<1>5. ASSUME NEW r \in Promises, NEW k \in DOMAIN alls[r].chained, alls[r].chained[k] = p
      PROVE  r # p
  BY <1>5, PlacesAreNumbers DEF TableInv
<1>6. ASSUME ResolveIgnored PROVE FALSE
  BY <1>1, <1>6 DEF ResolveIgnored
<1>7. ASSUME NEW q, q = p, ResolveValue(q) \/ reject(q) \/ CancelStarts(q)
      PROVE  FALSE
  <2>1. \E s \in Settled : m_promiseState' = [m_promiseState EXCEPT ![p] = s]
    BY <1>7 DEF ResolveValue, reject, CancelStarts, Settled
  <2> QED
    BY <2>1 DEF StateType, isPending, Settled
<1>8. ASSUME NEW inner, ResolveSettled(p, inner) PROVE Coming(p)'
  <2>1. \/ Continue(<<Frame("resolve", p, 1, Plain)>>) \/ Continue(<<Call("reject", p)>>)
        \/ Continue(<<Call("cancel", p)>>)
    BY <1>8 DEF ResolveSettled, Settled, isCancelled
  <2> QED
    BY <1>2, <1>3, <2>1, InnermostNow
<1>9. ASSUME NEW inner \in Promises, ResolveAdopts(p, inner) PROVE Coming(p)'
  <2>1. PICK cb : cb = [kind |-> "adopt", on |-> {}, chained |-> p]
    OBVIOUS
  <2>2. m_thenCallbacks' = [m_thenCallbacks EXCEPT ![inner] = Append(@, cb)] /\ isPending(inner)'
    BY <1>9, <2>1 DEF ResolveAdopts, isPending
  <2>3. cb.chained = p
    BY <2>1
  <2>4. HangsOn(inner, p)'
    BY <2>2, <2>3, LastHangs, Zenon
  <2> QED
    BY <2>2, <2>4 DEF Coming
<1>10. ASSUME NEW q, \/ NotifyThen(q) \/ NotifyFinally(q) \/ NotifyEnds(q)
                     \/ HookCalled(q) \/ CancelLinked(q) \/ CancelCallback(q) \/ CancelEnds(q)
                     \/ AllInput(q) \/ AllEnds(q)
       PROVE  FALSE
  BY <1>1, <1>10, Zenon DEF NotifyThen, NotifyFinally, NotifyEnds, HookCalled, CancelLinked,
     CancelCallback, CancelEnds, AllInput, AllEnds, Running, Answerers
<1>11. ASSUME NEW r \in Promises, AllFulfilled(r)
       PROVE  Coming(p)'
  <2>1. Continue(ClosureReturns) \/ \E g : Continue(<<g, Call("allRelease", p)>>)
    BY <1>1, <1>11 DEF AllFulfilled
  <2> QED
    BY <1>2, <1>3, <1>4, <2>1, InnermostNow
<1>12. ASSUME NEW r \in Promises, AllRelease(r)
       PROVE  Coming(p)'
  BY <1>4, <1>12 DEF AllRelease
<1>13. ASSUME NEW r \in Promises, AllRejected(r)
       PROVE  Coming(p)'
  <2>1. r # p
    BY <1>1, <1>5, <1>13 DEF AllRejected, Closure
  <2>2. Continue(ClosureReturns) \/ \E g : Continue(<<g, Frame("allCancel", p, 1, r)>>)
    BY <1>1, <1>13 DEF AllRejected
  <2>3. Answering(Frame("allCancel", p, 1, r), p)
    <3>1. LET f == Frame("allCancel", p, 1, r) IN f.op = "allCancel" /\ f.p = p /\ f.v = r
      BY FrameIs, 1 \in Nat \ {0}
    <3> QED
      BY <2>1, <3>1 DEF Answering
  <2> QED
    BY <1>2, <1>4, <2>2, <2>3, InnermostNow
<1>14. ASSUME NEW r \in Promises, AllCancel(r)
       PROVE  Coming(p)'
  <2>1. Top.op = "allCancel" /\ Top.v = r /\ r # p
    BY <1>14 DEF AllCancel, Running, Answering, Answerers
  <2>2. PICK next : next = [Top EXCEPT !.i = @ + 1]
    OBVIOUS
  <2>3. Answering(next, p)
    <3>1. next.op = "allCancel" /\ next.p = p /\ next.v = r
      BY <1>1, <2>1, <2>2, NextPlace
    <3> QED
      BY <2>1, <3>1 DEF Answering
  <2>4. Continue(ClosureReturns) \/ \E g : Continue(<<g, next>>)
    BY <1>1, <1>14, <2>1, <2>2 DEF AllCancel
  <2> QED
    BY <1>2, <1>4, <2>3, <2>4, InnermostNow
<1> QED
  BY <1>1, <1>6, <1>7, <1>8, <1>9, <1>10, <1>11, <1>12, <1>13, <1>14 DEF PromiseStep

(* A pending promise is cancelled by cancel only.                          *)
LEMMA CancelsAreBegun ==
    ASSUME StateType, [Next]_vars, NEW q \in Promises, isPending(q), isCancelled(q)'
    PROVE  CancelStarts(q) /\ stack # <<>>
<1>1. ~ResolveValue(q) /\ ~reject(q)
  BY DEF ResolveValue, reject, StateType, isPending, isCancelled
<1> QED
  BY <1>1, SettlesWhen DEF isPending, isCancelled, Settled

(* What hangs on a pending promise hangs there still, or the calls that    *)
(* settle it come by.                                                      *)
LEMMA HangingComes ==
    ASSUME StateType, AllsInv, WalkInv, ListType, RefType, ConsumerInv, ListsMoved,
           [Next]_vars, Intact', NEW q \in Promises, isPending(q), NEW p, HangsOn(q, p)
    PROVE  Coming(p)'
<1>1. StackOK(m_promiseState, stack) /\ IsStack(stack) /\ Intact
  BY DefinedBefore DEF WalkInv, StackOK
<1> DEFINE T == m_thenCallbacks[q]
           F == m_finallyCallbacks[q]
           C == m_consumerRefs[q]
<1>2. /\ Len(T) \in Nat /\ DOMAIN T = 1..Len(T) /\ DOMAIN F = 1..Len(F) /\ Len(F) \in Nat
      /\ DOMAIN C = 1..Len(C) /\ Len(C) \in Nat
  BY AddToList DEF ListType, RefType
<1>3. CASE isPending(q)'
  <2>1. stack # <<>> => Top.op \notin Walking \/ Top.p # q
    BY <1>1, PopOne DEF Good, Top, isPending, Settled
  <2>2. HangsOn(q, p)'
    BY <2>1, ListsGrow, HangsOnStill
  <2> QED
    BY <1>3, <2>2 DEF Coming
<1>4. CASE m_promiseState'[q] \in Answered
  <2>1. PICK f : f = Call("notify", q)
    OBVIOUS
  <2>2. f.op \in Notifying /\ f.p = q /\ f.i = 1
    BY <2>1, FrameIs, 1 \in Nat \ {0}, SMTT(20) DEF Call, Notifying
  <2>3. ResolveValue(q) \/ reject(q)
    BY <1>4, AnswersAreGiven DEF isPending, Answered
  <2>4. stack # <<>> /\ Continue(<<f>>) /\ UNCHANGED lists
    BY <2>1, <2>3 DEF ResolveValue, Resolving, reject, isPending, Running
  <2>5. f \in On(stack')
    BY <1>1, <2>4, InnermostNow
  <2>6. (\A j \in DOMAIN T : 1 <= j) /\ \A j \in DOMAIN F : 1 <= Len(T) + j
    BY <1>2
  <2>7. Reaches(f, p)
    BY <2>2, <2>6 DEF Reaches, HangsOn
  <2>8. Reaches(f, p)'
    BY <2>2, <2>4, <2>6 DEF Reaches, HangsOn, lists
  <2> QED
    BY <2>5, <2>8, ComingBy
<1>5. CASE isCancelled(q)'
  <2>1. CancelStarts(q) /\ stack # <<>>
    BY <1>5, CancelsAreBegun
  <2>2. UNCHANGED <<lists, m_consumerRefs>>
    BY <2>1 DEF CancelStarts, links
  <2>3. PICK f : /\ f = Call("cancelled", q) \/ f = Call("down", q)
                 /\ Continue(<<f>>) \/ \E g : Continue(<<g, f>>)
    BY <2>1 DEF CancelStarts
  <2>4. f.op \in {"cancelled", "down"} /\ f.p = q /\ f.i = 1
    BY <2>3, FrameIs, 1 \in Nat \ {0}, SMTT(20) DEF Call
  <2>5. f \in On(stack')
    BY <1>1, <2>1, <2>3, InnermostNow
  <2>6. \/ \E j \in DOMAIN T : T[j].kind = "await" /\ T[j].chained = p
        \/ p \in Consumers(q)
    BY DEF HangsOn, ConsumerInv, isPending, Settled
  <2>7. p \in Consumers(q) => \E j \in DOMAIN C : f.i <= j /\ C[j] = p
    BY <1>2, <2>4 DEF Consumers, On
  <2>8. Reaches(f, p)
    BY <2>4, <2>6, <2>7 DEF Reaches, Notifying, Cancelling
  <2>9. Reaches(f, p)'
    BY <2>2, <2>8 DEF Reaches, lists
  <2> QED
    BY <2>5, <2>9, ComingBy
<1>6. m_promiseState'[q] \in Settled \cup {"Pending"}
  BY EveryStepMoves DEF StateType, OneMoves, isPending, Settled
<1> QED
  BY <1>3, <1>4, <1>5, <1>6 DEF isPending, isCancelled, Answered, Settled

(* What was coming is coming, or has come.                                 *)
LEMMA ComingStill ==
    ASSUME StateType, AllsInv, WalkInv, TableInv, ListType, ListType', RefType, ConsumerInv,
           [Next]_vars, Intact', NEW p \in Promises, isPending(p), isPending(p)',
           origin[p] # "all", Coming(p)
    PROVE  Coming(p)'
<1>1. StackOK(m_promiseState, stack) /\ IsStack(stack) /\ Intact
  BY DefinedBefore DEF WalkInv, StackOK
<1>2. ListsMoved
  BY ListMoves
<1>3. CASE \E q \in Promises : isPending(q) /\ HangsOn(q, p)
  BY <1>2, <1>3, HangingComes
<1>4. ASSUME NEW f \in On(stack), Answering(f, p) \/ Reaches(f, p)
      PROVE  Coming(p)'
  <2>1. stack # <<>>
    BY <1>4, EmptySeq DEF On
  <2>2. On(stack) = {Top} \cup On(Tail(stack)) /\ IsFrame(Top) /\ Good(m_promiseState, Top)
    BY <1>1, <2>1, OnTop, PopOne DEF Top
  <2>3. CASE f \in On(Tail(stack))
    <3>1. f \in On(stack')
      BY <1>1, <2>1, <2>3, Underneath
    <3>2. CASE Answering(f, p)
      BY <3>1, <3>2, ComingBy
    <3>3. CASE Reaches(f, p)
      <4>1. f.op \in Walking
        BY <3>3 DEF Reaches, Notifying, Cancelling, Walking
      <4>2. /\ StackOK(m_promiseState, Tail(stack))
            /\ Top.op \in Walking => Free(Tail(stack), Top.p)
        BY <1>1, <2>1, PopOne DEF Top
      <4>3. Good(m_promiseState, f) /\ IsFrame(f)
        <5>1. PICK S : Tail(stack) \in Seq(S) /\ \A h \in S : IsFrame(h)
          BY <4>2 DEF StackOK, IsStack
        <5>2. PICK k \in DOMAIN Tail(stack) : Tail(stack)[k] = f
          BY <2>3 DEF On
        <5>3. f \in S
          BY <5>1, <5>2
        <5> QED
          BY <4>2, <5>1, <5>2, <5>3 DEF StackOK
      <4>4. f.p \in Promises /\ f.i \in Nat
        BY <4>1, <4>3, NextPlace DEF Good
      <4>5. Top.op \notin Walking \/ Top.p # f.p
        BY <2>3, <4>1, <4>2 DEF Free, On
      <4>6. Reaches(f, p)'
        BY <1>2, <3>3, <4>4, <4>5, ListsGrow, ReachesStill
      <4> QED
        BY <3>1, <4>6, ComingBy
    <3> QED
      BY <1>4, <3>2, <3>3
  <2>4. CASE f = Top
    <3>1. CASE Reaches(f, p)
      BY <1>1, <2>1, <2>2, <2>4, <3>1, TopComes
    <3>2. CASE Answering(f, p)
      <4>1. CASE UNCHANGED vars
        <5>1. UNCHANGED stack
          BY <4>1 DEF vars
        <5> QED
          BY <1>4, <3>2, <5>1, ComingBy
      <4>2. CASE ScriptStep
        BY <1>1, <2>1, <2>4, <3>2, <4>2, ScriptAnswers
      <4>3. CASE PromiseStep
        BY <1>1, <2>1, <2>2, <2>4, <3>2, <4>3, CallAnswers
      <4> QED
        BY <4>1, <4>2, <4>3, DefinedBefore
    <3> QED
      BY <1>4, <3>1, <3>2
  <2> QED
    BY <2>2, <2>3, <2>4
<1> QED
  BY <1>3, <1>4, Zenon DEF Coming

(* The callback cb is added to one of q's lists.                           *)
Appends(q, cb) ==
    \/ /\ m_thenCallbacks' = [m_thenCallbacks EXCEPT ![q] = Append(@, cb)]
       /\ UNCHANGED m_finallyCallbacks
    \/ /\ m_finallyCallbacks' = [m_finallyCallbacks EXCEPT ![q] = Append(@, cb)]
       /\ UNCHANGED m_thenCallbacks

(* The answer of a promise that is chained is coming from its first step.  *)
LEMMA ChainedComes ==
    ASSUME StateType, ListType, ListType', NEW q \in Promises, NEW c \in Promises, ~isCancelled(q),
           m_promiseState' = [m_promiseState EXCEPT ![c] = "Pending"],
           NEW cb, cb.chained = c,
           Appends(q, cb),
           \A f : NotifyIfSettled(q, c) = <<f>> => f \in On(stack')
    PROVE  Coming(c)'
<1>1. HangsOn(q, c)'
  BY LastHangs DEF Appends
<1>2. CASE isPending(q)
  <2>1. isPending(q)'
    BY <1>2 DEF StateType, isPending
  <2> QED
    BY <1>1, <2>1 DEF Coming
<1>3. CASE ~isPending(q)
  <2>1. PICK f : f = Frame("renotify", q, 1, c)
    OBVIOUS
  <2>2. f \in On(stack')
    BY <1>3, <2>1 DEF NotifyIfSettled
  <2>3. f.op \in Notifying /\ f.p = q /\ f.i = 1
    BY <2>1, FrameIs, 1 \in Nat \ {0}, SMTT(20) DEF Notifying
  <2> DEFINE T == m_thenCallbacks'[q]
             F == m_finallyCallbacks'[q]
  <2>4. /\ Len(T) \in Nat /\ DOMAIN T = 1..Len(T) /\ DOMAIN F = 1..Len(F) /\ Len(F) \in Nat
    BY AddToList DEF ListType
  <2>5. (\A j \in DOMAIN T : 1 <= j) /\ \A j \in DOMAIN F : 1 <= Len(T) + j
    <3> HIDE DEF T, F
    <3> QED
      BY <2>4
  <2>6. Reaches(f, c)'
    BY <1>1, <2>3, <2>5 DEF Reaches, HangsOn
  <2> QED
    BY <2>2, <2>6, ComingBy
<1> QED
  BY <1>2, <1>3

(* The answer of a promise that was just made is coming.                   *)
LEMMA NewComes ==
    ASSUME StateType, AllsInv, WalkInv, TableInv, ListType, ListType', [Next]_vars, Intact',
           NEW p \in Promises, ~isPending(p), isPending(p)', origin'[p] \in {"then", "async"},
           p \notin late'
    PROVE  Coming(p)'
<1>1. StackOK(m_promiseState, stack) /\ IsStack(stack) /\ Intact
  BY DefinedBefore DEF WalkInv, StackOK
<1>2. \A c : m_promiseState' = [m_promiseState EXCEPT ![c] = "Pending"] => c = p
  BY DEF StateType, isPending
<1>3. ASSUME \/ UNCHANGED m_promiseState
             \/ \E c : \E s \in Settled : m_promiseState' = [m_promiseState EXCEPT ![c] = s]
      PROVE  FALSE
  BY <1>3 DEF StateType, isPending, Settled
<1>4. ASSUME NEW c, NEW v, \/ Cancel(c) \/ OnCancel(c) \/ lua_await(c) \/ Settle(c, v)
                           \/ Return(v) \/ Throw
      PROVE  FALSE
  <2>1. UNCHANGED m_promiseState
    BY <1>4 DEF Cancel, OnCancel, lua_await, Settle, Return, Throw
  <2> QED
    BY <1>3, <2>1
<1>5. ASSUME NEW c, New(c) PROVE FALSE
  <2>1. c = p /\ m_promiseState[c] = "unused" /\ UNCHANGED origin
    BY <1>2, <1>5 DEF New, Fresh
  <2> QED
    BY <2>1 DEF TableInv
<1>6. ASSUME NEW c, All(c) PROVE FALSE
  <2>1. c = p /\ origin' = [origin EXCEPT ![c] = "all"]
    BY <1>2, <1>6 DEF All
  <2> QED
    BY <2>1 DEF TableInv
<1>7. ASSUME NEW c, lua_async(c) PROVE Coming(p)'
  <2>1. c = p /\ stack' = <<Script(p, "coroutine")>> \o stack
    BY <1>2, <1>7 DEF lua_async
  <2>2. Script(p, "coroutine") \in On(stack')
    BY <1>1, <2>1, OnPush
  <2>3. Answering(Script(p, "coroutine"), p)
    BY AnsweringCalls
  <2> QED
    BY <2>2, <2>3, ComingBy
<1>8. ASSUME NEW q \in Promises, NEW c, NEW cb, cb.chained = c, Appends(q, cb),
             promise_wireLinks(q, c),
             \A f : NotifyIfSettled(q, c) = <<f>> => f \in On(stack')
      PROVE  Coming(p)'
  <2>1. c = p /\ m_promiseState' = [m_promiseState EXCEPT ![c] = "Pending"]
    BY <1>2, <1>8 DEF promise_wireLinks
  <2>2. ~isCancelled(q)
    BY <1>8, <2>1 DEF promise_wireLinks
  <2> QED
    BY <1>8, <2>1, <2>2, ChainedComes
<1>9. ASSUME NEW q \in Promises, NEW c, NEW on, AndThen(q, c, on)
      PROVE  Coming(p)'
  <2>1. PICK cb : cb = [kind |-> "then", on |-> on, chained |-> c]
    OBVIOUS
  <2>2. cb.chained = c
    BY <2>1
  <2>3. Appends(q, cb) /\ promise_wireLinks(q, c) /\ stack' = NotifyIfSettled(q, c) \o stack
    BY <1>9, <2>1 DEF AndThen, Appends
  <2>4. ASSUME NEW f, NotifyIfSettled(q, c) = <<f>> PROVE f \in On(stack')
    <3>1. stack' = <<f>> \o stack
      BY <2>3, <2>4
    <3> QED
      BY <1>1, <3>1, OnPush
  <2> QED
    BY <1>8, <2>2, <2>3, <2>4
<1>10. ASSUME NEW q \in Promises, NEW c, NEW called, Finally(q, c, called)
       PROVE  Coming(p)'
  <2>1. PICK cb : cb = [called |-> called, chained |-> c]
    OBVIOUS
  <2>2. cb.chained = c
    BY <2>1
  <2>3. Appends(q, cb) /\ promise_wireLinks(q, c) /\ stack' = NotifyIfSettled(q, c) \o stack
    BY <1>10, <2>1 DEF Finally, Appends
  <2>4. ASSUME NEW f, NotifyIfSettled(q, c) = <<f>> PROVE f \in On(stack')
    <3>1. stack' = <<f>> \o stack
      BY <2>3, <2>4
    <3> QED
      BY <1>1, <3>1, OnPush
  <2> QED
    BY <1>8, <2>2, <2>3, <2>4
<1>11. ASSUME NEW r \in Promises, stack # <<>>, AllInput(r)
       PROVE  Coming(p)'
  <2>1. PICK q, c : q = alls[r].inputs[Top.i] /\ c = alls[r].chained[Top.i]
    BY Zenon
  <2>2. q \in Promises
    <3>1. Top.i \in Nat \ {0} /\ Top.i <= Len(alls[r].inputs)
      BY <1>1, <1>11, PopOne, NextPlace, Zenon DEF AllInput, Top
    <3> QED
      BY <2>1, <3>1, PlacesAreNumbers DEF Places, Input, Made
  <2>3. PICK cb : cb = [kind |-> "all", on |-> {"Fulfilled", "Rejected"}, chained |-> c]
    OBVIOUS
  <2>4. cb.chained = c
    BY <2>3
  <2>5. PICK next : next = [Top EXCEPT !.i = @ + 1]
    OBVIOUS
  <2>6. /\ Appends(q, cb) /\ promise_wireLinks(q, c)
        /\ Continue(NotifyIfSettled(q, c) \o <<next>>)
    BY <1>11, <2>1, <2>3, <2>5 DEF AllInput, Appends
  <2>7. ASSUME NEW f, NotifyIfSettled(q, c) = <<f>> PROVE f \in On(stack')
    <3>1. Continue(<<f, next>>)
      BY <2>6, <2>7, OneByOne
    <3> QED
      BY <1>1, <1>11, <3>1, InnermostNow
  <2> QED
    BY <1>8, <2>2, <2>4, <2>6, <2>7
<1>12. ASSUME NEW q, ResolveValue(q) \/ reject(q) \/ CancelStarts(q) PROVE FALSE
  <2>1. \/ UNCHANGED m_promiseState
        \/ \E c : \E s \in Settled : m_promiseState' = [m_promiseState EXCEPT ![c] = s]
    BY <1>12, ZenonT(40) DEF ResolveValue, reject, CancelStarts, Settled
  <2> QED
    BY <1>3, <2>1
<1>13. ASSUME NEW q, \/ ResolveIgnored \/ (\E inner : ResolveSettled(q, inner) \/ ResolveAdopts(q, inner))
                     \/ NotifyThen(q) \/ NotifyFinally(q) \/ NotifyEnds(q)
                     \/ HookCalled(q) \/ CancelLinked(q) \/ CancelCallback(q) \/ CancelEnds(q)
                     \/ AllEnds(q) \/ AllFulfilled(q) \/ AllRejected(q) \/ AllRelease(q) \/ AllCancel(q)
       PROVE  FALSE
  <2>1. UNCHANGED m_promiseState
    BY <1>13 DEF ResolveIgnored, ResolveSettled, ResolveAdopts, NotifyThen, NotifyFinally, NotifyEnds,
       HookCalled, CancelLinked, CancelCallback, CancelEnds, AllEnds, AllFulfilled, AllRejected,
       AllRelease, AllCancel
  <2> QED
    BY <1>3, <2>1
<1>14. CASE ScriptStep
  BY <1>4, <1>5, <1>6, <1>7, <1>9, <1>10, <1>14 DEF ScriptStep
<1>15. CASE PromiseStep
  <2>1. stack # <<>>
    BY <1>15 DEF PromiseStep
  <2> QED
    BY <1>11, <1>12, <1>13, <1>15, <2>1 DEF PromiseStep
<1> QED
  BY <1>3, <1>14, <1>15, DefinedBefore DEF vars

(* What hangs on a promise becomes its consumer with the same step.        *)
LEMMA ConsumerStep ==
    ASSUME StateType, AllsInv, WalkInv, ListType, RefType, ConsumerInv, [Next]_vars, Intact'
    PROVE  ConsumerInv'
<1>1. StackOK(m_promiseState, stack) /\ ListsMoved
  BY DefinedBefore, ListMoves DEF WalkInv
<1> SUFFICES ASSUME NEW q \in Promises, m_promiseState'[q] \notin Settled
             PROVE  /\ \A j \in DOMAIN m_thenCallbacks'[q] :
                          \/ m_thenCallbacks'[q][j].kind = "await"
                          \/ m_thenCallbacks'[q][j].chained \in Consumers(q)'
                    /\ \A j \in DOMAIN m_finallyCallbacks'[q] :
                          m_finallyCallbacks'[q][j].chained \in Consumers(q)'
  BY DEF ConsumerInv
<1>2. m_promiseState[q] \notin Settled
  BY SettledPersists
<1>3. /\ \A j \in DOMAIN m_thenCallbacks[q] : \/ m_thenCallbacks[q][j].kind = "await"
                                              \/ m_thenCallbacks[q][j].chained \in Consumers(q)
      /\ \A j \in DOMAIN m_finallyCallbacks[q] : m_finallyCallbacks[q][j].chained \in Consumers(q)
  BY <1>2 DEF ConsumerInv
<1> DEFINE T == m_thenCallbacks[q]
           F == m_finallyCallbacks[q]
<1>4. \A x : /\ DOMAIN Append(T, x) = DOMAIN T \cup {Len(T) + 1}
             /\ DOMAIN Append(F, x) = DOMAIN F \cup {Len(F) + 1}
             /\ (\A j \in DOMAIN T : Append(T, x)[j] = T[j]) /\ Append(T, x)[Len(T) + 1] = x
             /\ (\A j \in DOMAIN F : Append(F, x)[j] = F[j]) /\ Append(F, x)[Len(F) + 1] = x
  BY AddToList DEF ListType
<1>5. CASE UNCHANGED <<lists, m_consumerRefs>>
  BY <1>3, <1>5 DEF lists, Consumers
<1>6. ASSUME NEW p \in Promises, NEW cb,
             m_thenCallbacks' = [m_thenCallbacks EXCEPT ![p] = Append(@, cb)],
             UNCHANGED m_finallyCallbacks,
             \/ cb.kind = "await" /\ UNCHANGED m_consumerRefs
             \/ m_consumerRefs' = [m_consumerRefs EXCEPT ![p] = Append(@, cb.chained)]
      PROVE  /\ \A j \in DOMAIN m_thenCallbacks'[q] :
                   \/ m_thenCallbacks'[q][j].kind = "await"
                   \/ m_thenCallbacks'[q][j].chained \in Consumers(q)'
             /\ \A j \in DOMAIN m_finallyCallbacks'[q] :
                   m_finallyCallbacks'[q][j].chained \in Consumers(q)'
  <2>1. Consumers(q) \subseteq Consumers(q)' /\ (p = q => cb.kind = "await" \/ cb.chained \in Consumers(q)')
    <3>1. CASE cb.kind = "await" /\ UNCHANGED m_consumerRefs
      BY <3>1 DEF Consumers
    <3>2. CASE m_consumerRefs' = [m_consumerRefs EXCEPT ![p] = Append(@, cb.chained)]
      <4>1. /\ Consumers(p)' = Consumers(p) \cup {cb.chained}
            /\ \A r \in Promises : r # p => Consumers(r)' = Consumers(r)
        BY <3>2, OneConsumer
      <4> QED
        BY <4>1
    <3> QED
      BY <1>6, <3>1, <3>2
  <2>2. m_thenCallbacks'[q] = IF p = q THEN Append(T, cb) ELSE T
    BY <1>6 DEF ListType
  <2>3. m_finallyCallbacks'[q] = F
    BY <1>6
  <2> HIDE DEF T, F
  <2> QED
    BY <1>3, <1>4, <2>1, <2>2, <2>3 DEF T, F
<1>7. ASSUME NEW p \in Promises, NEW cb,
             m_finallyCallbacks' = [m_finallyCallbacks EXCEPT ![p] = Append(@, cb)],
             UNCHANGED m_thenCallbacks,
             m_consumerRefs' = [m_consumerRefs EXCEPT ![p] = Append(@, cb.chained)]
      PROVE  /\ \A j \in DOMAIN m_thenCallbacks'[q] :
                   \/ m_thenCallbacks'[q][j].kind = "await"
                   \/ m_thenCallbacks'[q][j].chained \in Consumers(q)'
             /\ \A j \in DOMAIN m_finallyCallbacks'[q] :
                   m_finallyCallbacks'[q][j].chained \in Consumers(q)'
  <2>1. Consumers(q) \subseteq Consumers(q)' /\ (p = q => cb.chained \in Consumers(q)')
    <3>1. /\ Consumers(p)' = Consumers(p) \cup {cb.chained}
          /\ \A r \in Promises : r # p => Consumers(r)' = Consumers(r)
      BY <1>7, OneConsumer
    <3> QED
      BY <3>1
  <2>2. m_finallyCallbacks'[q] = IF p = q THEN Append(F, cb) ELSE F
    BY <1>7 DEF ListType
  <2>3. m_thenCallbacks'[q] = T
    BY <1>7
  <2> QED
    BY <1>3, <1>4, <2>1, <2>2, <2>3
<1>8. ASSUME NEW p \in Promises, stack # <<>>, Top.op \in Walking, Top.p = p, ClearCallbacks(p),
             UNCHANGED m_consumerRefs \/ m_consumerRefs' = [m_consumerRefs EXCEPT ![p] = <<>>]
      PROVE  /\ m_thenCallbacks'[q] = T /\ m_finallyCallbacks'[q] = F /\ Consumers(q)' = Consumers(q)
  <2>1. p # q
    BY <1>1, <1>2, <1>8, PopOne DEF Good, Top
  <2> QED
    BY <1>8, <2>1 DEF ClearCallbacks, Consumers, ListType, RefType
<1> QED
  BY <1>1, <1>3, <1>5, <1>6, <1>7, <1>8 DEF ListsMoved

(* What was chained too late stays so.                                     *)
LEMMA LateGrows ==
    ASSUME [Next]_vars
    PROVE  late \subseteq late'
<1>1. ASSUME NEW p, NEW v, \/ New(p) \/ Cancel(p) \/ OnCancel(p) \/ All(p) \/ lua_async(p) \/ lua_await(p)
                           \/ Settle(p, v) \/ Return(v) \/ Throw
      PROVE  UNCHANGED late
  BY <1>1 DEF New, Cancel, OnCancel, All, lua_async, lua_await, Settle, Return, Throw, ghosts
<1>2. ASSUME NEW p, NEW c, \/ (\E on : AndThen(p, c, on)) \/ (\E called : Finally(p, c, called))
                           \/ AllInput(p)
      PROVE  late \subseteq late'
  BY <1>2, ZenonT(40) DEF AndThen, Finally, AllInput, promise_wireLinks
<1>3. ASSUME NEW p, \/ ResolveIgnored \/ ResolveValue(p) \/ reject(p)
                    \/ (\E inner : ResolveSettled(p, inner) \/ ResolveAdopts(p, inner))
                    \/ NotifyThen(p) \/ NotifyFinally(p) \/ NotifyEnds(p)
      PROVE  UNCHANGED late
  BY <1>3 DEF ResolveIgnored, ResolveValue, reject, ResolveSettled, ResolveAdopts, NotifyThen,
     NotifyFinally, NotifyEnds, ghosts
<1>4. ASSUME NEW p, \/ CancelStarts(p) \/ HookCalled(p) \/ CancelLinked(p) \/ CancelCallback(p)
                    \/ CancelEnds(p) \/ AllEnds(p) \/ AllFulfilled(p) \/ AllRejected(p)
                    \/ AllRelease(p) \/ AllCancel(p)
      PROVE  UNCHANGED late
  BY <1>4 DEF CancelStarts, HookCalled, CancelLinked, CancelCallback, CancelEnds, AllEnds,
     AllFulfilled, AllRejected, AllRelease, AllCancel, ghosts
<1>5. CASE ScriptStep
  BY <1>1, <1>2, <1>5 DEF ScriptStep
<1>6. CASE PromiseStep
  BY <1>2, <1>3, <1>4, <1>6 DEF PromiseStep
<1> QED
  BY <1>5, <1>6 DEF Next, Rest, LoseList, vars, ghosts

PendingInv == Intact => ConsumerInv /\ AnswerInv

LEMMA PendingInit == Init => PendingInv
<1> SUFFICES ASSUME Init PROVE PendingInv
  OBVIOUS
<1>1. \A p \in Promises : /\ m_thenCallbacks[p] = <<>> /\ m_finallyCallbacks[p] = <<>>
                          /\ ~isPending(p)
  BY DEF Init, isPending
<1> QED
  BY <1>1, EmptySeq DEF PendingInv, ConsumerInv, AnswerInv

(* Every step keeps the answers coming.                                    *)
LEMMA PendingStep ==
    ASSUME StateType, AllsInv, WalkInv, ListInv, CancelInv, AllInv, PendingInv, [Next]_vars
    PROVE  PendingInv'
<1> SUFFICES ASSUME Intact'
             PROVE  ConsumerInv' /\ AnswerInv'
  BY DEF PendingInv
<1>1. /\ ListType /\ RefType /\ FramesInv /\ TableInv /\ CallbackInv
      /\ ConsumerInv /\ AnswerInv /\ Intact
  BY DefinedBefore DEF ListInv, CancelInv, AllInv, PendingInv
<1>2. ListType'
  BY ListStep DEF ListInv
<1>3. ConsumerInv'
  BY <1>1, ConsumerStep
<1>4. ASSUME NEW p \in Promises, isPending(p)', origin'[p] \in {"then", "async"}, p \notin late'
      PROVE  Coming(p)'
  <2>1. CASE isPending(p)
    <3>1. origin'[p] = origin[p]
      <4>1. StepKind
        BY <1>1, StepKinds
      <4>2. p \in Made
        BY <2>1 DEF isPending, Made
      <4> QED
        BY <1>1, <4>1, <4>2, MadeKeeps
    <3>2. Coming(p)
      BY <1>1, <1>4, <2>1, <3>1, LateGrows DEF AnswerInv
    <3>3. origin[p] # "all"
      BY <1>4, <3>1
    <3> QED
      BY <1>1, <1>2, <1>4, <2>1, <3>2, <3>3, ComingStill
  <2>2. CASE ~isPending(p)
    BY <1>1, <1>2, <1>4, <2>2, NewComes
  <2> QED
    BY <2>1, <2>2
<1>5. AnswerInv'
  BY <1>4 DEF AnswerInv
<1> QED
  BY <1>3, <1>5

(* When no call is under way, some input of a pending Promise.all has not  *)
(* been counted: the callback hung on it is there still, so it is pending. *)
LEMMA AllAwaits ==
    ASSUME StateType, AllsInv, ListType, FramesInv, TableInv, CountInv, SlotInv, stack = <<>>,
           NEW r \in Promises, origin[r] = "all", isPending(r), ~alls[r].bad,
           \A k \in Places(r) : ~isCancelled(Input(r, k))
    PROVE  \E q \in Promises : isPending(q) /\ Awaits(q, r)
<1>1. On(stack) = {}
  BY EmptySeq DEF On
<1>2. /\ ~(alls[r].done \/ Places(r) = {}) /\ alls[r].remaining \in Nat \ {0}
      /\ Cardinality(Counted(r)) + alls[r].remaining = Len(alls[r].inputs)
  BY <1>1 DEF CountInv, CountOK, Owing
<1>3. /\ Len(alls[r].inputs) \in Nat /\ Places(r) = 1..Len(alls[r].inputs)
      /\ Places(r) = DOMAIN alls[r].chained
      /\ \A k \in Places(r) : Input(r, k) \in Made /\ Link(r, k) \in Promises
  BY PlacesAreNumbers
<1>4. PICK k \in Places(r) : k \notin Counted(r)
  <2>1. CASE Counted(r) = Places(r)
    <3> DEFINE n == Len(alls[r].inputs)
    <3>1. Cardinality(Places(r)) = n
      <4>1. n \in Nat /\ Places(r) = 1..n
        BY <1>3
      <4> HIDE DEF n
      <4>2. Cardinality(1..n) = n
        BY <4>1, FS_Interval
      <4> QED
        BY <4>1, <4>2
    <3> QED
      BY <1>2, <1>3, <2>1, <3>1
  <2> QED
    BY <2>1 DEF Counted
<1> DEFINE q == Input(r, k)
           c == Link(r, k)
<1>5. calls[c] # 1
  BY <1>1, <1>4 DEF Counted, Ran
<1>6. c \in Made
  BY <1>1 DEF TableInv
<1>7. Waits(q, c)
  BY <1>5, <1>6 DEF SlotInv
<1>8. PICK j \in DOMAIN m_thenCallbacks[q] : m_thenCallbacks[q][j].chained = c
  BY <1>7 DEF Waits
<1>9. q \in Promises /\ isPending(q)
  <2>1. q \in Made
    BY <1>3
  <2>2. m_thenCallbacks[q] # <<>>
    BY <1>8, EmptySeq
  <2>3. m_promiseState[q] \notin Answered
    BY <1>1, <2>1, <2>2 DEF SlotInv, Made
  <2> QED
    BY <2>1, <2>3 DEF StateType, Made, Answered, isPending, isCancelled, Settled
<1>10. Awaits(q, r)
  <2>1. c = alls[r].chained[k] /\ k \in DOMAIN alls[r].chained
    BY <1>3 DEF Link
  <2> QED
    BY <1>8, <2>1 DEF Awaits
<1> QED
  BY <1>9, <1>10

(* No answer is lost: when no call is under way, a pending promise that    *)
(* came from andThen, catch, finally, async or Promise.all hangs on a      *)
(* pending promise, but for one chained from a promise that was cancelled  *)
(* already and for a Promise.all of one.                                   *)
THEOREM NoAnswerIsLost == Spec => []AnswerIsComing
<1> DEFINE IInv == /\ AllsInv /\ WalkInv /\ ListInv /\ OnceInv /\ WiredInv /\ AllInv
                   /\ CancelInv /\ PendingInv
<1>1. Init => IInv
  BY AllsInit, WalkInit, HandlerInit, AllInit, CancelInit, PendingInit
<1>2. StateType /\ IInv /\ [Next]_vars => IInv'
  BY AllsStep, WalkStep, ListStep, HandlerStep, WiredStep, AllStep, CancelStep, PendingStep
<1>3. StateType /\ IInv => AnswerIsComing
  <2> SUFFICES ASSUME StateType, IInv, stack = <<>>, Intact,
                      NEW p \in Promises, isPending(p), origin[p] # "new", p \notin late,
                      ~alls[p].bad,
                      \A k \in Places(p) : ~isCancelled(Input(p, k))
               PROVE  \E q \in Promises : isPending(q) /\ Awaits(q, p)
    BY RestIsIntact DEF AnswerIsComing, AtRest, Places, Input
  <2>1. ListType /\ FramesInv /\ TableInv /\ CountInv /\ SlotInv /\ AnswerInv
    BY DEF ListInv, AllInv, PendingInv
  <2>2. CASE origin[p] = "all"
    BY <2>1, <2>2, AllAwaits
  <2>3. CASE origin[p] # "all"
    <3>1. origin[p] \in {"then", "async"}
      BY <2>1, <2>3 DEF TableInv
    <3>2. Coming(p) /\ On(stack) = {}
      BY <2>1, <3>1, EmptySeq DEF AnswerInv, On
    <3>3. PICK q \in Promises : isPending(q) /\ HangsOn(q, p)
      BY <3>2 DEF Coming
    <3>4. Awaits(q, p)
      BY <3>3 DEF HangsOn, Awaits
    <3> QED
      BY <3>3, <3>4
  <2> QED
    BY <2>2, <2>3
<1> QED
  BY <1>1, <1>2, <1>3, StatesAreTyped, PTL DEF Spec
=============================================================================
