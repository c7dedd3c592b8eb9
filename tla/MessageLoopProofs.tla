------------------------- MODULE MessageLoopProofs -------------------------
(* Proofs that listeners stay bound to their handles and that every call   *)
(* has its mark, for any numbers of handles and listeners and any nesting  *)
(* of calls.                                                               *)
EXTENDS MessageLoop, FiniteSetTheorems, TLAPS

Registry ==
    /\ m_listeners \in [Handles -> Listeners \cup {None}]
    /\ m_handle \in [Listeners -> Handles \cup {None}]
    /\ state \in [Listeners -> {"fresh", "live", "gone"}]

(* Only handles that were given out are named by live listeners.           *)
Given == \A l \in Listeners : state[l] = "live" => m_handle[l] \in made

IInv == Registry /\ Given /\ ListenersAreBound /\ made \subseteq Handles

LEMMA InitOK == Init => IInv
  BY NoneAssumption DEF Init, IInv, Registry, Given, ListenersAreBound

(* Steps of the loop and the server leave the listeners alone.             *)
LEMMA QuietStep == IInv /\ UNCHANGED registry => IInv'
  BY DEF IInv, Registry, Given, ListenersAreBound, registry

LEMMA MakeStep ==
    ASSUME IInv, NEW h \in Handles, NEW l \in Listeners \cup {None}, MakeObject(h, l)
    PROVE  IInv'
<1>1. h \notin made /\ made' = made \cup {h} /\ misfiled' = misfiled
  BY DEF MakeObject
<1>2. CASE l = None
  BY <1>1, <1>2 DEF MakeObject, IInv, Registry, Given, ListenersAreBound
<1>3. CASE l # None
  <2>1. /\ l \in Listeners /\ state[l] = "fresh"
        /\ state' = [state EXCEPT ![l] = "live"]
        /\ m_handle' = [m_handle EXCEPT ![l] = h]
        /\ m_listeners' = [m_listeners EXCEPT ![h] = l]
    BY <1>3 DEF MakeObject
  <2>2. Registry' /\ Given'
    BY <1>1, <2>1 DEF IInv, Registry, Given
  <2>3. ListenersAreBound'
    BY <1>1, <2>1 DEF IInv, Registry, Given, ListenersAreBound
  <2> QED
    BY <1>1, <2>2, <2>3 DEF IInv
<1> QED
  BY <1>2, <1>3

LEMMA ReferenceStep ==
    ASSUME IInv, NEW h \in Handles, NEW root \in Handles, NEW l \in Listeners,
           ReferenceListItem(h, root, l)
    PROVE  IInv'
<1>1. /\ h \notin made /\ root \in made /\ state[l] = "fresh"
      /\ made' = made \cup {h} /\ misfiled' = misfiled \cup {h, root}
      /\ state' = [state EXCEPT ![l] = "live"]
      /\ m_handle' = [m_handle EXCEPT ![l] = root]
      /\ m_listeners' = [m_listeners EXCEPT ![h] = l]
  BY DEF ReferenceListItem
<1>2. Registry' /\ Given'
  BY <1>1 DEF IInv, Registry, Given
<1>3. ListenersAreBound'
  BY <1>1 DEF IInv, Registry, Given, ListenersAreBound
<1> QED
  BY <1>1, <1>2, <1>3 DEF IInv

(* A destroyed listener takes its own entry with it.                       *)
LEMMA DestroyStep ==
    ASSUME IInv, NEW l \in Listeners, Destroy(l)
    PROVE  IInv'
<1>1. /\ state[l] = "live" /\ state' = [state EXCEPT ![l] = "gone"]
      /\ m_listeners' = [m_listeners EXCEPT ![m_handle[l]] = None]
      /\ UNCHANGED <<m_handle, made, misfiled>>
  BY DEF Destroy
<1>2. Registry' /\ Given'
  BY <1>1 DEF IInv, Registry, Given
<1>3. ListenersAreBound'
  BY <1>1, NoneAssumption DEF IInv, Registry, Given, ListenersAreBound
<1> QED
  BY <1>1, <1>2, <1>3 DEF IInv

(* A moved listener's entry is its successor's.                            *)
LEMMA MoveStep ==
    ASSUME IInv, NEW l \in Listeners, NEW n \in Listeners, Move(l, n)
    PROVE  IInv'
<1>1. /\ state[l] = "live" /\ state[n] = "fresh"
      /\ state' = [state EXCEPT ![l] = "gone", ![n] = "live"]
      /\ m_handle' = [m_handle EXCEPT ![n] = m_handle[l]]
      /\ m_listeners' = [m_listeners EXCEPT ![m_handle[l]] = n]
      /\ UNCHANGED <<made, misfiled>>
  BY DEF Move
<1>2. l # n
  BY <1>1
<1>3. Registry' /\ Given'
  BY <1>1, <1>2 DEF IInv, Registry, Given
<1>4. ListenersAreBound'
  BY <1>1, <1>2 DEF IInv, Registry, Given, ListenersAreBound
<1> QED
  BY <1>1, <1>3, <1>4 DEF IInv

LEMMA StepOK == IInv /\ [Next]_vars => IInv'
<1> SUFFICES ASSUME IInv, [Next]_vars PROVE IInv'
  OBVIOUS
<1>1. CASE ProcessMessages \/ LoopStep \/ \E h \in Handles : Write(h)
  BY <1>1, QuietStep DEF ProcessMessages, LoopStep, Deliver, Return, CallbackReturns, Write
<1>2. CASE UNCHANGED vars
  BY <1>2, QuietStep DEF vars
<1> QED
  BY <1>1, <1>2, MakeStep, ReferenceStep, DestroyStep, MoveStep DEF Next, ClientStep

(* processMessages never calls a destroyed listener and never passes over  *)
(* a live one, but for what referenceListViewModelInstance has misfiled.   *)
THEOREM ListenersStayBound == Spec => []ListenersAreBound
<1>1. IInv => ListenersAreBound
  BY DEF IInv
<1> QED
  BY <1>1, InitOK, StepOK, PTL DEF Spec

-----------------------------------------------------------------------------
(* Calls and marks.                                                        *)

Messages == Handles \cup {Break}
Points == [pc : {"loop", "global", "own"}, handle : Handles \cup {None}]

CallInv ==
    /\ m_messageStream \in Seq(Messages) /\ frames \in Seq(Points)
    /\ made \subseteq Handles
    /\ MarksMatchCalls

LEMMA MarksAreFinite ==
    ASSUME NEW s \in Seq(Messages)
    PROVE  IsFiniteSet(Marks(s)) /\ Cardinality(Marks(s)) \in Nat
<1>1. IsFiniteSet(1..Len(s)) /\ DOMAIN s = 1..Len(s)
  BY FS_Interval
<1>2. IsFiniteSet(Marks(s))
  BY <1>1, FS_Subset DEF Marks
<1> QED
  BY <1>2, FS_CardinalityType

(* A message at the end adds a mark if it is one.                          *)
LEMMA AppendMarks ==
    ASSUME NEW s \in Seq(Messages), NEW m \in Messages
    PROVE  /\ Append(s, m) \in Seq(Messages)
           /\ Cardinality(Marks(Append(s, m))) =
                 IF m = Break THEN Cardinality(Marks(s)) + 1 ELSE Cardinality(Marks(s))
<1> DEFINE r == Append(s, m)  n == Len(s) + 1
<1>1. /\ DOMAIN s = 1..Len(s) /\ DOMAIN r = 1..n /\ Len(s) \in Nat
      /\ \A i \in 1..Len(s) : r[i] = s[i]
      /\ r[n] = m /\ r \in Seq(Messages)
  OBVIOUS
<1>2. n \notin Marks(s)
  BY <1>1 DEF Marks
<1> HIDE DEF r, n
<1>3. \A i : i \in DOMAIN r <=> i \in DOMAIN s \/ i = n
  BY <1>1 DEF n
<1>4. Marks(r) = IF m = Break THEN Marks(s) \cup {n} ELSE Marks(s)
  BY <1>1, <1>3 DEF Marks
<1>5. Cardinality(Marks(s) \cup {n}) = Cardinality(Marks(s)) + 1
  BY <1>2, MarksAreFinite, FS_AddElement
<1> QED
  BY <1>1, <1>4, <1>5 DEF r

(* Taking the first message takes a mark if it is one; the others move up. *)
LEMMA TailMarks ==
    ASSUME NEW s \in Seq(Messages), s # <<>>
    PROVE  /\ Tail(s) \in Seq(Messages) /\ Head(s) \in Messages
           /\ Cardinality(Marks(Tail(s))) =
                 IF Head(s) = Break THEN Cardinality(Marks(s)) - 1 ELSE Cardinality(Marks(s))
<1> DEFINE r == Tail(s)
<1>1. /\ DOMAIN s = 1..Len(s) /\ DOMAIN r = 1..(Len(s) - 1) /\ Len(s) \in Nat \ {0}
      /\ \A i \in 1..(Len(s) - 1) : r[i] = s[i + 1]
      /\ r \in Seq(Messages) /\ Head(s) = s[1] /\ Head(s) \in Messages
  OBVIOUS
<1> HIDE DEF r
<1>2. \A i \in Marks(r) : i + 1 \in Marks(s) \ {1} /\ i \in Int
  BY <1>1 DEF Marks
<1>3. \A j \in Marks(s) \ {1} : j - 1 \in Marks(r) /\ j \in Int
  BY <1>1 DEF Marks
<1>4. Cardinality(Marks(r)) = Cardinality(Marks(s) \ {1})
  <2> DEFINE up == [i \in Marks(r) |-> i + 1]
  <2>1. up \in [Marks(r) -> Marks(s) \ {1}]
    BY <1>2
  <2>2. \A a, b \in Marks(r) : up[a] = up[b] => a = b
    BY <1>2
  <2>3. \A j \in Marks(s) \ {1} : \E i \in Marks(r) : up[i] = j
    BY <1>3
  <2> HIDE DEF up
  <2>4. up \in Bijection(Marks(r), Marks(s) \ {1})
    <3>1. IsInjective(up)
      BY <2>1, <2>2 DEF IsInjective
    <3> QED
      BY <2>1, <2>3, <3>1 DEF Bijection, Injection, Surjection
  <2>5. ExistsBijection(Marks(r), Marks(s) \ {1})
    BY <2>4 DEF ExistsBijection
  <2> QED
    BY <1>1, <2>5, MarksAreFinite, FS_Bijection
<1>5. 1 \in Marks(s) <=> Head(s) = Break
  BY <1>1 DEF Marks
<1>6. Cardinality(Marks(s) \ {1}) =
          IF 1 \in Marks(s) THEN Cardinality(Marks(s)) - 1 ELSE Cardinality(Marks(s))
  BY MarksAreFinite, FS_RemoveElement
<1> QED
  BY <1>1, <1>4, <1>5, <1>6 DEF r

(* The innermost call goes on, or returns.                                 *)
LEMMA FramesKept ==
    ASSUME NEW f \in Seq(Points), f # <<>>, NEW p \in Points
    PROVE  /\ Append(Front(f), p) \in Seq(Points) /\ Len(Append(Front(f), p)) = Len(f)
           /\ Front(f) \in Seq(Points) /\ Len(Front(f)) = Len(f) - 1
           /\ Last(f) \in Points
<1>1. Len(f) \in Nat \ {0}
  OBVIOUS
<1>2. Front(f) \in Seq(Points) /\ Len(Front(f)) = Len(f) - 1
  <2>1. Len(f) - 1 \in Nat /\ \A i \in 1..(Len(f) - 1) : f[i] \in Points
    BY <1>1
  <2>2. /\ Front(f) = [i \in 1..(Len(f) - 1) |-> f[i]]
    BY <1>1, <2>1 DEF Front
  <2> QED
    BY <2>1, <2>2
<1>3. Last(f) \in Points
  BY <1>1 DEF Last
<1> QED
  BY <1>1, <1>2, <1>3

LEMMA NoMarks == Marks(<<>>) = {} /\ Cardinality(Marks(<<>>)) = 0
BY FS_EmptySet DEF Marks

LEMMA CallStep == CallInv /\ [Next]_vars => CallInv'
<1> SUFFICES ASSUME CallInv, [Next]_vars PROVE CallInv'
  OBVIOUS
<1>0. AtLoop \in Points /\ \A h \in Handles : AfterGlobal(h) \in Points
  BY DEF AtLoop, AfterGlobal, Points
<1>1. CASE ProcessMessages
  <2>1. frames' \in Seq(Points) /\ Len(frames') = Len(frames) + 1
    BY <1>0, <1>1 DEF ProcessMessages, CallInv
  <2>2. m_messageStream' = Append(m_messageStream, Break) /\ made' = made
    BY <1>1 DEF ProcessMessages, registry
  <2> QED
    BY <2>1, <2>2, AppendMarks DEF CallInv, MarksMatchCalls, Messages
<1>2. CASE Deliver
  <2>1. /\ m_messageStream # <<>> /\ Head(m_messageStream) # Break
        /\ m_messageStream' = Tail(m_messageStream) /\ made' = made /\ frames # <<>>
    BY <1>2 DEF Deliver, registry, Looping
  <2>2. PICK h \in Handles : h = Head(m_messageStream)
    BY <2>1, TailMarks DEF CallInv, Messages
  <2>3. PICK p \in Points : frames' = Append(Front(frames), p)
    <3>1. [pc |-> "global", handle |-> h] \in Points
      BY DEF Points
    <3> QED
      BY <1>0, <1>2, <2>2, <3>1 DEF Deliver, Goto
  <2>4. frames' \in Seq(Points) /\ Len(frames') = Len(frames)
    BY <2>1, <2>3, FramesKept DEF CallInv
  <2> QED
    BY <2>1, <2>4, TailMarks DEF CallInv, MarksMatchCalls
<1>3. CASE Return
  <2>1. frames # <<>> /\ frames' = Front(frames) /\ made' = made
    BY <1>3 DEF Return, registry, Looping
  <2>2. frames' \in Seq(Points) /\ Len(frames') = Len(frames) - 1
    BY <1>0, <2>1, FramesKept DEF CallInv
  <2>3. Len(frames) \in Nat \ {0}
    BY <2>1 DEF CallInv
  <2>4. m_messageStream # <<>>
    BY <2>3, NoMarks DEF CallInv, MarksMatchCalls
  <2>5. Head(m_messageStream) = Break /\ m_messageStream' = Tail(m_messageStream)
    BY <1>3, <2>4 DEF Return, AtEnd
  <2> QED
    BY <2>1, <2>2, <2>4, <2>5, TailMarks DEF CallInv, MarksMatchCalls
<1>4. CASE CallbackReturns
  <2>1. /\ frames # <<>> /\ ~Looping /\ UNCHANGED <<m_messageStream, made>>
        /\ frames' = Append(Front(frames), IF Last(frames).pc = "global"
                                           THEN AfterGlobal(Last(frames).handle) ELSE AtLoop)
    BY <1>4 DEF CallbackReturns, Goto, registry
  <2>2. PICK p \in Points : frames' = Append(Front(frames), p)
    <3>1. Last(frames).handle \in Handles \cup {None}
      BY <1>0, <2>1, FramesKept DEF CallInv, Points
    <3>2. [pc |-> "own", handle |-> Last(frames).handle] \in Points
      BY <3>1 DEF Points
    <3> QED
      BY <1>0, <2>1, <3>2 DEF AfterGlobal
  <2>3. frames' \in Seq(Points) /\ Len(frames') = Len(frames)
    BY <2>1, <2>2, FramesKept DEF CallInv
  <2> QED
    BY <2>1, <2>3 DEF CallInv, MarksMatchCalls
<1>5. ASSUME NEW h \in Handles, Write(h) PROVE CallInv'
  <2>1. m_messageStream' = Append(m_messageStream, h) /\ UNCHANGED <<made, frames>>
    BY <1>5 DEF Write, registry
  <2>2. h # Break /\ h \in Messages
    BY NoneAssumption DEF Messages
  <2> QED
    BY <2>1, <2>2, AppendMarks DEF CallInv, MarksMatchCalls
<1>6. CASE \/ \E h \in Handles, l \in Listeners \cup {None} : MakeObject(h, l)
           \/ \E h, root \in Handles, l \in Listeners : ReferenceListItem(h, root, l)
           \/ \E l \in Listeners : Destroy(l) \/ \E n \in Listeners : Move(l, n)
           \/ UNCHANGED vars
  <2>1. UNCHANGED <<m_messageStream, frames>>
    BY <1>6 DEF MakeObject, ReferenceListItem, Destroy, Move, vars
  <2>2. made' \subseteq Handles
    BY <1>6 DEF MakeObject, ReferenceListItem, Destroy, Move, vars, registry, CallInv
  <2> QED
    BY <2>1, <2>2 DEF CallInv, MarksMatchCalls
<1> QED
  BY <1>1, <1>2, <1>3, <1>4, <1>5, <1>6 DEF Next, ClientStep, LoopStep

(* A call of processMessages ends at a mark, its own or that of a call     *)
(* inside it: there is one for each running call, so none runs out of the  *)
(* stream, and none is left to cut a later call short.                     *)
THEOREM CallsHaveMarks == Spec => []MarksMatchCalls
<1>1. Init => CallInv
  BY NoMarks DEF Init, CallInv, MarksMatchCalls
<1>2. CallInv => MarksMatchCalls
  BY DEF CallInv
<1> QED
  BY <1>1, <1>2, CallStep, PTL DEF Spec
=============================================================================
