---------------------------- MODULE MessageLoop ----------------------------
(* The client's half of a CommandQueue: processMessages and the listeners  *)
(* that it calls (command_queue.cpp, command_queue.hpp).                   *)
(*                                                                         *)
(* The message mutex is released around every callback, and a listener may *)
(* do what any client does: make objects with listeners, destroy or move   *)
(* listeners, itself included, and call processMessages again.  The server *)
(* keeps writing.  The seven maps of listeners work alike and are one here;*)
(* a message is the handle it is addressed to.                             *)
EXTENDS Integers, Sequences, FiniteSets, SequencesExt

CONSTANTS
    Handles, Listeners, None,
    Break,          \* Message::messageLoopBreak
    MaxMessages,    \* model bound: messages that wait in the stream
    MaxReentries    \* model bound: calls of processMessages from callbacks

ASSUME NoneAssumption == None \notin Listeners \cup Handles /\ Break \notin Handles
ASSUME BoundAssumption == MaxMessages \in Nat /\ MaxReentries \in Nat

VARIABLES
    m_messageStream,
    m_listeners,      \* handle -> its listener, None if absent
    m_handle,         \* listener -> the handle that it unregisters
    state,            \* listener -> "fresh", "live" (it owns a reference to the queue) or "gone"
    frames,           \* the running calls of processMessages, the innermost last
    m_global,         \* a global listener is set
    made,             \* the handles given out
    reentries,
    misfiled          \* history: handles whose listener has another's m_handle, and those others

registry == <<m_listeners, m_handle, state, made, misfiled>>
vars == <<m_messageStream, registry, frames, m_global, reentries>>

Init ==
    /\ m_messageStream = <<>> /\ frames = <<>> /\ reentries = 0
    /\ m_listeners = [h \in Handles |-> None]
    /\ m_handle = [l \in Listeners |-> None]
    /\ state = [l \in Listeners |-> "fresh"]
    /\ made = {} /\ misfiled = {} /\ m_global \in BOOLEAN

(* The client runs its own code: outside of processMessages or in a        *)
(* callback.                                                               *)
Looping == IF frames = <<>> THEN FALSE ELSE Last(frames).pc = "loop"
InClient == ~Looping

(* The innermost call goes to a control point.                             *)
Goto(point) == frames' = Append(Front(frames), point)
AtLoop == [pc |-> "loop", handle |-> None]

-----------------------------------------------------------------------------
(* Listeners.                                                              *)

(* loadFile, instantiateArtboard and the other calls that make an object:  *)
(* registerListener, with the listener's m_handle set to the new handle.   *)
MakeObject(h, l) ==
    /\ InClient /\ h \notin made
    /\ made' = made \cup {h}
    /\ IF l = None THEN UNCHANGED <<m_listeners, m_handle, state>>
       ELSE /\ state[l] = "fresh"
            /\ state' = [state EXCEPT ![l] = "live"]
            /\ m_handle' = [m_handle EXCEPT ![l] = h]
            /\ m_listeners' = [m_listeners EXCEPT ![h] = l]
    /\ UNCHANGED <<m_messageStream, frames, m_global, reentries, misfiled>>

(* referenceListViewModelInstance: the listener is registered for the new  *)
(* handle and given the root's as its own.                                 *)
ReferenceListItem(h, root, l) ==
    /\ InClient /\ h \notin made /\ root \in made /\ state[l] = "fresh"
    /\ made' = made \cup {h}
    /\ state' = [state EXCEPT ![l] = "live"]
    /\ m_handle' = [m_handle EXCEPT ![l] = root]
    /\ m_listeners' = [m_listeners EXCEPT ![h] = l]
    /\ misfiled' = misfiled \cup {h, root}
    /\ UNCHANGED <<m_messageStream, frames, m_global, reentries>>

(* MUTANT: the destructor leaves the entry behind.                         *)
DestroyRegistered(l) ==
    /\ InClient /\ state[l] = "live"
    /\ state' = [state EXCEPT ![l] = "gone"]
    /\ UNCHANGED <<m_listeners, m_messageStream, m_handle, frames, m_global, reentries, made, misfiled>>

(* ~ListenerBase                                                           *)
Destroy(l) ==
    /\ InClient /\ state[l] = "live"
    /\ state' = [state EXCEPT ![l] = "gone"]
    /\ m_listeners' = [m_listeners EXCEPT ![m_handle[l]] = None]
    /\ UNCHANGED <<m_messageStream, m_handle, frames, m_global, reentries, made, misfiled>>

(* ListenerBase(ListenerBase&&): n takes l's place, and l its queue.       *)
Move(l, n) ==
    /\ InClient /\ state[l] = "live" /\ state[n] = "fresh"
    /\ state' = [state EXCEPT ![l] = "gone", ![n] = "live"]
    /\ m_handle' = [m_handle EXCEPT ![n] = m_handle[l]]
    /\ m_listeners' = [m_listeners EXCEPT ![m_handle[l]] = n]
    /\ UNCHANGED <<m_messageStream, frames, m_global, reentries, made, misfiled>>

-----------------------------------------------------------------------------
(* processMessages.                                                        *)

(* Called from outside, or again from a callback.                          *)
MayCall == InClient /\ (frames # <<>> => reentries < MaxReentries)
Count == reentries' = IF frames = <<>> THEN reentries ELSE reentries + 1

(* MUTANT: the end of this call is not marked.                             *)
ProcessUnmarked ==
    /\ MayCall /\ m_messageStream # <<>> /\ Count
    /\ frames' = Append(frames, AtLoop)
    /\ UNCHANGED <<m_messageStream, registry, m_global>>

(* MUTANT: the mark is written before the test for an empty stream.        *)
ProcessMarksFirst ==
    /\ MayCall /\ Count
    /\ m_messageStream' = Append(m_messageStream, Break)
    /\ frames' = IF m_messageStream = <<>> THEN frames ELSE Append(frames, AtLoop)
    /\ UNCHANGED <<registry, m_global>>

(* The call marks where it ends.  With an empty stream it just returns.    *)
ProcessMessages ==
    /\ MayCall /\ m_messageStream # <<>> /\ Count
    /\ m_messageStream' = Append(m_messageStream, Break)
    /\ frames' = Append(frames, AtLoop)
    /\ UNCHANGED <<registry, m_global>>

(* The listener's own callback, if it has one and is found.                *)
AfterGlobal(h) == IF m_listeners[h] = None THEN AtLoop ELSE [pc |-> "own", handle |-> h]

Deliver ==
    LET h == Head(m_messageStream) IN
    /\ Looping /\ m_messageStream # <<>> /\ h # Break
    /\ m_messageStream' = Tail(m_messageStream)
    /\ Goto(IF m_global THEN [pc |-> "global", handle |-> h] ELSE AfterGlobal(h))
    /\ UNCHANGED <<registry, m_global, reentries>>

(* do ... while: the stream has run out, or the next message is a mark.    *)
AtEnd == IF m_messageStream = <<>> THEN TRUE ELSE Head(m_messageStream) = Break

(* The innermost call returns at the first mark, be it its own or not.     *)
Return ==
    /\ Looping /\ AtEnd
    /\ m_messageStream' = IF m_messageStream = <<>> THEN <<>> ELSE Tail(m_messageStream)
    /\ frames' = Front(frames)
    /\ UNCHANGED <<registry, m_global, reentries>>

(* A callback returns: from the global listener to the handle's own, which *)
(* is looked up only now, and from that to the loop.                       *)
CallbackReturns ==
    /\ frames # <<>> /\ ~Looping
    /\ Goto(IF Last(frames).pc = "global" THEN AfterGlobal(Last(frames).handle) ELSE AtLoop)
    /\ UNCHANGED <<m_messageStream, registry, m_global, reentries>>

(* The server writes a message while the mutex is free.                    *)
Write(h) ==
    /\ h \in made
    /\ Len(SelectSeq(m_messageStream, LAMBDA m : m # Break)) < MaxMessages
    /\ m_messageStream' = Append(m_messageStream, h)
    /\ UNCHANGED <<registry, frames, m_global, reentries>>

ClientStep ==
    \/ \E h \in Handles, l \in Listeners \cup {None} : MakeObject(h, l)
    \/ \E h, root \in Handles, l \in Listeners : ReferenceListItem(h, root, l)
    \/ \E l \in Listeners : Destroy(l) \/ \E n \in Listeners : Move(l, n)
    \/ ProcessMessages

LoopStep == Deliver \/ Return \/ CallbackReturns
Next == ClientStep \/ LoopStep \/ \E h \in Handles : Write(h)

(* A call of processMessages runs on, and every callback returns.          *)
Spec == Init /\ [][Next]_vars /\ WF_vars(LoopStep)

-----------------------------------------------------------------------------
(* Properties.                                                             *)

(* A callback never reaches a destroyed listener, and a live listener is   *)
(* never passed over, whatever callbacks destroy, move or register: its    *)
(* entry is there exactly while it lives.  The handles that the calls of   *)
(* referenceListViewModelInstance touch are excepted: its listener erases  *)
(* the root's entry and leaves its own behind (command_queue.cpp:326).     *)
ListenersAreBound ==
    \A h \in Handles \ misfiled, l \in Listeners :
        m_listeners[h] = l <=> state[l] = "live" /\ m_handle[l] = h

(* Every running call has its mark, and no mark is left to cut a later     *)
(* call short, though nested calls end at each other's marks.              *)
Marks(stream) == {i \in DOMAIN stream : stream[i] = Break}
MarksMatchCalls == Cardinality(Marks(m_messageStream)) = Len(frames)

(* What the comment at messageLoopBreak says: processMessages returns,     *)
(* even if the server never stops writing; a client that calls it again    *)
(* from every callback is not promised that, hence MaxReentries.           *)
ProcessReturns == frames # <<>> ~> frames = <<>>
=============================================================================
