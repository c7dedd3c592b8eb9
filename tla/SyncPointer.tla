---------------------------- MODULE SyncPointer ----------------------------
(* Pointer events that another thread delivers directly to a machine of    *)
(* the CommandServer (pointerDownSynchronized, MoveSynchronized,           *)
(* UpSynchronized of command_server.cpp), while the server thread advances *)
(* and deletes machines and artboards.                                     *)
(*                                                                         *)
(* m_stateMachineAccessMutex is for the map, the m_mutex of a machine's    *)
(* wrapper for its instance, and a counted reference keeps a wrapper that  *)
(* has left the map.  The destructor of a wrapper takes its m_mutex once   *)
(* more, to dispose of the instance, and deleteStateMachine may run it     *)
(* with the access mutex held.                                             *)
(*                                                                         *)
(* cleanupArtboard changes the map without the access mutex.  A look-up    *)
(* that it overlaps may find its machine or not, also one whose wrapper is *)
(* being destroyed; the thread then goes on with what it found (raced).    *)
EXTENDS Integers, FiniteSets

CONSTANTS Machines, Artboards, ArtboardOf,
          Threads,      \* the threads that deliver events
          Server, None

ASSUME MachineAssumption == ArtboardOf \in [Machines -> Artboards]
ASSUME ThreadAssumption ==
    /\ Server \notin Threads /\ None \notin Machines \cup Artboards \cup Threads \cup {Server}
    /\ IsFiniteSet(Threads)

VARIABLES
    m_stateMachines,     \* the machines in the map
    m_artboards,         \* the artboards not yet deleted
    accessMutex,         \* the thread that holds m_stateMachineAccessMutex, or None
    m_mutex,             \* machine -> the thread that holds its wrapper's mutex, or None
    refs,                \* machine -> the wrapper's reference count
    pc, machine,         \* each thread's control point and its `stateMachine`
    cleaning,            \* the artboard that cleanupArtboard is deleting, or None
    made,                \* the machines that have been instantiated
    raced                \* the threads whose look-up an unlocked erase overlapped

tables == <<m_stateMachines, m_artboards, made, cleaning>>
vars == <<tables, accessMutex, m_mutex, refs, pc, machine, raced>>

Everyone == Threads \cup {Server}

Init ==
    /\ m_stateMachines = {} /\ m_artboards = Artboards /\ made = {}
    /\ accessMutex = None /\ m_mutex = [s \in Machines |-> None]
    /\ refs = [s \in Machines |-> 0]
    /\ pc = [t \in Everyone |-> "idle"] /\ machine = [t \in Everyone |-> None]
    /\ cleaning = None /\ raced = {}

Goto(t, point) == pc' = [pc EXCEPT ![t] = point]
Leave(t) == Goto(t, "idle") /\ machine' = [machine EXCEPT ![t] = None]

(* MUTANT: the raw pointer is used, as getStateMachineInstance gives it.   *)
RefNothing(s) == refs' = refs

(* An rcp of a wrapper is copied.                                          *)
Ref(s) == refs' = [refs EXCEPT ![s] = @ + 1]

(* An rcp of s is dropped by t: the last holder runs the destructor.       *)
Unref(t, s) ==
    /\ refs' = [refs EXCEPT ![s] = @ - 1]
    /\ IF refs[s] = 1
       THEN Goto(t, "destroying") /\ machine' = [machine EXCEPT ![t] = s]
       ELSE Leave(t)

-----------------------------------------------------------------------------
(* A thread with an event for a machine.                                   *)

StartLookup(t, s) ==
    /\ pc[t] = "idle"
    /\ machine' = [machine EXCEPT ![t] = s]
    /\ raced' = raced \ {t}
    /\ Goto(t, "waiting")
    /\ UNCHANGED <<tables, accessMutex, m_mutex, refs>>

(* The access mutex is taken, perhaps in the middle of an unlocked erase.  *)
Acquire(t) ==
    /\ pc[t] = "waiting" /\ accessMutex = None
    /\ accessMutex' = t
    /\ raced' = IF cleaning # None /\ pc[Server] # "idle" THEN raced \cup {t} ELSE raced
    /\ Goto(t, "finding")
    /\ UNCHANGED <<tables, m_mutex, refs, machine>>

Found(t) ==
    LET s == machine[t] IN
    /\ s \in m_stateMachines \/ (t \in raced /\ s \in made)
    /\ Ref(s) /\ Goto(t, "position")
    /\ UNCHANGED machine
NotFound(t) ==
    /\ machine[t] \notin m_stateMachines \/ t \in raced
    /\ Leave(t)
    /\ UNCHANGED refs

Lookup(t) ==
    /\ pc[t] = "finding"
    /\ Found(t) \/ NotFound(t)
    /\ accessMutex' = None
    /\ UNCHANGED <<tables, m_mutex, raced>>

-----------------------------------------------------------------------------
(* Whoever has a wrapper: a thread with an event, or the server.           *)

(* cursorPosForPointerEvent reads the artboard's bounds, without m_mutex.  *)
Position(t) ==
    /\ pc[t] = "position"
    /\ Goto(t, "locking")
    /\ UNCHANGED <<tables, accessMutex, m_mutex, refs, machine, raced>>

(* MUTANT: a machine in use is tried again later, instead of waited for.   *)
LockOrRetry(t) ==
    /\ pc[t] = "locking"
    /\ IF m_mutex[machine[t]] = None
       THEN Goto(t, "inside") /\ m_mutex' = [m_mutex EXCEPT ![machine[t]] = t]
       ELSE Goto(t, "position") /\ UNCHANGED m_mutex
    /\ UNCHANGED <<tables, accessMutex, refs, machine, raced>>

Lock(t) ==
    /\ pc[t] = "locking" /\ m_mutex[machine[t]] = None
    /\ m_mutex' = [m_mutex EXCEPT ![machine[t]] = t]
    /\ Goto(t, "inside")
    /\ UNCHANGED <<tables, accessMutex, refs, machine, raced>>

(* MUTANT: the reference is declared inside of the guard, and goes first.  *)
UnlockLast(t) ==
    /\ pc[t] = "inside"
    /\ Goto(t, "dropping")
    /\ UNCHANGED <<tables, accessMutex, m_mutex, refs, machine, raced>>

(* The event has been delivered, or the machine advanced or bound: first   *)
(* the guard goes, ...                                                     *)
Unlock(t) ==
    /\ pc[t] = "inside"
    /\ m_mutex' = [m_mutex EXCEPT ![machine[t]] = None]
    /\ Goto(t, "dropping")
    /\ UNCHANGED <<tables, accessMutex, refs, machine, raced>>

(* ... then the reference.                                                 *)
Drop(t) ==
    /\ pc[t] = "dropping"
    /\ Unref(t, machine[t])
    /\ UNCHANGED <<tables, accessMutex, m_mutex, raced>>

(* ~SynchronizedStateMachine locks m_mutex and calls dispose().            *)
Destroy(t) ==
    /\ pc[t] = "destroying" /\ m_mutex[machine[t]] = None
    /\ m_mutex' = [m_mutex EXCEPT ![machine[t]] = t]
    /\ Goto(t, "disposing")
    /\ UNCHANGED <<tables, accessMutex, refs, machine, raced>>

(* The destructor ends, and with it deleteStateMachine's access lock.      *)
Disposed(t) ==
    /\ pc[t] = "disposing"
    /\ m_mutex' = [m_mutex EXCEPT ![machine[t]] = None]
    /\ accessMutex' = IF accessMutex = t THEN None ELSE accessMutex
    /\ Leave(t)
    /\ UNCHANGED <<tables, refs, raced>>

Use(t) == Position(t) \/ Lock(t) \/ Unlock(t) \/ Drop(t) \/ Destroy(t) \/ Disposed(t)

-----------------------------------------------------------------------------
(* The server thread.                                                      *)

Ready == pc[Server] = "idle" /\ cleaning = None

InstantiateStateMachine(s) ==
    /\ Ready /\ s \notin made /\ ArtboardOf[s] \in m_artboards /\ accessMutex = None
    /\ m_stateMachines' = m_stateMachines \cup {s}
    /\ made' = made \cup {s}
    /\ refs' = [refs EXCEPT ![s] = 1]
    /\ UNCHANGED <<m_artboards, cleaning, accessMutex, m_mutex, pc, machine, raced>>

(* A command for a machine: a pointer command computes a position first,   *)
(* advanceStateMachine and bindViewModelInstance lock at once, and the     *)
(* latter only drops its reference if it does not find the view model.     *)
(* The server is the map's only writer and reads it without the mutex.     *)
GetWrapper(s) ==
    /\ Ready /\ s \in m_stateMachines
    /\ Ref(s)
    /\ machine' = [machine EXCEPT ![Server] = s]
    /\ \E point \in {"position", "locking", "dropping"} : Goto(Server, point)
    /\ UNCHANGED <<tables, accessMutex, m_mutex, raced>>

(* The access mutex is held until the destructor, if it runs, has ended.   *)
DeleteStateMachine(s) ==
    /\ Ready /\ s \in m_stateMachines /\ accessMutex = None
    /\ m_stateMachines' = m_stateMachines \ {s}
    /\ Unref(Server, s)
    /\ accessMutex' = IF refs[s] = 1 THEN Server ELSE None
    /\ UNCHANGED <<m_artboards, made, cleaning, m_mutex, raced>>

(* cleanupArtboard: the artboard's machines, one by one, ...               *)
StartCleanup(a) ==
    /\ Ready /\ a \in m_artboards
    /\ cleaning' = a
    /\ UNCHANGED <<m_stateMachines, m_artboards, made, accessMutex, m_mutex, refs, pc, machine, raced>>

CleanupMachine(s) ==
    /\ cleaning # None /\ pc[Server] = "idle"
    /\ s \in m_stateMachines /\ ArtboardOf[s] = cleaning
    /\ m_stateMachines' = m_stateMachines \ {s}
    /\ Unref(Server, s)
    /\ raced' = raced \cup {t \in Threads : pc[t] = "finding"}
    /\ UNCHANGED <<m_artboards, made, cleaning, accessMutex, m_mutex>>

(* ... then the artboard itself.                                           *)
CleanupArtboard ==
    /\ cleaning # None /\ pc[Server] = "idle"
    /\ \A s \in m_stateMachines : ArtboardOf[s] # cleaning
    /\ m_artboards' = m_artboards \ {cleaning}
    /\ cleaning' = None
    /\ UNCHANGED <<m_stateMachines, made, accessMutex, m_mutex, refs, pc, machine, raced>>

ServerStep ==
    \/ \E s \in Machines :
          \/ InstantiateStateMachine(s) \/ GetWrapper(s)
          \/ DeleteStateMachine(s) \/ CleanupMachine(s)
    \/ \E a \in Artboards : StartCleanup(a)
    \/ CleanupArtboard

Event(t) == Acquire(t) \/ Lookup(t) \/ Use(t)

Next ==
    \/ \E t \in Threads : Event(t) \/ \E s \in Machines : StartLookup(t, s)
    \/ Use(Server) \/ ServerStep

Spec == Init /\ [][Next]_vars

(* Each thread goes on with what it has begun, and no mutex that is        *)
(* released again and again is kept from one of them for ever.  The server *)
(* need not begin anything.                                                *)
FairSpec == Spec /\ SF_vars(Use(Server)) /\ \A t \in Threads : SF_vars(Event(t))

-----------------------------------------------------------------------------
(* Properties.                                                             *)

Using(t) == pc[t] \in {"position", "locking", "inside", "dropping"}
Destroying(t) == pc[t] \in {"destroying", "disposing"}

(* A machine may be deleted while an event is on its way to it: until the  *)
(* last thread is done with it, its wrapper has a reference and nobody     *)
(* destroys it, unless the look-up itself raced with the unlocked erase.   *)
HeldIsAlive ==
    \A t \in Everyone \ raced : Using(t) =>
        /\ refs[machine[t]] > 0
        /\ \A u \in Everyone : ~(Destroying(u) /\ machine[u] = machine[t])

(* The destructor of a wrapper locks m_mutex, in deleteStateMachine while  *)
(* the access mutex is held, which every event needs.  It never waits: the *)
(* guard of whoever used the machine goes before the reference, so that    *)
(* the last reference finds the mutex free (command_server.cpp:1770, 3107).*)
DestructorNeverWaits ==
    \A t \in Everyone \ raced :
        pc[t] = "destroying" => m_mutex[machine[t]] \in {None} \cup raced

(* Every event that a thread begins to deliver returns, also when it has   *)
(* to wait for the map or the machine and ends up destroying the latter.   *)
EventsReturn == \A t \in Threads : pc[t] # "idle" ~> pc[t] = "idle"

=============================================================================
