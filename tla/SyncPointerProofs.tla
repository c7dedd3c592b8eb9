------------------------- MODULE SyncPointerProofs -------------------------
(* Proofs that a wrapper outlives its users and that its destructor never  *)
(* waits, for any number of machines and threads.                          *)
EXTENDS SyncPointer, FiniteSetTheorems, TLAPS

Points == {"idle", "waiting", "finding", "position", "locking", "inside", "dropping",
           "destroying", "disposing"}

TypeInv ==
    /\ m_stateMachines \subseteq made /\ made \subseteq Machines
    /\ m_mutex \in [Machines -> Everyone \cup {None}]
    /\ refs \in [Machines -> Int]
    /\ pc \in [Everyone -> Points]
    /\ machine \in [Everyone -> Machines \cup {None}]
    /\ raced \subseteq Threads

(* A thread with an event knows its machine, and one that has a wrapper    *)
(* has one that was made.                                                  *)
Bound ==
    \A t \in Everyone :
        /\ pc[t] \in {"waiting", "finding"} => machine[t] \in Machines
        /\ Using(t) \/ Destroying(t) => machine[t] \in made

(* Who holds the mutex of a wrapper is inside of it or disposes of it.     *)
HoldsLock ==
    \A s \in Machines, u \in Everyone :
        m_mutex[s] = u => machine[u] = s /\ pc[u] \in {"inside", "disposing"}

(* The references to a wrapper: its users, and None for the map.           *)
Users(s) == {t \in Everyone : Using(t) /\ machine[t] = s}
Owners(s) == Users(s) \cup (IF s \in m_stateMachines THEN {None} ELSE {})

(* The reference count of a wrapper counts its references.                 *)
Counted == \A s \in Machines : refs[s] = Cardinality(Owners(s))

(* A wrapper that is being destroyed has left the map, and only threads    *)
(* whose look-up raced still use it.                                       *)
Doomed ==
    \A u \in Everyone : Destroying(u) =>
        /\ machine[u] \notin m_stateMachines
        /\ \A t \in Everyone : Using(t) /\ machine[t] = machine[u] => t \in raced

(* Without such threads a wrapper is destroyed once.                       *)
Once ==
    \A t, u \in Everyone :
        Destroying(t) /\ Destroying(u) /\ machine[t] = machine[u] /\ t # u
            => t \in raced \/ u \in raced

LockInv == TypeInv /\ Bound /\ HoldsLock
LifeInv == Counted /\ Doomed /\ Once
IInv == LockInv /\ LifeInv

LEMMA OwnersAreFinite ==
    ASSUME NEW s
    PROVE  IsFiniteSet(Owners(s))
<1>1. IsFiniteSet(Everyone)
  BY ThreadAssumption, FS_AddElement DEF Everyone
<1>2. Users(s) \in SUBSET Everyone
  BY DEF Users
<1>3. IsFiniteSet(Users(s))
  BY <1>1, <1>2, FS_Subset
<1>4. IsFiniteSet(Users(s) \cup {None})
  BY <1>3, FS_AddElement
<1> QED
  BY <1>3, <1>4 DEF Owners

(* A reference is taken, or dropped, by one who had none, or one.          *)
LEMMA Taken ==
    ASSUME NEW s, NEW x, x \notin Owners(s), Owners(s)' = Owners(s) \cup {x}
    PROVE  Cardinality(Owners(s))' = Cardinality(Owners(s)) + 1
BY OwnersAreFinite, FS_AddElement

LEMMA Dropped ==
    ASSUME NEW s, NEW x, x \in Owners(s), Owners(s)' = Owners(s) \ {x}
    PROVE  Cardinality(Owners(s))' = Cardinality(Owners(s)) - 1
BY OwnersAreFinite, FS_RemoveElement

(* Whoever drops the last reference was the only owner.                    *)
LEMMA LastOwner ==
    ASSUME Counted, NEW s \in Machines, NEW x \in Owners(s), refs[s] = 1
    PROVE  Owners(s) = {x}
<1>1. IsFiniteSet(Owners(s) \ {x}) /\ Cardinality(Owners(s) \ {x}) = 0
  BY OwnersAreFinite, FS_RemoveElement DEF Counted
<1>2. Owners(s) \ {x} = {}
  BY <1>1, FS_EmptySet
<1> QED
  BY <1>2

-----------------------------------------------------------------------------
(* What a step does to the counts and to the wrappers being destroyed.     *)

Kept(s) == Owners(s)' = Owners(s) /\ refs'[s] = refs[s]
TakenBy(x, s) == x \notin Owners(s) /\ Owners(s)' = Owners(s) \cup {x} /\ refs'[s] = refs[s] + 1
DroppedBy(x, s) == x \in Owners(s) /\ Owners(s)' = Owners(s) \ {x} /\ refs'[s] = refs[s] - 1

LEMMA Recount ==
    ASSUME Counted,
           \A s \in Machines : Kept(s) \/ \E x : TakenBy(x, s) \/ DroppedBy(x, s)
    PROVE  Counted'
<1>1. SUFFICES ASSUME NEW s \in Machines
               PROVE  refs'[s] = Cardinality(Owners(s))'
  BY DEF Counted
<1>2. refs[s] = Cardinality(Owners(s))
  BY DEF Counted
<1>3. CASE Kept(s)
  BY <1>2, <1>3 DEF Kept
<1>4. ASSUME NEW x, TakenBy(x, s) PROVE refs'[s] = Cardinality(Owners(s))'
  BY <1>2, <1>4, Taken DEF TakenBy
<1>5. ASSUME NEW x, DroppedBy(x, s) PROVE refs'[s] = Cardinality(Owners(s))'
  BY <1>2, <1>5, Dropped DEF DroppedBy
<1> QED
  BY <1>3, <1>4, <1>5

(* Nobody begins or ends to use or to destroy a wrapper, though a          *)
(* destructor may end.                                                     *)
LEMMA QuietLife ==
    ASSUME LifeInv, UNCHANGED <<refs, m_stateMachines>>,
           \A u \in Everyone :
              /\ Using(u)' <=> Using(u)
              /\ Destroying(u)' => Destroying(u)
              /\ Using(u) \/ Destroying(u)' => machine'[u] = machine[u]
              /\ u \in raced /\ (Using(u) \/ Destroying(u)) => u \in raced'
    PROVE  LifeInv'
<1>1. ASSUME NEW r \in Machines PROVE Kept(r)
  BY DEF Kept, Owners, Users
<1>2. Counted'
  BY <1>1, Recount DEF LifeInv
<1>3. Doomed'
  BY DEF LifeInv, Doomed
<1>4. Once'
  BY DEF LifeInv, Once
<1> QED
  BY <1>2, <1>3, <1>4 DEF LifeInv

(* A thread gets a reference to a machine in the map, or to another one by *)
(* a look-up that raced.                                                   *)
LEMMA UserTakes ==
    ASSUME NEW t \in Everyone, NEW s \in Machines, LockInv, LifeInv,
           ~Using(t), ~Destroying(t), Using(t)',
           \A u \in Everyone \ {t} : pc'[u] = pc[u] /\ machine'[u] = machine[u],
           machine'[t] = s, Ref(s), UNCHANGED <<m_stateMachines, raced>>,
           s \in m_stateMachines \/ t \in raced
    PROVE  LifeInv'
<1>0. t # None
  BY ThreadAssumption DEF Everyone
<1>1. TakenBy(t, s)
  <2>1. t \notin Owners(s)
    BY <1>0 DEF Owners, Users
  <2>2. Owners(s)' = Owners(s) \cup {t}
    BY DEF Owners, Users, Using
  <2> QED
    BY <2>1, <2>2 DEF TakenBy, Ref, LockInv, TypeInv
<1>2. ASSUME NEW r \in Machines, r # s PROVE Kept(r)
  BY <1>2 DEF Kept, Owners, Users, Using, Ref, LockInv, TypeInv
<1>3. Counted'
  BY <1>1, <1>2, Recount DEF LifeInv
<1>4. ~Destroying(t)'
  BY DEF Using, Destroying
<1>5. Doomed'
  BY <1>4 DEF LifeInv, Doomed, Using, Destroying
<1>6. Once'
  BY <1>4 DEF LifeInv, Once, Destroying
<1> QED
  BY <1>3, <1>5, <1>6 DEF LifeInv

(* A reference is dropped: a thread's own, or the map's by the server.     *)
DropsOwn(t, s) ==
    pc[t] = "dropping" /\ machine[t] = s /\ UNCHANGED m_stateMachines
DropsMaps(t, s) ==
    pc[t] = "idle" /\ s \in m_stateMachines /\ m_stateMachines' = m_stateMachines \ {s}

LEMMA UnrefKeeps ==
    ASSUME IInv, NEW t \in Everyone, NEW s \in Machines, Unref(t, s),
           DropsOwn(t, s) \/ DropsMaps(t, s),
           raced \subseteq raced', raced' \subseteq Threads, UNCHANGED <<made, m_mutex>>
    PROVE  IInv'
<1>0. /\ t # None /\ \A r \in Machines : r # None
      /\ None \notin Everyone
  BY ThreadAssumption DEF Everyone
<1>1. /\ s \in made /\ pc[t] \notin {"inside", "disposing"}
      /\ TypeInv /\ Bound /\ HoldsLock /\ Counted /\ Doomed /\ Once
  BY DEF IInv, LockInv, LifeInv, TypeInv, Bound, DropsOwn, DropsMaps, Using
<1>2. /\ \A u \in Everyone \ {t} : pc'[u] = pc[u] /\ machine'[u] = machine[u]
      /\ ~Using(t)'
      /\ Destroying(t)' => refs[s] = 1 /\ machine'[t] = s
  BY <1>1 DEF Unref, Goto, Leave, TypeInv, Using, Destroying
<1>3. LockInv'
  <2>1. TypeInv'
    BY <1>1 DEF TypeInv, Unref, Goto, Leave, DropsOwn, DropsMaps, Points
  <2>2. Bound'
    <3>1. pc'[t] \in {"idle", "destroying"}
      BY <1>1 DEF Unref, Goto, Leave, TypeInv
    <3> QED
      BY <1>1, <1>2, <3>1 DEF Bound, Using, Destroying
  <2>3. HoldsLock'
    BY <1>1, <1>2 DEF HoldsLock
  <2> QED
    BY <2>1, <2>2, <2>3 DEF LockInv
<1>4. PICK x : x \in Owners(s) /\ Owners(s)' = Owners(s) \ {x} /\ x \in {t, None}
  <2>1. CASE DropsOwn(t, s)
    <3>1. t \in Owners(s)
      BY <2>1 DEF DropsOwn, Owners, Users, Using
    <3>2. Owners(s)' = Owners(s) \ {t}
      BY <1>0, <1>2, <2>1 DEF DropsOwn, Owners, Users, Using
    <3> QED
      BY <3>1, <3>2
  <2>2. CASE DropsMaps(t, s)
    <3>1. None \in Owners(s)
      BY <2>2 DEF DropsMaps, Owners
    <3>2. Users(s)' = Users(s)
      BY <1>2, <2>2 DEF DropsMaps, Users, Using
    <3>3. Owners(s)' = Owners(s) \ {None}
      BY <1>0, <2>2, <3>2 DEF DropsMaps, Owners, Users
    <3> QED
      BY <3>1, <3>3
  <2> QED
    BY <2>1, <2>2
<1>5. Counted'
  <2>1. DroppedBy(x, s)
    BY <1>1, <1>4 DEF DroppedBy, Unref, TypeInv
  <2>2. ASSUME NEW r \in Machines, r # s PROVE Kept(r)
    <3>1. Users(r)' = Users(r)
      BY <1>2, <2>2 DEF Users, Using, DropsOwn, DropsMaps
    <3>2. r \in m_stateMachines' <=> r \in m_stateMachines
      BY <2>2 DEF DropsOwn, DropsMaps
    <3> QED
      BY <1>1, <2>2, <3>1, <3>2 DEF Kept, Owners, Unref, TypeInv
  <2> QED
    BY <1>1, <2>1, <2>2, Recount
<1>6. ASSUME NEW u \in Everyone, Destroying(u)', u # t
      PROVE  Destroying(u) /\ machine'[u] = machine[u]
  BY <1>2, <1>6 DEF Destroying
<1>7. ASSUME NEW u \in Everyone, Using(u)'
      PROVE  u # t /\ Using(u) /\ machine'[u] = machine[u]
  BY <1>2, <1>7 DEF Using
(* The last reference to s is gone: nobody uses s any more.                *)
<1>8. ASSUME Destroying(t)' PROVE Owners(s)' = {}
  BY <1>1, <1>2, <1>4, <1>8, LastOwner
<1>9. Doomed'
  <2>1. ASSUME NEW u \in Everyone, Destroying(u)'
        PROVE  machine'[u] \notin m_stateMachines'
    <3>1. CASE u = t
      BY <1>2, <1>8, <2>1, <3>1 DEF Owners
    <3>2. CASE u # t
      BY <1>1, <1>6, <2>1, <3>2 DEF Doomed, DropsOwn, DropsMaps
    <3> QED
      BY <3>1, <3>2
  <2>2. ASSUME NEW u \in Everyone, Destroying(u)',
               NEW v \in Everyone, Using(v)', machine'[v] = machine'[u]
        PROVE  v \in raced'
    <3>1. CASE u = t
      BY <1>2, <1>8, <2>2, <3>1 DEF Owners, Users
    <3>2. CASE u # t
      BY <1>1, <1>6, <1>7, <2>2, <3>2 DEF Doomed
    <3> QED
      BY <3>1, <3>2
  <2> QED
    BY <2>1, <2>2 DEF Doomed
<1>10. ASSUME NEW u \in Everyone, Destroying(t)', Destroying(u)', u # t, machine'[u] = machine'[t]
       PROVE  t \in raced'
  <2>1. Destroying(u) /\ machine[u] = s
    BY <1>2, <1>6, <1>10
  <2>2. CASE DropsOwn(t, s)
    BY <1>1, <2>1, <2>2 DEF Doomed, DropsOwn, Using
  <2>3. CASE DropsMaps(t, s)
    BY <1>1, <2>1, <2>3 DEF Doomed, DropsMaps
  <2> QED
    BY <2>2, <2>3
<1>11. Once'
  <2>1. SUFFICES ASSUME NEW v \in Everyone, NEW u \in Everyone, Destroying(v)', Destroying(u)',
                        machine'[v] = machine'[u], v # u
                 PROVE  v \in raced' \/ u \in raced'
    BY DEF Once
  <2>2. CASE v = t \/ u = t
    BY <1>10, <2>1, <2>2
  <2>3. CASE v # t /\ u # t
    BY <1>1, <1>6, <2>1, <2>3 DEF Once
  <2> QED
    BY <2>2, <2>3
<1> QED
  BY <1>3, <1>5, <1>9, <1>11 DEF IInv, LifeInv

-----------------------------------------------------------------------------
(* Each step keeps the invariant.                                          *)

LEMMA UseKeeps ==
    ASSUME NEW t \in Everyone, IInv, Use(t)
    PROVE  IInv'
<1>0. \A s \in Machines : s # None
  BY ThreadAssumption
<1>i. /\ TypeInv /\ Bound /\ HoldsLock /\ LockInv /\ LifeInv
      /\ \A u \in Everyone : u # None
  BY ThreadAssumption DEF IInv, LockInv, Everyone
<1>1. CASE Position(t)
  <2>1. LockInv'
    BY <1>1, <1>i DEF Position, LockInv, TypeInv, Bound, HoldsLock, Using, Destroying, Goto, tables, Points
  <2>2. LifeInv'
    BY <1>1, <1>i, QuietLife DEF Position, TypeInv, Using, Destroying, Goto, tables
  <2> QED
    BY <2>1, <2>2 DEF IInv
<1>2. CASE Lock(t)
  <2>1. machine[t] \in Machines
    BY <1>2, <1>i DEF Lock, TypeInv, Bound, Using
  <2>2. TypeInv' /\ Bound'
    BY <1>2, <1>i DEF Lock, TypeInv, Bound, Using, Destroying, Goto, tables, Points
  <2>3. HoldsLock'
    BY <1>2, <1>i, <2>1 DEF Lock, TypeInv, HoldsLock, Goto
  <2>4. LifeInv'
    BY <1>2, <1>i, QuietLife DEF Lock, TypeInv, Using, Destroying, Goto, tables
  <2> QED
    BY <2>2, <2>3, <2>4 DEF IInv, LockInv
<1>3. CASE Unlock(t)
  <2>1. machine[t] \in Machines
    BY <1>3, <1>i DEF Unlock, TypeInv, Bound, Using
  <2>2. TypeInv' /\ Bound'
    BY <1>3, <1>i DEF Unlock, TypeInv, Bound, Using, Destroying, Goto, tables, Points
  <2>3. HoldsLock'
    BY <1>3, <1>i, <2>1 DEF Unlock, TypeInv, HoldsLock, Goto
  <2>4. LifeInv'
    BY <1>3, <1>i, QuietLife DEF Unlock, TypeInv, Using, Destroying, Goto, tables
  <2> QED
    BY <2>2, <2>3, <2>4 DEF IInv, LockInv
<1>4. CASE Drop(t)
  <2>1. machine[t] \in Machines /\ DropsOwn(t, machine[t])
    BY <1>4, <1>i DEF Drop, DropsOwn, tables, TypeInv, Bound, Using
  <2> QED
    BY <1>4, <1>i, <2>1, UnrefKeeps DEF Drop, tables, TypeInv
<1>5. CASE Destroy(t)
  <2>1. machine[t] \in Machines
    BY <1>5, <1>i DEF Destroy, TypeInv, Bound, Destroying
  <2>2. TypeInv' /\ Bound'
    BY <1>5, <1>i DEF Destroy, TypeInv, Bound, Using, Destroying, Goto, tables, Points
  <2>3. HoldsLock'
    BY <1>5, <1>i, <2>1 DEF Destroy, TypeInv, HoldsLock, Goto
  <2>4. LifeInv'
    BY <1>5, <1>i, QuietLife DEF Destroy, TypeInv, Using, Destroying, Goto, tables
  <2> QED
    BY <2>2, <2>3, <2>4 DEF IInv, LockInv
<1>6. CASE Disposed(t)
  <2>1. machine[t] \in Machines
    BY <1>6, <1>i DEF Disposed, TypeInv, Bound, Destroying
  <2>2. TypeInv' /\ Bound'
    BY <1>6, <1>i DEF Disposed, Leave, TypeInv, Bound, Using, Destroying, Goto, tables, Points
  <2>3. HoldsLock'
    BY <1>6, <1>i, <2>1 DEF Disposed, Leave, TypeInv, HoldsLock, Goto
  <2>4. LifeInv'
    BY <1>6, <1>i, QuietLife DEF Disposed, Leave, TypeInv, Using, Destroying, Goto, tables
  <2> QED
    BY <2>2, <2>3, <2>4 DEF IInv, LockInv
<1> QED
  BY <1>1, <1>2, <1>3, <1>4, <1>5, <1>6 DEF Use

LEMMA LookupKeeps ==
    ASSUME NEW t \in Threads, IInv,
           Acquire(t) \/ Lookup(t) \/ \E s \in Machines : StartLookup(t, s)
    PROVE  IInv'
<1>0. t \in Everyone /\ \A s \in Machines : s # None
  BY ThreadAssumption DEF Everyone
<1>i. TypeInv /\ Bound /\ HoldsLock /\ LockInv /\ LifeInv
  BY DEF IInv, LockInv
<1>1. ASSUME NEW s \in Machines, StartLookup(t, s) PROVE IInv'
  <2>1. LockInv'
    BY <1>0, <1>1, <1>i
    DEF StartLookup, LockInv, TypeInv, Bound, HoldsLock, Using, Destroying, Goto, tables, Points
  <2>2. LifeInv'
    BY <1>0, <1>1, <1>i, QuietLife DEF StartLookup, TypeInv, Using, Destroying, Goto, tables
  <2> QED
    BY <2>1, <2>2 DEF IInv
<1>2. CASE Acquire(t)
  <2>1. LockInv'
    BY <1>0, <1>2, <1>i
    DEF Acquire, LockInv, TypeInv, Bound, HoldsLock, Using, Destroying, Goto, tables, Points
  <2>2. LifeInv'
    BY <1>0, <1>2, <1>i, QuietLife DEF Acquire, TypeInv, Using, Destroying, Goto, tables
  <2> QED
    BY <2>1, <2>2 DEF IInv
<1>3. CASE Lookup(t) /\ Found(t)
  <2>1. LockInv'
    BY <1>0, <1>3, <1>i
    DEF Lookup, Found, Ref, LockInv, TypeInv, Bound, HoldsLock, Using, Destroying, Goto, tables, Points
  <2>2. machine[t] \in Machines /\ ~Using(t) /\ ~Destroying(t)
    BY <1>0, <1>3, <1>i DEF Lookup, Bound, Using, Destroying
  <2>3. /\ Using(t)' /\ \A u \in Everyone \ {t} : pc'[u] = pc[u] /\ machine'[u] = machine[u]
        /\ machine'[t] = machine[t] /\ Ref(machine[t]) /\ UNCHANGED <<m_stateMachines, raced>>
        /\ machine[t] \in m_stateMachines \/ t \in raced
    BY <1>0, <1>3, <1>i DEF Lookup, Found, Goto, TypeInv, Using, tables
  <2>4. LifeInv'
    BY <1>0, <1>i, <2>2, <2>3, UserTakes
  <2> QED
    BY <2>1, <2>4 DEF IInv
<1>4. CASE Lookup(t) /\ NotFound(t)
  <2>1. LockInv'
    BY <1>0, <1>4, <1>i
    DEF Lookup, NotFound, Leave, LockInv, TypeInv, Bound, HoldsLock, Using, Destroying, Goto, tables, Points
  <2>2. LifeInv'
    BY <1>0, <1>4, <1>i, QuietLife
    DEF Lookup, NotFound, Leave, TypeInv, Using, Destroying, Goto, tables
  <2> QED
    BY <2>1, <2>2 DEF IInv
<1> QED
  BY <1>1, <1>2, <1>3, <1>4 DEF Lookup

LEMMA ServerKeeps ==
    ASSUME IInv, ServerStep
    PROVE  IInv'
<1>0. /\ Server \in Everyone /\ None \notin Everyone
      /\ \A s \in Machines : s # None
  BY ThreadAssumption DEF Everyone
<1>i. TypeInv /\ Bound /\ HoldsLock /\ LockInv /\ LifeInv /\ Counted /\ Doomed /\ Once
  BY DEF IInv, LockInv, LifeInv
<1>1. ASSUME NEW s \in Machines, InstantiateStateMachine(s) PROVE IInv'
  <2>1. LockInv'
    BY <1>0, <1>1, <1>i
    DEF InstantiateStateMachine, LockInv, TypeInv, Bound, HoldsLock, Using, Destroying
  <2>2. Owners(s) = {} /\ Owners(s)' = {None}
    BY <1>1, <1>i DEF InstantiateStateMachine, Owners, Users, Using, TypeInv, Bound
  <2>3. refs[s] = 0 /\ refs'[s] = 1
    BY <1>1, <1>i, <2>2, FS_EmptySet DEF InstantiateStateMachine, Counted, TypeInv
  <2>4. TakenBy(None, s)
    BY <2>2, <2>3 DEF TakenBy
  <2>5. ASSUME NEW r \in Machines, r # s PROVE Kept(r)
    BY <1>1, <1>i, <2>5 DEF InstantiateStateMachine, Kept, Owners, Users, Using, TypeInv
  <2>6. Counted'
    BY <1>i, <2>4, <2>5, Recount
  <2>7. Doomed' /\ Once'
    BY <1>1, <1>i DEF InstantiateStateMachine, Doomed, Once, Bound, Using, Destroying
  <2> QED
    BY <2>1, <2>6, <2>7 DEF IInv, LifeInv
<1>2. ASSUME NEW s \in Machines, GetWrapper(s) PROVE IInv'
  <2>1. LockInv'
    BY <1>0, <1>2, <1>i
    DEF GetWrapper, Ready, Ref, LockInv, TypeInv, Bound, HoldsLock, Using, Destroying, Goto, tables, Points
  <2>2. ~Using(Server) /\ ~Destroying(Server)
    BY <1>2 DEF GetWrapper, Ready, Using, Destroying
  <2>3. /\ Using(Server)' /\ machine'[Server] = s /\ Ref(s)
        /\ \A u \in Everyone \ {Server} : pc'[u] = pc[u] /\ machine'[u] = machine[u]
        /\ UNCHANGED <<m_stateMachines, raced>> /\ s \in m_stateMachines
    BY <1>0, <1>2, <1>i DEF GetWrapper, Goto, TypeInv, Using, tables
  <2>4. LifeInv'
    BY <1>0, <1>i, <2>2, <2>3, UserTakes
  <2> QED
    BY <2>1, <2>4 DEF IInv
<1>3. ASSUME NEW s \in Machines, DeleteStateMachine(s) PROVE IInv'
  <2>1. DropsMaps(Server, s)
    BY <1>3 DEF DeleteStateMachine, Ready, DropsMaps
  <2> QED
    BY <1>0, <1>3, <1>i, <2>1, UnrefKeeps DEF DeleteStateMachine, TypeInv
<1>4. ASSUME NEW s \in Machines, CleanupMachine(s) PROVE IInv'
  <2>1. DropsMaps(Server, s)
    BY <1>4 DEF CleanupMachine, DropsMaps
  <2> QED
    BY <1>0, <1>4, <1>i, <2>1, UnrefKeeps DEF CleanupMachine, TypeInv
<1>5. CASE CleanupArtboard \/ \E a \in Artboards : StartCleanup(a)
  <2>1. LockInv'
    BY <1>5, <1>i
    DEF CleanupArtboard, StartCleanup, LockInv, TypeInv, Bound, HoldsLock, Using, Destroying
  <2>2. LifeInv'
    BY <1>5, <1>i, QuietLife DEF CleanupArtboard, StartCleanup, Using, Destroying
  <2> QED
    BY <2>1, <2>2 DEF IInv
<1> QED
  BY <1>1, <1>2, <1>3, <1>4, <1>5 DEF ServerStep

LEMMA InitInv == Init => IInv
<1>1. Init => \A s \in Machines : refs[s] = 0 /\ Owners(s) = {}
  BY DEF Init, Owners, Users, Using
<1>2. Init => Counted
  BY <1>1, FS_EmptySet DEF Counted
<1>3. Init => LockInv
  BY ThreadAssumption
  DEF Init, LockInv, TypeInv, Bound, HoldsLock, Using, Destroying, Everyone, Points
<1>4. Init => Doomed /\ Once
  BY DEF Init, Doomed, Once, Destroying
<1> QED
  BY <1>2, <1>3, <1>4 DEF IInv, LifeInv

LEMMA StepInv ==
    ASSUME IInv, [Next]_vars
    PROVE  IInv'
<1>1. CASE UNCHANGED vars
  <2>1. LockInv'
    BY <1>1 DEF vars, tables, IInv, LockInv, TypeInv, Bound, HoldsLock, Using, Destroying
  <2>2. LifeInv'
    BY <1>1, QuietLife DEF vars, tables, IInv, Using, Destroying
  <2> QED
    BY <2>1, <2>2 DEF IInv
<1> QED
  BY <1>1, UseKeeps, LookupKeeps, ServerKeeps DEF Next, Event, Everyone

(* A wrapper lives at least until the last thread is done with it, when    *)
(* the machine or its artboard is deleted meanwhile too.                   *)
THEOREM UsersKeepWrappers == Spec => []HeldIsAlive
<1>1. IInv => HeldIsAlive
  <2>1. SUFFICES ASSUME IInv, NEW t \in Everyone \ raced, Using(t)
                 PROVE  /\ refs[machine[t]] > 0
                        /\ \A u \in Everyone : ~(Destroying(u) /\ machine[u] = machine[t])
    BY DEF HeldIsAlive
  <2> DEFINE s == machine[t]
  <2>2. s \in Machines /\ t \in Owners(s)
    BY <2>1 DEF IInv, LockInv, Bound, TypeInv, Owners, Users
  <2>3. Cardinality(Owners(s)) # 0 /\ Cardinality(Owners(s)) \in Nat
    BY <2>2, OwnersAreFinite, FS_EmptySet, FS_CardinalityType
  <2>4. refs[s] > 0
    BY <2>1, <2>2, <2>3 DEF IInv, LifeInv, Counted
  <2>5. \A u \in Everyone : ~(Destroying(u) /\ machine[u] = s)
    BY <2>1 DEF IInv, LifeInv, Doomed
  <2> QED
    BY <2>4, <2>5
<1> QED
  BY <1>1, InitInv, StepInv, PTL DEF Spec

(* The destructor of a wrapper finds its mutex free, whether the server    *)
(* runs it under the access mutex or the last event to end does.           *)
THEOREM DestructorsNeverWait == Spec => []DestructorNeverWaits
<1>1. IInv => DestructorNeverWaits
  <2>1. SUFFICES ASSUME IInv, NEW t \in Everyone \ raced, pc[t] = "destroying",
                        NEW u \in Everyone, m_mutex[machine[t]] = u
                 PROVE  u \in raced
    BY DEF DestructorNeverWaits, IInv, LockInv, TypeInv, Bound, Destroying
  <2>2. Destroying(t) /\ machine[t] \in Machines
    BY <2>1 DEF IInv, LockInv, TypeInv, Bound, Destroying
  <2>3. machine[u] = machine[t] /\ pc[u] \in {"inside", "disposing"}
    BY <2>1, <2>2 DEF IInv, LockInv, HoldsLock
  <2>4. CASE pc[u] = "inside"
    BY <2>1, <2>2, <2>3, <2>4 DEF IInv, LifeInv, Doomed, Using
  <2>5. CASE pc[u] = "disposing"
    BY <2>1, <2>2, <2>3, <2>5 DEF IInv, LifeInv, Once, Destroying
  <2> QED
    BY <2>3, <2>4, <2>5
<1> QED
  BY <1>1, InitInv, StepInv, PTL DEF Spec
=============================================================================
