------------------------ MODULE CommandServerProofs ------------------------
(* Proofs about the handle tables: their types, that no machine outlives   *)
(* its artboard, that the client's knowledge of its handles is exact, that *)
(* a failed command has no effect and that every deletion is told once;    *)
(* and, of the assets that files ask for, that each gets the latest.       *)
EXTENDS CommandServer, FileAssets, FiniteSetTheorems, TLAPS

(* A live machine is in the vector of the live artboard it was made from.  *)
Anchored ==
    \A s \in m_stateMachines :
        /\ parent[s] \in m_artboards
        /\ \E i \in DOMAIN m_artboardDependencies[parent[s]] :
              m_artboardDependencies[parent[s]][i] = s

(* No artboard is ever added to the vector of a file.                      *)
NoFileVector == \A f \in Files : m_fileDependencies[f] = <<>>

IInv == TypeOK /\ Anchored /\ NoFileVector /\ KnownIsLive

-----------------------------------------------------------------------------
(* A command that changes no table keeps the invariant.                    *)
LEMMA QuietStep ==
    ASSUME IInv, UNCHANGED <<tables, dependencies, parent, told>>
    PROVE  IInv'
  BY DEF IInv, TypeOK, Anchored, NoFileVector, KnownIsLive, tables, dependencies, Live

(* A refused creation leaves a handle without an object, as it was.        *)
LEMMA RefusedStep ==
    ASSUME IInv, NEW h \in Handles \ Used, NEW e, Refuse(h, e)
    PROVE  IInv'
<1>1. UNCHANGED <<m_files, m_artboards, m_stateMachines, m_viewModels,
                  m_fileDependencies, m_artboardDependencies, parent>>
  BY DEF Refuse, tables, dependencies
<1>2. told' = [told EXCEPT ![h] = "refused"] /\ told[h] = "unused"
  BY DEF Refuse, Used
<1>3. TypeOK'
  BY <1>1, <1>2 DEF IInv, TypeOK
<1>4. Anchored' /\ NoFileVector'
  BY <1>1 DEF IInv, Anchored, NoFileVector
<1>5. KnownIsLive'
  BY <1>1, <1>2 DEF IInv, TypeOK, KnownIsLive, Live
<1> QED
  BY <1>3, <1>4, <1>5 DEF IInv

(* A handle that was never used is in no map.                              *)
LEMMA UnusedIsAbsent ==
    ASSUME IInv, NEW h \in Handles \ Used
    PROVE  h \notin Live /\ told[h] = "unused"
  BY DEF IInv, KnownIsLive, Used

(* Deleting artboards with their machines, and other objects that are      *)
(* neither, keeps machines anchored.                                       *)
LEMMA CleanupStep ==
    ASSUME IInv, NEW as \in SUBSET m_artboards, NEW others \in SUBSET Files,
           Cleanup(as), Forget(others \cup as \cup MachinesOf(as)),
           m_files' = m_files \ others, UNCHANGED m_viewModels,
           m_fileDependencies' \in [Files -> Seq(Artboards)], NoFileVector'
    PROVE  IInv'
<1> DEFINE gone == others \cup as \cup MachinesOf(as)
<1>1. /\ m_artboards' = m_artboards \ as
      /\ m_stateMachines' = m_stateMachines \ MachinesOf(as)
      /\ m_artboardDependencies' =
            [a \in Artboards |-> IF a \in as THEN <<>> ELSE m_artboardDependencies[a]]
  BY DEF Cleanup
<1>2. /\ parent' = [h \in Handles |-> IF h \in gone THEN None ELSE parent[h]]
      /\ told' = [h \in Handles |-> IF h \in gone THEN "gone" ELSE told[h]]
  BY DEF Forget
<1>3. MachinesOf(as) \subseteq m_stateMachines
  BY DEF MachinesOf
<1>4. as \subseteq Artboards /\ MachinesOf(as) \subseteq StateMachines
  BY <1>3 DEF IInv, TypeOK
<1>5. \A s \in m_stateMachines' : s \in m_stateMachines /\ s \in StateMachines /\ s \notin gone
  BY <1>1, <1>4, HandleAssumption DEF IInv, TypeOK
<1>6. \A s \in m_stateMachines' : parent[s] \notin as
  <2> SUFFICES ASSUME NEW s \in m_stateMachines, s \notin MachinesOf(as), parent[s] \in as
               PROVE  FALSE
    BY <1>1
  <2>1. PICK i \in DOMAIN m_artboardDependencies[parent[s]] :
            m_artboardDependencies[parent[s]][i] = s
    BY DEF IInv, Anchored
  <2>2. s \in Elements(m_artboardDependencies[parent[s]])
    BY <2>1 DEF Elements
  <2> QED
    BY <2>2 DEF MachinesOf
<1>7. TypeOK'
  <2>1. m_artboardDependencies' \in [Artboards -> Seq(StateMachines)]
    <3>1. \A a \in Artboards : m_artboardDependencies[a] \in Seq(StateMachines)
      BY DEF IInv, TypeOK
    <3>2. <<>> \in Seq(StateMachines)
      OBVIOUS
    <3> QED
      BY <1>1, <3>1, <3>2
  <2>2. parent' \in [Handles -> Handles \cup {None}]
    BY <1>2 DEF IInv, TypeOK
  <2>3. told' \in [Handles -> {"unused", "refused", "made", "silent", "gone"}]
    BY <1>2 DEF IInv, TypeOK
  <2> QED
    BY <1>1, <2>1, <2>2, <2>3 DEF IInv, TypeOK
<1>8. Anchored'
  <2> SUFFICES ASSUME NEW s \in m_stateMachines'
               PROVE  /\ parent'[s] \in m_artboards'
                      /\ \E i \in DOMAIN m_artboardDependencies'[parent'[s]] :
                            m_artboardDependencies'[parent'[s]][i] = s
    BY DEF Anchored
  <2>1. s \in m_stateMachines /\ parent[s] \in m_artboards \ as
    BY <1>5, <1>6 DEF IInv, Anchored
  <2>2. parent'[s] = parent[s]
    BY <1>2, <1>5 DEF Handles
  <2>3. m_artboardDependencies'[parent[s]] = m_artboardDependencies[parent[s]]
    BY <1>1, <2>1 DEF IInv, TypeOK
  <2>4. \E i \in DOMAIN m_artboardDependencies[parent[s]] :
            m_artboardDependencies[parent[s]][i] = s
    BY <2>1 DEF IInv, Anchored
  <2> QED
    BY <1>1, <2>1, <2>2, <2>3, <2>4
<1>9. KnownIsLive'
  <2> SUFFICES ASSUME NEW h \in Handles
               PROVE  h \in Live' <=> told'[h] \in {"made", "silent"}
    BY DEF KnownIsLive
  <2>1. h \in Live' <=> h \in Live /\ h \notin gone
    BY <1>1, <1>4, HandleAssumption DEF Live, IInv, TypeOK
  <2>2. h \in Live <=> told[h] \in {"made", "silent"}
    BY DEF IInv, KnownIsLive
  <2> QED
    BY <1>2, <2>1, <2>2
<1> QED
  BY <1>7, <1>8, <1>9 DEF IInv

-----------------------------------------------------------------------------
(* Making an object registers it with the object it was made from.         *)
LEMMA MakeArtboard ==
    ASSUME IInv, NEW a \in Artboards, NEW f \in Files, InstantiateArtboard(a, f)
    PROVE  IInv'
<1>1. CASE Refuse(a, Error(f))
  BY <1>1, RefusedStep DEF InstantiateArtboard, Handles
<1>2. CASE /\ m_artboardDependencies' = [m_artboardDependencies EXCEPT ![a] = <<>>]
           /\ m_artboards' = m_artboards \cup {a}
           /\ Make(a, f, "artboardInstantiated")
           /\ UNCHANGED <<m_files, m_stateMachines, m_viewModels, m_fileDependencies>>
  <2>1. a \notin Live /\ a \in Handles
    BY UnusedIsAbsent DEF InstantiateArtboard, Handles
  <2>2. parent' = [parent EXCEPT ![a] = f] /\ told' = [told EXCEPT ![a] = "made"]
    BY <1>2 DEF Make
  <2>3. TypeOK'
    <3>1. parent' \in [Handles -> Handles \cup {None}]
      BY <2>2 DEF IInv, TypeOK, Handles
    <3>2. told' \in [Handles -> {"unused", "refused", "made", "silent", "gone"}]
      BY <2>2 DEF IInv, TypeOK
    <3>3. m_artboardDependencies' \in [Artboards -> Seq(StateMachines)]
      BY <1>2 DEF IInv, TypeOK
    <3> QED
      BY <1>2, <3>1, <3>2, <3>3 DEF IInv, TypeOK
  <2>4. Anchored'
    <3> SUFFICES ASSUME NEW s \in m_stateMachines
                 PROVE  /\ parent'[s] \in m_artboards'
                        /\ \E i \in DOMAIN m_artboardDependencies'[parent'[s]] :
                              m_artboardDependencies'[parent'[s]][i] = s
      BY <1>2 DEF Anchored
    <3>1. /\ parent[s] \in m_artboards
          /\ \E i \in DOMAIN m_artboardDependencies[parent[s]] :
                m_artboardDependencies[parent[s]][i] = s
      BY DEF IInv, Anchored
    <3>2. s # a /\ parent[s] # a /\ parent[s] \in Artboards
      BY <2>1, <3>1 DEF Live, IInv, TypeOK
    <3>3. parent'[s] = parent[s]
      BY <2>2, <3>2 DEF IInv, TypeOK, Handles
    <3>4. m_artboardDependencies'[parent[s]] = m_artboardDependencies[parent[s]]
      BY <1>2, <3>2 DEF IInv, TypeOK
    <3> QED
      BY <1>2, <3>1, <3>3, <3>4
  <2>5. KnownIsLive'
    BY <1>2, <2>1, <2>2 DEF IInv, TypeOK, KnownIsLive, Live
  <2> QED
    BY <1>2, <2>3, <2>4, <2>5 DEF IInv, NoFileVector
<1> QED
  BY <1>1, <1>2 DEF InstantiateArtboard

LEMMA MakeStateMachine ==
    ASSUME IInv, NEW s \in StateMachines, NEW a \in Artboards, InstantiateStateMachine(s, a)
    PROVE  IInv'
<1>1. CASE Refuse(s, Error(a))
  BY <1>1, RefusedStep DEF InstantiateStateMachine, Handles
<1>2. CASE /\ a \in m_artboards
           /\ m_stateMachines' = m_stateMachines \cup {s}
           /\ m_artboardDependencies' = [m_artboardDependencies EXCEPT ![a] = Append(@, s)]
           /\ Make(s, a, "stateMachineInstantiated")
           /\ UNCHANGED <<m_files, m_artboards, m_viewModels, m_fileDependencies>>
  <2>1. s \notin Live /\ s \in Handles
    BY UnusedIsAbsent DEF InstantiateStateMachine, Handles
  <2>2. parent' = [parent EXCEPT ![s] = a] /\ told' = [told EXCEPT ![s] = "made"]
    BY <1>2 DEF Make
  <2>3. m_artboardDependencies[a] \in Seq(StateMachines)
    BY DEF IInv, TypeOK
  <2>4. /\ m_artboardDependencies'[a] = Append(m_artboardDependencies[a], s)
        /\ \A b \in Artboards \ {a} : m_artboardDependencies'[b] = m_artboardDependencies[b]
    BY <1>2 DEF IInv, TypeOK
  <2>5. TypeOK'
    <3>1. parent' \in [Handles -> Handles \cup {None}]
      BY <2>2 DEF IInv, TypeOK, Handles
    <3>2. told' \in [Handles -> {"unused", "refused", "made", "silent", "gone"}]
      BY <2>2 DEF IInv, TypeOK
    <3>3. Append(m_artboardDependencies[a], s) \in Seq(StateMachines)
      BY <2>3
    <3>4. m_artboardDependencies' \in [Artboards -> Seq(StateMachines)]
      BY <1>2, <3>3 DEF IInv, TypeOK
    <3> QED
      BY <1>2, <3>1, <3>2, <3>4 DEF IInv, TypeOK
  <2>6. Anchored'
    <3> SUFFICES ASSUME NEW t \in m_stateMachines \cup {s}
                 PROVE  /\ parent'[t] \in m_artboards
                        /\ \E i \in DOMAIN m_artboardDependencies'[parent'[t]] :
                              m_artboardDependencies'[parent'[t]][i] = t
      BY <1>2 DEF Anchored
    <3>1. CASE t = s
      <4>1. parent'[s] = a
        BY <2>1, <2>2 DEF IInv, TypeOK
      <4>2. LET v == Append(m_artboardDependencies[a], s) IN
               Len(v) \in DOMAIN v /\ v[Len(v)] = s
        BY <2>3
      <4> QED
        BY <1>2, <2>4, <3>1, <4>1, <4>2
    <3>2. CASE t # s
      <4>1. t \in m_stateMachines /\ t \in Handles
        BY <3>2 DEF IInv, TypeOK, Handles
      <4>2. parent'[t] = parent[t]
        BY <2>2, <3>2, <4>1 DEF IInv, TypeOK
      <4>3. PICK i \in DOMAIN m_artboardDependencies[parent[t]] :
                m_artboardDependencies[parent[t]][i] = t
        BY <4>1 DEF IInv, Anchored
      <4>4. parent[t] \in m_artboards /\ parent[t] \in Artboards
        BY <4>1 DEF IInv, Anchored, TypeOK
      <4>5. CASE parent[t] = a
        <5>1. LET v == Append(m_artboardDependencies[a], s) IN
                 i \in DOMAIN v /\ v[i] = t
          BY <2>3, <4>3, <4>5
        <5> QED
          BY <2>4, <4>2, <4>4, <4>5, <5>1
      <4>6. CASE parent[t] # a
        BY <2>4, <4>2, <4>3, <4>4, <4>6
      <4> QED
        BY <4>5, <4>6
    <3> QED
      BY <3>1, <3>2
  <2>7. KnownIsLive'
    BY <1>2, <2>1, <2>2 DEF IInv, TypeOK, KnownIsLive, Live
  <2> QED
    BY <1>2, <2>5, <2>6, <2>7 DEF IInv, NoFileVector
<1> QED
  BY <1>1, <1>2 DEF InstantiateStateMachine

(* A new file or view model changes nothing about artboards and machines.  *)
LEMMA MakeOther ==
    ASSUME IInv, NEW h \in (Files \cup ViewModels) \ Used, NEW p \in Handles \cup {None},
           NEW word \in {"made", "silent"},
           parent' = [parent EXCEPT ![h] = p], told' = [told EXCEPT ![h] = word],
           \/ h \in Files /\ m_files' = m_files \cup {h} /\ m_viewModels' = m_viewModels
           \/ h \in ViewModels /\ m_viewModels' = m_viewModels \cup {h} /\ m_files' = m_files,
           UNCHANGED <<m_artboards, m_stateMachines, m_artboardDependencies, m_fileDependencies>>
    PROVE  IInv'
<1>1. h \in Handles /\ h \notin Live
  BY UnusedIsAbsent DEF Handles
<1>2. TypeOK'
  <2>1. parent' \in [Handles -> Handles \cup {None}]
    BY DEF IInv, TypeOK
  <2>2. told' \in [Handles -> {"unused", "refused", "made", "silent", "gone"}]
    BY DEF IInv, TypeOK
  <2> QED
    BY <2>1, <2>2 DEF IInv, TypeOK
<1>3. Anchored'
  <2>1. \A s \in m_stateMachines : s # h
    BY <1>1 DEF Live
  <2>2. \A s \in m_stateMachines : parent'[s] = parent[s]
    BY <2>1, HandleAssumption DEF IInv, TypeOK, Handles
  <2> QED
    BY <2>2 DEF IInv, Anchored
<1>4. KnownIsLive'
  <2> SUFFICES ASSUME NEW g \in Handles
               PROVE  g \in Live' <=> told'[g] \in {"made", "silent"}
    BY DEF KnownIsLive
  <2>1. g \in Live' <=> g \in Live \/ g = h
    BY DEF Live
  <2>2. g \in Live <=> told[g] \in {"made", "silent"}
    BY DEF IInv, KnownIsLive
  <2>3. told'[g] = IF g = h THEN word ELSE told[g]
    BY DEF IInv, TypeOK
  <2> QED
    BY <2>1, <2>2, <2>3
<1> QED
  BY <1>2, <1>3, <1>4 DEF IInv, NoFileVector

(* A deleted machine stays in its artboard's vector; a view model is in    *)
(* none.                                                                   *)
LEMMA DeleteStep ==
    ASSUME IInv, NEW h \in StateMachines \cup ViewModels, Forget({h}),
           m_stateMachines' = m_stateMachines \ {h}, m_viewModels' = m_viewModels \ {h},
           UNCHANGED <<m_files, m_artboards, m_artboardDependencies, m_fileDependencies>>
    PROVE  IInv'
<1>1. /\ parent' = [g \in Handles |-> IF g \in {h} THEN None ELSE parent[g]]
      /\ told' = [g \in Handles |-> IF g \in {h} THEN "gone" ELSE told[g]]
  BY DEF Forget
<1>2. TypeOK'
  <2>1. parent' \in [Handles -> Handles \cup {None}]
    BY <1>1 DEF IInv, TypeOK
  <2>2. told' \in [Handles -> {"unused", "refused", "made", "silent", "gone"}]
    BY <1>1 DEF IInv, TypeOK
  <2> QED
    BY <2>1, <2>2 DEF IInv, TypeOK
<1>3. Anchored'
  <2>1. \A s \in m_stateMachines' : s \in m_stateMachines /\ parent'[s] = parent[s]
    BY <1>1 DEF IInv, TypeOK, Handles
  <2> QED
    BY <2>1 DEF IInv, Anchored
<1>4. KnownIsLive'
  <2> SUFFICES ASSUME NEW g \in Handles
               PROVE  g \in Live' <=> told'[g] \in {"made", "silent"}
    BY DEF KnownIsLive
  <2>1. g \in Live' <=> g \in Live /\ g # h
    BY HandleAssumption DEF Live, IInv, TypeOK
  <2>2. g \in Live <=> told[g] \in {"made", "silent"}
    BY DEF IInv, KnownIsLive
  <2> QED
    BY <1>1, <2>1, <2>2
<1> QED
  BY <1>2, <1>3, <1>4 DEF IInv, NoFileVector

-----------------------------------------------------------------------------
(* The commands, by the object they name.                                  *)
LEMMA FileStep ==
    ASSUME IInv, NEW f \in Files, LoadFile(f) \/ DeleteFile(f) \/ \E op \in FileQueries : FileQuery(op, f)
    PROVE  IInv'
<1>1. CASE LoadFile(f)
  <2>1. CASE Refuse(f, Error(f))
    BY <1>1, <2>1, RefusedStep DEF LoadFile, Handles
  <2>2. CASE ~Refuse(f, Error(f))
    <3>1. /\ f \notin Used /\ m_files' = m_files \cup {f}
          /\ m_fileDependencies' = [m_fileDependencies EXCEPT ![f] = <<>>]
          /\ told' = [told EXCEPT ![f] = "made"]
          /\ UNCHANGED <<m_artboards, m_stateMachines, m_viewModels, m_artboardDependencies, parent>>
      BY <1>1, <2>2 DEF LoadFile
    <3>2. m_fileDependencies' = m_fileDependencies
      BY <3>1 DEF IInv, NoFileVector, TypeOK
    <3>3. parent' = [parent EXCEPT ![f] = parent[f]] /\ parent[f] \in Handles \cup {None}
      BY <3>1 DEF IInv, TypeOK, Handles
    <3> QED
      BY <3>1, <3>2, <3>3, MakeOther
  <2> QED
    BY <2>1, <2>2
<1>2. CASE DeleteFile(f)
  <2> DEFINE as == Elements(m_fileDependencies[f]) \cap m_artboards
  <2>1. /\ m_files' = m_files \ {f}
        /\ m_fileDependencies' = [m_fileDependencies EXCEPT ![f] = <<>>]
        /\ Cleanup(as) /\ Forget({f} \cup as \cup MachinesOf(as)) /\ UNCHANGED m_viewModels
    BY <1>2 DEF DeleteFile
  <2>2. m_fileDependencies' = m_fileDependencies
    BY <2>1 DEF IInv, NoFileVector, TypeOK
  <2>3. NoFileVector' /\ m_fileDependencies' \in [Files -> Seq(Artboards)]
    BY <2>2 DEF IInv, NoFileVector, TypeOK
  <2>4. as \in SUBSET m_artboards /\ {f} \in SUBSET Files
    OBVIOUS
  <2> HIDE DEF as
  <2> QED
    BY <2>1, <2>3, <2>4, CleanupStep
<1>3. CASE \E op \in FileQueries : FileQuery(op, f)
  BY <1>3, QuietStep DEF FileQuery, Reply
<1> QED
  BY <1>1, <1>2, <1>3

LEMMA ArtboardStep ==
    ASSUME IInv, ArtboardCommand
    PROVE  IInv'
<1> PICK a \in Artboards :
        \/ DeleteArtboard(a) \/ SetArtboardSize(a) \/ ListStateMachines(a)
        \/ \E f \in Files : InstantiateArtboard(a, f) \/ GetDefaultViewModel(f, a)
  BY DEF ArtboardCommand
<1>1. CASE DeleteArtboard(a)
  <2> DEFINE as == {a} \cap m_artboards
  <2>1. /\ Cleanup(as) /\ Forget({} \cup as \cup MachinesOf(as))
        /\ UNCHANGED <<m_files, m_viewModels, m_fileDependencies>>
    BY <1>1 DEF DeleteArtboard
  <2>2. NoFileVector' /\ m_fileDependencies' \in [Files -> Seq(Artboards)]
    BY <2>1 DEF IInv, NoFileVector, TypeOK
  <2>3. as \in SUBSET m_artboards /\ {} \in SUBSET Files /\ m_files' = m_files \ {}
    BY <2>1
  <2> HIDE DEF as
  <2> QED
    BY <2>1, <2>2, <2>3, CleanupStep
<1>2. CASE SetArtboardSize(a) \/ ListStateMachines(a) \/ \E f \in Files : GetDefaultViewModel(f, a)
  BY <1>2, QuietStep DEF SetArtboardSize, ListStateMachines, GetDefaultViewModel, Reply
<1>3. CASE \E f \in Files : InstantiateArtboard(a, f)
  BY <1>3, MakeArtboard
<1> QED
  BY <1>1, <1>2, <1>3

LEMMA MachineStep ==
    ASSUME IInv, MachineCommand
    PROVE  IInv'
<1> PICK s \in StateMachines :
        \/ DeleteStateMachine(s) \/ AdvanceStateMachine(s) \/ PointerEvent(s)
        \/ \E a \in Artboards : InstantiateStateMachine(s, a)
        \/ \E v \in ViewModels : BindViewModelInstance(s, v)
  BY DEF MachineCommand
<1>1. CASE DeleteStateMachine(s)
  <2>1. m_viewModels' = m_viewModels \ {s}
    BY <1>1, HandleAssumption DEF DeleteStateMachine, IInv, TypeOK
  <2> QED
    BY <1>1, <2>1, DeleteStep DEF DeleteStateMachine, dependencies
<1>2. CASE AdvanceStateMachine(s) \/ PointerEvent(s) \/ \E v \in ViewModels : BindViewModelInstance(s, v)
  BY <1>2, QuietStep DEF AdvanceStateMachine, PointerEvent, BindViewModelInstance, Reply
<1>3. CASE \E a \in Artboards : InstantiateStateMachine(s, a)
  BY <1>3, MakeStateMachine
<1> QED
  BY <1>1, <1>2, <1>3

LEMMA RefStep ==
    ASSUME IInv, NEW v \in ViewModels, NEW root \in ViewModels, NEW to \in ViewModels,
           RefViewModel(v, root, to)
    PROVE  IInv'
<1>1. v \notin Used /\ v \in Handles
  BY DEF RefViewModel, Handles
<1>2. CASE Refuse(v, Error(to))
  BY <1>1, <1>2, RefusedStep
<1>3. CASE ~Refuse(v, Error(to))
  <2>1. /\ m_viewModels' = m_viewModels \cup {v} /\ told' = [told EXCEPT ![v] = "silent"]
        /\ UNCHANGED <<m_files, m_artboards, m_stateMachines, dependencies, parent>>
    BY <1>3 DEF RefViewModel
  <2>2. parent' = [parent EXCEPT ![v] = parent[v]] /\ parent[v] \in Handles \cup {None}
    BY <1>1, <2>1 DEF IInv, TypeOK
  <2> QED
    BY <1>1, <2>1, <2>2, MakeOther DEF dependencies
<1> QED
  BY <1>2, <1>3

LEMMA InstanceStep ==
    ASSUME IInv, NEW v \in ViewModels, NEW f \in Files, NEW a, InstantiateViewModel(v, f, a)
    PROVE  IInv'
<1>1. v \notin Used /\ v \in Handles /\ f \in Handles \cup {None}
  BY DEF InstantiateViewModel, Handles
<1>2. CASE Refuse(v, Error(f))
  BY <1>1, <1>2, RefusedStep
<1>3. CASE ~Refuse(v, Error(f))
  <2>1. /\ m_viewModels' = m_viewModels \cup {v}
        /\ parent' = [parent EXCEPT ![v] = f] /\ told' = [told EXCEPT ![v] = "made"]
        /\ UNCHANGED <<m_files, m_artboards, m_stateMachines, dependencies>>
    BY <1>3 DEF InstantiateViewModel, Make
  <2> QED
    BY <1>1, <2>1, MakeOther DEF dependencies
<1> QED
  BY <1>2, <1>3

LEMMA PropertyStep ==
    ASSUME IInv, PropertyCommand
    PROVE  IInv'
<1> PICK v \in ViewModels :
        \/ DeleteViewModel(v) \/ Unsubscribe(v) \/ ListViewModelPropertyValue(v)
        \/ \E reply \in ViewModelReplies : ViewModelCommand(v, reply)
        \/ \E value \in ViewModels \cup Artboards \cup {None} : SetViewModelInstanceValue(v, value)
        \/ \E f \in Files, a \in Artboards \cup {None} : InstantiateViewModel(v, f, a)
        \/ \E root \in ViewModels :
              RefNestedViewModel(v, root) \/ RefListViewModel(v, root) \/ AddListValue(root, v)
  BY DEF PropertyCommand
<1>1. CASE DeleteViewModel(v)
  <2>1. m_stateMachines' = m_stateMachines \ {v}
    BY <1>1, HandleAssumption DEF DeleteViewModel, IInv, TypeOK
  <2> QED
    BY <1>1, <2>1, DeleteStep DEF DeleteViewModel, dependencies
<1>2. CASE \/ Unsubscribe(v) \/ ListViewModelPropertyValue(v)
           \/ \E reply \in ViewModelReplies : ViewModelCommand(v, reply)
           \/ \E value \in ViewModels \cup Artboards \cup {None} : SetViewModelInstanceValue(v, value)
           \/ \E root \in ViewModels : AddListValue(root, v)
  BY <1>2, QuietStep
  DEF Unsubscribe, ListViewModelPropertyValue, ViewModelCommand, AddListValue, Reply,
      SetViewModelInstanceValue
<1>3. CASE \E f \in Files, a \in Artboards \cup {None} : InstantiateViewModel(v, f, a)
  BY <1>3, InstanceStep
<1>4. CASE \E root \in ViewModels : RefNestedViewModel(v, root) \/ RefListViewModel(v, root)
  BY <1>4, RefStep DEF RefNestedViewModel, RefListViewModel
<1> QED
  BY <1>1, <1>2, <1>3, <1>4

LEMMA InitOK == Init => IInv
<1> SUFFICES ASSUME Init PROVE IInv
  OBVIOUS
<1>1. TypeOK
  <2>1. \A T : <<>> \in Seq(T)
    OBVIOUS
  <2> QED
    BY <2>1 DEF Init, TypeOK
<1>2. Anchored /\ NoFileVector /\ KnownIsLive
  BY DEF Init, Anchored, NoFileVector, KnownIsLive, Live
<1> QED
  BY <1>1, <1>2 DEF IInv

LEMMA StepOK == IInv /\ [Next]_vars => IInv'
<1> SUFFICES ASSUME IInv, [Next]_vars PROVE IInv'
  OBVIOUS
<1>1. CASE FileCommand
  BY <1>1, FileStep DEF FileCommand
<1>2. CASE UNCHANGED vars
  BY <1>2, QuietStep DEF vars
<1> QED
  BY <1>1, <1>2, ArtboardStep, MachineStep, PropertyStep DEF Next

(* The inductive invariant of the handle tables holds in every state: it   *)
(* starts with the empty maps of the constructor and every command of      *)
(* processCommands keeps it (command_server.cpp).                          *)
THEOREM Invariance == Spec => []IInv
  BY InitOK, StepOK, PTL DEF Spec

-----------------------------------------------------------------------------
(* Every map holds handles of its own kind (command_server.cpp).           *)
THEOREM TypeCorrect == Spec => []TypeOK
<1>1. IInv => TypeOK
  BY DEF IInv
<1> QED
  BY <1>1, Invariance, PTL

(* No state machine outlives the artboard that it points to, whatever is   *)
(* deleted in whatever order (cleanupArtboard, deleteFile).                *)
THEOREM MachinesKeepArtboards == Spec => []MachinesHaveArtboards
<1>1. IInv => MachinesHaveArtboards
  BY DEF IInv, Anchored, MachinesHaveArtboards
<1> QED
  BY <1>1, Invariance, PTL

(* The client is never wrong about an announced handle: it is in its map   *)
(* until its deletion was reported.                                        *)
THEOREM ClientsKnow == Spec => []KnownIsLive
<1>1. IInv => KnownIsLive
  BY DEF IInv
<1> QED
  BY <1>1, Invariance, PTL

-----------------------------------------------------------------------------
(* What cleanupArtboard reports.                                           *)

(* InOrder enumerates a finite set of places, in ascending order.          *)
LEMMA InOrderEnumerates ==
    ASSUME NEW m \in Nat, NEW P \in SUBSET (1..m)
    PROVE  /\ Cardinality(P) \in Nat
           /\ InOrder(P) \in [1..Cardinality(P) -> P]
           /\ \A i, j \in 1..Cardinality(P) : i < j => InOrder(P)[i] < InOrder(P)[j]
           /\ \A p \in P : \E i \in 1..Cardinality(P) : InOrder(P)[i] = p
<1> DEFINE N == Cardinality(P)
           Upto(p) == {x \in P : x <= p}
           rank == [p \in P |-> Cardinality(Upto(p))]
           Ascends(q) == \A i, j \in DOMAIN q : i < j => q[i] < q[j]
<1>0. \A p \in P : p \in Int
  OBVIOUS
<1>1. IsFiniteSet(P) /\ N \in Nat
  <2>1. IsFiniteSet(1..m)
    BY FS_Interval
  <2> QED
    BY <2>1, FS_Subset, FS_CardinalityType
<1>2. IsFiniteSet(1..N) /\ Cardinality(1..N) = N
  BY <1>1, FS_Interval
<1>3. \A p \in P : IsFiniteSet(Upto(p)) /\ Cardinality(Upto(p)) \in Nat /\ rank[p] \in 1..N
  <2> SUFFICES ASSUME NEW p \in P
               PROVE  IsFiniteSet(Upto(p)) /\ Cardinality(Upto(p)) \in Nat /\ rank[p] \in 1..N
    OBVIOUS
  <2>1. Upto(p) \in SUBSET P /\ p \in Upto(p)
    OBVIOUS
  <2>2. IsFiniteSet(Upto(p)) /\ Cardinality(Upto(p)) <= N
    BY <1>1, <2>1, FS_Subset
  <2>3. Cardinality(Upto(p)) \in Nat /\ Cardinality(Upto(p)) # 0
    BY <2>1, <2>2, FS_CardinalityType, FS_EmptySet
  <2>4. rank[p] = Cardinality(Upto(p))
    OBVIOUS
  <2> HIDE DEF rank, Upto, N
  <2> QED
    BY <1>1, <2>2, <2>3, <2>4
<1>4. \A p, r \in P : p < r => rank[p] < rank[r]
  <2> SUFFICES ASSUME NEW p \in P, NEW r \in P, p < r
               PROVE  rank[p] < rank[r]
    OBVIOUS
  <2>1. Upto(p) \in SUBSET Upto(r) /\ r \in Upto(r) /\ r \notin Upto(p)
    <3>1. \A x \in P : x <= p => x <= r
      BY <1>0
    <3>2. ~(r <= p) /\ r <= r
      BY <1>0
    <3> QED
      BY <3>1, <3>2
  <2>2. Cardinality(Upto(p)) <= Cardinality(Upto(r)) /\ Cardinality(Upto(p)) # Cardinality(Upto(r))
    BY <1>3, <2>1, FS_Subset
  <2>3. rank[p] = Cardinality(Upto(p)) /\ rank[r] = Cardinality(Upto(r))
    OBVIOUS
  <2> HIDE DEF rank, Upto
  <2> QED
    BY <1>3, <2>2, <2>3
<1>5. \A n \in 1..N : \E p \in P : rank[p] = n
  <2>1. rank \in [P -> 1..N]
    BY <1>3
  <2>2. \A p, r \in P : rank[p] = rank[r] => p = r
    <3>1. \A p \in P : p \in Int /\ rank[p] \in Int
      BY <1>0, <1>3
    <3> HIDE DEF rank
    <3> QED
      BY <1>4, <3>1
  <2> HIDE DEF rank
  <2>3. rank \in Injection(P, 1..N)
    BY <2>1, <2>2 DEF Injection, IsInjective
  <2>4. rank \in Surjection(P, 1..N)
    BY <1>2, <2>3, FS_Injection
  <2> QED
    BY <2>4 DEF Surjection
<1>6. \E q \in [1..N -> P] : Ascends(q)
  <2> DEFINE f == [n \in 1..N |-> CHOOSE p \in P : rank[p] = n]
  <2>1. \A n \in 1..N : f[n] \in P /\ rank[f[n]] = n
    <3> HIDE DEF rank
    <3> QED
      BY <1>5
  <2>2. f \in [1..N -> P]
    BY <2>1
  <2>3. Ascends(f)
    <3> SUFFICES ASSUME NEW i \in 1..N, NEW j \in 1..N, i < j, ~(f[i] < f[j])
                 PROVE  FALSE
      BY <2>2
    <3>1. f[i] \in P /\ f[j] \in P /\ rank[f[i]] = i /\ rank[f[j]] = j
      BY <2>1
    <3>2. f[i] \in Int /\ f[j] \in Int
      BY <1>0, <3>1
    <3> HIDE DEF f, rank
    <3>3. f[i] = f[j] \/ f[j] < f[i]
      BY <3>2
    <3>4. CASE f[i] = f[j]
      BY <3>1, <3>4
    <3>5. CASE f[j] < f[i]
      <4>1. rank[f[j]] < rank[f[i]]
        BY <1>4, <3>1, <3>5
      <4> QED
        BY <3>1, <4>1
    <3> QED
      BY <3>3, <3>4, <3>5
  <2> QED
    BY <2>2, <2>3
<1>7. InOrder(P) \in [1..N -> P] /\ Ascends(InOrder(P))
  BY <1>6 DEF InOrder
<1> DEFINE q == InOrder(P)
<1>8. \A i, j \in 1..N : i < j => q[i] < q[j]
  BY <1>7
<1>9. \A p \in P : \E i \in 1..N : q[i] = p
  <2>1. \A i, j \in 1..N : q[i] = q[j] => i = j
    <3>1. \A i \in 1..N : q[i] \in Int
      BY <1>0, <1>7
    <3> HIDE DEF q
    <3> QED
      BY <1>8, <3>1
  <2>2. q \in Injection(1..N, P)
    BY <1>7, <2>1 DEF Injection, IsInjective
  <2>3. q \in Surjection(1..N, P)
    BY <1>1, <1>2, <2>2, FS_Injection
  <2> QED
    BY <2>3 DEF Surjection
<1> QED
  BY <1>1, <1>7, <1>8, <1>9

(* A vector holds no handle twice, and only handles that were given.       *)
NoTwice ==
    \A a \in Artboards :
        LET v == m_artboardDependencies[a] IN
        /\ \A i \in DOMAIN v : v[i] \in Used
        /\ \A i, j \in DOMAIN v : v[i] = v[j] => i = j

(* No handle becomes unused again.                                         *)
LEMMA UsedStays ==
    ASSUME IInv, Next
    PROVE  Used \subseteq Used'
<1> SUFFICES ASSUME NEW h \in Handles, told[h] # "unused"
             PROVE  told'[h] # "unused"
  BY DEF Used
<1>1. told \in [Handles -> {"unused", "refused", "made", "silent", "gone"}]
  BY DEF IInv, TypeOK
<1>2. \A gone : Forget(gone) => told'[h] # "unused"
  BY DEF Forget
<1>3. \A g, e : Refuse(g, e) => told'[h] # "unused"
  BY <1>1 DEF Refuse
<1>4. \A g, p, n : Make(g, p, n) => told'[h] # "unused"
  BY <1>1 DEF Make
<1>5. \A reply : Reply(reply) => told'[h] # "unused"
  BY DEF Reply
<1>6. ASSUME FileCommand PROVE told'[h] # "unused"
  BY <1>1, <1>2, <1>3, <1>5, <1>6 DEF FileCommand, LoadFile, DeleteFile, FileQuery
<1>7. ASSUME ArtboardCommand PROVE told'[h] # "unused"
  BY <1>2, <1>3, <1>4, <1>5, <1>7
  DEF ArtboardCommand, DeleteArtboard, SetArtboardSize, ListStateMachines, InstantiateArtboard,
      GetDefaultViewModel
<1>8. ASSUME MachineCommand PROVE told'[h] # "unused"
  BY <1>2, <1>3, <1>4, <1>5, <1>8
  DEF MachineCommand, DeleteStateMachine, AdvanceStateMachine, PointerEvent,
      InstantiateStateMachine, BindViewModelInstance
<1>9. ASSUME PropertyCommand PROVE told'[h] # "unused"
  BY <1>1, <1>2, <1>3, <1>4, <1>5, <1>9
  DEF PropertyCommand, DeleteViewModel, Unsubscribe, ListViewModelPropertyValue,
      ViewModelCommand, InstantiateViewModel, RefNestedViewModel, RefListViewModel,
      RefViewModel, AddListValue, SetViewModelInstanceValue
<1> QED
  BY <1>6, <1>7, <1>8, <1>9 DEF Next

(* How the vectors of machines change.                                     *)
LEMMA VectorMoves ==
    ASSUME IInv, Next
    PROVE  \/ UNCHANGED m_artboardDependencies
           \/ \A a \in Artboards : m_artboardDependencies'[a] \in {<<>>, m_artboardDependencies[a]}
           \/ \E a \in Artboards, s \in StateMachines \ Used :
                 /\ s \in Used'
                 /\ m_artboardDependencies' =
                       [m_artboardDependencies EXCEPT ![a] = Append(@, s)]
<1> DEFINE Shrinks ==
        \A a \in Artboards : m_artboardDependencies'[a] \in {<<>>, m_artboardDependencies[a]}
<1>1. m_artboardDependencies \in [Artboards -> Seq(StateMachines)]
  BY DEF IInv, TypeOK
<1>2. \A as : Cleanup(as) => Shrinks
  BY DEF Cleanup
<1>3. \A h, e : Refuse(h, e) => UNCHANGED m_artboardDependencies
  BY DEF Refuse, dependencies
<1>4. \A reply : Reply(reply) => UNCHANGED m_artboardDependencies
  BY DEF Reply, dependencies
<1>5. CASE FileCommand
  BY <1>2, <1>3, <1>4, <1>5 DEF FileCommand, LoadFile, DeleteFile, FileQuery
<1>6. CASE ArtboardCommand
  <2> PICK a \in Artboards :
          \/ DeleteArtboard(a) \/ SetArtboardSize(a) \/ ListStateMachines(a)
          \/ \E f \in Files : InstantiateArtboard(a, f) \/ GetDefaultViewModel(f, a)
    BY <1>6 DEF ArtboardCommand
  <2>1. CASE DeleteArtboard(a)
    BY <2>1, <1>2 DEF DeleteArtboard
  <2>2. CASE SetArtboardSize(a) \/ ListStateMachines(a) \/ \E f \in Files : GetDefaultViewModel(f, a)
    BY <2>2, <1>4 DEF SetArtboardSize, ListStateMachines, GetDefaultViewModel
  <2>3. CASE \E f \in Files : InstantiateArtboard(a, f)
    BY <1>1, <1>3, <2>3 DEF InstantiateArtboard
  <2> QED
    BY <2>1, <2>2, <2>3
<1>7. CASE MachineCommand
  <2> PICK s \in StateMachines :
          \/ DeleteStateMachine(s) \/ AdvanceStateMachine(s) \/ PointerEvent(s)
          \/ \E a \in Artboards : InstantiateStateMachine(s, a)
          \/ \E v \in ViewModels : BindViewModelInstance(s, v)
    BY <1>7 DEF MachineCommand
  <2>1. CASE DeleteStateMachine(s)
    BY <2>1 DEF DeleteStateMachine, dependencies
  <2>2. CASE AdvanceStateMachine(s) \/ PointerEvent(s) \/ \E v \in ViewModels : BindViewModelInstance(s, v)
    BY <2>2, <1>4 DEF AdvanceStateMachine, PointerEvent, BindViewModelInstance
  <2>3. CASE \E a \in Artboards : InstantiateStateMachine(s, a)
    <3>1. PICK a \in Artboards : InstantiateStateMachine(s, a)
      BY <2>3
    <3>2. CASE Refuse(s, Error(a))
      BY <3>2, <1>3
    <3>3. CASE ~Refuse(s, Error(a))
      <4>1. /\ s \in StateMachines \ Used
            /\ m_artboardDependencies' = [m_artboardDependencies EXCEPT ![a] = Append(@, s)]
            /\ told' = [told EXCEPT ![s] = "made"]
        BY <3>1, <3>3 DEF InstantiateStateMachine, Make
      <4>2. s \in Used'
        BY <4>1 DEF Used, IInv, TypeOK, Handles
      <4> QED
        BY <4>1, <4>2
    <3> QED
      BY <3>2, <3>3
  <2> QED
    BY <2>1, <2>2, <2>3
<1>8. CASE PropertyCommand
  BY <1>3, <1>4, <1>8
  DEF PropertyCommand, DeleteViewModel, Unsubscribe, ListViewModelPropertyValue,
      ViewModelCommand, InstantiateViewModel, RefNestedViewModel, RefListViewModel,
      RefViewModel, AddListValue, SetViewModelInstanceValue, dependencies
<1> QED
  BY <1>5, <1>6, <1>7, <1>8 DEF Next

LEMMA NoTwiceStep ==
    ASSUME IInv, NoTwice, [Next]_vars
    PROVE  NoTwice'
<1>1. CASE UNCHANGED vars
  BY <1>1 DEF NoTwice, vars, dependencies, Used
<1>2. CASE Next
  <2> SUFFICES ASSUME NEW a \in Artboards
               PROVE  LET v == m_artboardDependencies'[a] IN
                      /\ \A i \in DOMAIN v : v[i] \in Used'
                      /\ \A i, j \in DOMAIN v : v[i] = v[j] => i = j
    BY DEF NoTwice
  <2> DEFINE old == m_artboardDependencies[a]
             new == m_artboardDependencies'[a]
  <2>1. Used \subseteq Used'
    BY <1>2, UsedStays
  <2>2. /\ \A i \in DOMAIN old : old[i] \in Used
        /\ \A i, j \in DOMAIN old : old[i] = old[j] => i = j
    BY DEF NoTwice
  <2>3. old \in Seq(StateMachines)
    BY DEF IInv, TypeOK
  <2>4. ASSUME new = old
        PROVE  /\ \A i \in DOMAIN new : new[i] \in Used'
               /\ \A i, j \in DOMAIN new : new[i] = new[j] => i = j
    BY <2>1, <2>2, <2>4
  <2>5. ASSUME new = <<>>
        PROVE  /\ \A i \in DOMAIN new : new[i] \in Used'
               /\ \A i, j \in DOMAIN new : new[i] = new[j] => i = j
    BY <2>5
  <2>6. ASSUME NEW s \in StateMachines \ Used, s \in Used', new = Append(old, s)
        PROVE  /\ \A i \in DOMAIN new : new[i] \in Used'
               /\ \A i, j \in DOMAIN new : new[i] = new[j] => i = j
    <3>1. /\ DOMAIN old = 1..Len(old) /\ DOMAIN new = 1..Len(old) + 1 /\ Len(old) \in Nat
          /\ new[Len(old) + 1] = s /\ \A i \in 1..Len(old) : new[i] = old[i]
      BY <2>3, <2>6
    <3>2. \A i \in 1..Len(old) : new[i] \in Used
      BY <2>2, <3>1
    <3>3. \A i \in 1..Len(old) + 1 : i \in 1..Len(old) \/ i = Len(old) + 1
      BY <3>1
    <3> HIDE DEF new, old
    <3>4. \A i \in DOMAIN new : new[i] \in Used'
      BY <2>1, <2>6, <3>1, <3>2, <3>3
    <3>5. \A i, j \in DOMAIN new : new[i] = new[j] => i = j
      BY <2>2, <3>1, <3>2, <3>3
    <3> QED
      BY <3>4, <3>5
  <2>7. \/ new \in {<<>>, old}
        \/ \E s \in StateMachines \ Used : s \in Used' /\ new = Append(old, s)
    <3>1. m_artboardDependencies \in [Artboards -> Seq(StateMachines)]
      BY DEF IInv, TypeOK
    <3> QED
      BY <1>2, <3>1, VectorMoves
  <2> HIDE DEF new, old
  <2>8. /\ \A i \in DOMAIN new : new[i] \in Used'
        /\ \A i, j \in DOMAIN new : new[i] = new[j] => i = j
    <3>1. CASE new \in {<<>>, old}
      BY <2>4, <2>5, <3>1
    <3>2. CASE \E s \in StateMachines \ Used : s \in Used' /\ new = Append(old, s)
      BY <2>6, <3>2, Zenon
    <3> QED
      BY <2>7, <3>1, <3>2
  <2> QED
    BY <2>8 DEF new
<1> QED
  BY <1>1, <1>2

(* The places of an artboard's vector that cleanupArtboard reports.        *)
Places(a) == {i \in DOMAIN m_artboardDependencies[a] : m_artboardDependencies[a][i] \in m_stateMachines}

(* What a live artboard's deletion reports: its live machines, each at one *)
(* place, and then the artboard.                                           *)
LEMMA CleanupTells ==
    ASSUME IInv, NoTwice, NEW a \in m_artboards
    PROVE  \E n \in Nat :
              /\ DOMAIN CleanupMessages(a) = 1..n + 1
              /\ CleanupMessages(a)[n + 1] = Msg("artboardDeleted", a)
              /\ \A i \in 1..n : \E s \in m_stateMachines :
                    CleanupMessages(a)[i] = Msg("stateMachineDeleted", s)
              /\ \A s \in MachinesOf({a}) :
                    \E i \in 1..n : \A j \in 1..n :
                        CleanupMessages(a)[j].handle = s <=> j = i
<1> DEFINE v == m_artboardDependencies[a]
           P == Places(a)
           n == Cardinality(P)
           at == InOrder(P)
           w == [i \in 1..n |-> Msg("stateMachineDeleted", v[at[i]])]
           c == CleanupMessages(a)
<1>1. a \in Artboards /\ v \in Seq(StateMachines) /\ Len(v) \in Nat /\ DOMAIN v = 1..Len(v)
  BY DEF IInv, TypeOK
<1>2. P \in SUBSET (1..Len(v)) /\ \A i \in P : v[i] \in m_stateMachines
  BY <1>1 DEF Places
<1>3. /\ n \in Nat /\ at \in [1..n -> P]
      /\ \A i, j \in 1..n : i < j => at[i] < at[j]
      /\ \A p \in P : \E i \in 1..n : at[i] = p
  <2> HIDE DEF P
  <2> QED
    BY <1>1, <1>2, InOrderEnumerates
<1>4. c = Append(w, Msg("artboardDeleted", a))
  <2>1. DOMAIN at = 1..n
    BY <1>3
  <2>2. StillLive(v) = [i \in 1..n |-> v[at[i]]]
    BY <2>1 DEF StillLive, Places
  <2>3. c = Append([i \in DOMAIN StillLive(v) |-> Msg("stateMachineDeleted", StillLive(v)[i])],
                   Msg("artboardDeleted", a))
    BY DEF CleanupMessages
  <2>4. [i \in DOMAIN StillLive(v) |-> Msg("stateMachineDeleted", StillLive(v)[i])] = w
    <3> HIDE DEF at, n, v
    <3> QED
      BY <2>2
  <2> QED
    BY <2>3, <2>4
<1> HIDE DEF P, n, at, v, c
<1>5. w \in Seq({Msg("stateMachineDeleted", s) : s \in m_stateMachines}) /\ Len(w) = n
  <2> DEFINE M == {Msg("stateMachineDeleted", s) : s \in m_stateMachines}
  <2>1. \A i \in 1..n : at[i] \in P
    BY <1>3
  <2>2. \A i \in 1..n : Msg("stateMachineDeleted", v[at[i]]) \in M
    BY <1>2, <2>1
  <2> HIDE DEF M
  <2>3. w \in [1..n -> M]
    BY <2>2
  <2>4. w \in Seq(M) /\ Len(w) = n
    BY <1>3, <2>3
  <2> QED
    BY <2>4 DEF M
<1>6. /\ DOMAIN c = 1..n + 1 /\ c[n + 1] = Msg("artboardDeleted", a)
      /\ \A i \in 1..n : c[i] = Msg("stateMachineDeleted", v[at[i]])
  BY <1>3, <1>4, <1>5
<1>7. \A i \in 1..n : v[at[i]] \in m_stateMachines
  BY <1>2, <1>3
<1>8. \A s \in MachinesOf({a}) :
          \E i \in 1..n : \A j \in 1..n : c[j].handle = s <=> j = i
  <2> SUFFICES ASSUME NEW s \in MachinesOf({a})
               PROVE  \E i \in 1..n : \A j \in 1..n : c[j].handle = s <=> j = i
    OBVIOUS
  <2>1. PICK p \in P : v[p] = s
    BY DEF MachinesOf, Elements, Places, P, v
  <2>2. PICK i \in 1..n : at[i] = p
    BY <1>3
  <2>3. ASSUME NEW j \in 1..n
        PROVE  c[j].handle = s <=> j = i
    <3>1. c[j].handle = v[at[j]]
      <4>1. c[j] = Msg("stateMachineDeleted", v[at[j]])
        BY <1>6
      <4> QED
        BY <4>1 DEF Msg
    <3>2. at[j] \in P /\ at[j] \in Int /\ at[i] \in Int
      <4>1. at[j] \in P /\ at[i] \in P
        BY <1>3
      <4>2. at[j] \in 1..Len(v) /\ at[i] \in 1..Len(v)
        BY <1>2, <4>1
      <4> QED
        BY <4>1, <4>2
    <3>3. v[at[j]] = s <=> at[j] = p
      BY <1>1, <1>2, <2>1, <3>2 DEF NoTwice, v
    <3>4. at[j] = at[i] <=> j = i
      BY <1>3, <3>2
    <3> QED
      BY <2>2, <3>1, <3>3, <3>4
  <2> QED
    BY <2>3
<1> QED
  BY <1>3, <1>6, <1>7, <1>8 DEF c

(* A deletion that finds no object writes what it would write anyway, or   *)
(* nothing: it never reports an error.                                     *)
LEMMA CleanupIsNoError ==
    ASSUME IInv, NoTwice, NEW a \in Artboards, NEW i \in DOMAIN CleanupMessages(a)
    PROVE  CleanupMessages(a)[i].name \notin Errors
<1>1. CASE a \in m_artboards
  <2>1. PICK n \in Nat :
              /\ DOMAIN CleanupMessages(a) = 1..n + 1
              /\ CleanupMessages(a)[n + 1] = Msg("artboardDeleted", a)
              /\ \A j \in 1..n : \E s \in m_stateMachines :
                    CleanupMessages(a)[j] = Msg("stateMachineDeleted", s)
    BY <1>1, CleanupTells
  <2>2. CASE i = n + 1
    BY <2>1, <2>2 DEF Msg, Errors
  <2>3. CASE i # n + 1
    <3>1. i \in 1..n
      BY <2>1, <2>3
    <3>2. PICK s \in m_stateMachines : CleanupMessages(a)[i] = Msg("stateMachineDeleted", s)
      BY <2>1, <3>1
    <3> QED
      BY <3>2 DEF Msg, Errors
  <2> QED
    BY <2>2, <2>3
<1>2. CASE a \notin m_artboards
  BY <1>2 DEF CleanupMessages
<1> QED
  BY <1>1, <1>2

(* The single message of a command that changes a table.                   *)
LEMMA OneMessage ==
    ASSUME NEW name, name \notin Errors, NEW h, messages' = <<Msg(name, h)>>
    PROVE  /\ \A i \in DOMAIN messages' : messages'[i].name \notin Errors
           /\ DOMAIN messages' = {1} /\ messages'[1] = Msg(name, h)
  BY DEF Msg

(* A command that reports an error has changed no table.                   *)
LEMMA CleanStep ==
    ASSUME IInv, NoTwice, [Next]_vars, NEW i \in DOMAIN messages', messages'[i].name \in Errors,
           vars' # vars
    PROVE  UNCHANGED <<tables, dependencies>>
<1>1. \A h, e : Refuse(h, e) => UNCHANGED <<tables, dependencies>>
  BY DEF Refuse
<1>2. \A reply : Reply(reply) => UNCHANGED <<tables, dependencies>>
  BY DEF Reply
<1>3. \A h, p, name : Make(h, p, name) => messages' = <<Msg(name, p)>>
  BY DEF Make
<1>4. \A name, h : name \notin Errors => messages' # <<Msg(name, h)>>
  BY OneMessage
<1>5. CASE FileCommand
  <2> PICK f \in Files :
          LoadFile(f) \/ DeleteFile(f) \/ \E op \in FileQueries : FileQuery(op, f)
    BY <1>5 DEF FileCommand
  <2>1. CASE LoadFile(f)
    BY <2>1, <1>1, <1>4 DEF LoadFile, Errors
  <2>2. ~DeleteFile(f)
    <3>1. AllCleanupMessages(m_fileDependencies[f]) = <<>>
      BY DEF AllCleanupMessages, IInv, NoFileVector
    <3>2. Append(<<>>, Msg("fileDeleted", f)) = <<Msg("fileDeleted", f)>>
      OBVIOUS
    <3> QED
      BY <3>1, <3>2, <1>4 DEF DeleteFile, Errors
  <2>3. CASE \E op \in FileQueries : FileQuery(op, f)
    BY <2>3, <1>2 DEF FileQuery
  <2> QED
    BY <2>1, <2>2, <2>3
<1>6. CASE ArtboardCommand
  <2> PICK a \in Artboards :
          \/ DeleteArtboard(a) \/ SetArtboardSize(a) \/ ListStateMachines(a)
          \/ \E f \in Files : InstantiateArtboard(a, f) \/ GetDefaultViewModel(f, a)
    BY <1>6 DEF ArtboardCommand
  <2>1. ~DeleteArtboard(a)
    BY CleanupIsNoError DEF DeleteArtboard
  <2>2. CASE SetArtboardSize(a) \/ ListStateMachines(a) \/ \E f \in Files : GetDefaultViewModel(f, a)
    BY <2>2, <1>2 DEF SetArtboardSize, ListStateMachines, GetDefaultViewModel
  <2>3. CASE \E f \in Files : InstantiateArtboard(a, f)
    BY <2>3, <1>1, <1>3, <1>4 DEF InstantiateArtboard, Errors
  <2> QED
    BY <2>1, <2>2, <2>3
<1>7. CASE MachineCommand
  BY <1>1, <1>2, <1>3, <1>4, <1>7
  DEF MachineCommand, DeleteStateMachine, AdvanceStateMachine, PointerEvent,
      InstantiateStateMachine, BindViewModelInstance, Errors
<1>8. CASE PropertyCommand
  <2>1. ASSUME NEW v, NEW root, NEW to, RefViewModel(v, root, to)
        PROVE  UNCHANGED <<tables, dependencies>>
    BY <1>1, <2>1 DEF RefViewModel
  <2>2. ASSUME NEW v, NEW f, NEW a, InstantiateViewModel(v, f, a)
        PROVE  UNCHANGED <<tables, dependencies>>
    BY <1>1, <1>3, <1>4, <2>2 DEF InstantiateViewModel, Errors
  <2>3. \A v : ~DeleteViewModel(v)
    BY <1>4 DEF DeleteViewModel, Errors
  <2> QED
    BY <1>2, <1>8, <2>1, <2>2, <2>3
    DEF PropertyCommand, Unsubscribe, ListViewModelPropertyValue, ViewModelCommand,
        RefNestedViewModel, RefListViewModel, AddListValue, SetViewModelInstanceValue
<1> QED
  BY <1>5, <1>6, <1>7, <1>8 DEF Next

(* What a step removes is told in it, once, a machine before its artboard. *)
LEMMA ToldStep ==
    ASSUME IInv, NoTwice, Next, NEW h \in Live \ Live'
    PROVE  \E i \in ToldAt(h) :
              /\ ToldAt(h) = {i}
              /\ \A j \in ToldAt(parent[h]) : h \in StateMachines => i < j
<1>1. ASSUME NEW name \in Deletions, messages' = <<Msg(name, h)>>,
             h \in StateMachines => parent[h] # h
      PROVE  \E i \in ToldAt(h) :
                /\ ToldAt(h) = {i}
                /\ \A j \in ToldAt(parent[h]) : h \in StateMachines => i < j
  <2>1. DOMAIN messages' = {1} /\ messages'[1].name = name /\ messages'[1].handle = h
    BY <1>1 DEF Msg
  <2>2. \A g : g # h => ToldAt(g) = {}
    BY <2>1 DEF ToldAt
  <2>3. ToldAt(h) = {1}
    BY <1>1, <2>1 DEF ToldAt
  <2> QED
    BY <1>1, <2>2, <2>3
<1>2. \A g, e : Refuse(g, e) => FALSE
  BY DEF Refuse, tables, Live
<1>3. \A reply : Reply(reply) => FALSE
  BY DEF Reply, tables, Live
<1>4. h \in Handles
  BY DEF Live, IInv, TypeOK, Handles
<1>5. CASE FileCommand
  <2>1. PICK f \in Files : LoadFile(f) \/ DeleteFile(f)
    BY <1>3, <1>5 DEF FileCommand, FileQuery
  <2>2. ~LoadFile(f)
    BY <1>2 DEF LoadFile, Live
  <2>3. m_fileDependencies[f] = <<>>
    BY DEF IInv, NoFileVector
  <2>4. Elements(<<>>) = {}
    BY DEF Elements
  <2>5. Cleanup({}) => UNCHANGED <<m_artboards, m_stateMachines>>
    BY DEF Cleanup, MachinesOf
  <2>6. h = f /\ messages' = <<Msg("fileDeleted", f)>>
    <3>1. Append(<<>>, Msg("fileDeleted", f)) = <<Msg("fileDeleted", f)>>
      OBVIOUS
    <3>2. AllCleanupMessages(<<>>) = <<>>
      BY DEF AllCleanupMessages
    <3> QED
      BY <2>1, <2>2, <2>3, <2>4, <2>5, <3>1, <3>2 DEF DeleteFile, Live
  <2> QED
    BY <1>1, <2>6, HandleAssumption DEF Deletions
<1>6. CASE ArtboardCommand
  <2>1. \A a, f : InstantiateArtboard(a, f) => FALSE
    BY <1>2 DEF InstantiateArtboard, Live
  <2>2. PICK a \in Artboards : DeleteArtboard(a)
    BY <1>3, <1>6, <2>1 DEF ArtboardCommand, SetArtboardSize, ListStateMachines, GetDefaultViewModel
  <2>3. a \in m_artboards /\ h \in {a} \cup MachinesOf({a})
    BY <2>2 DEF DeleteArtboard, Cleanup, Live, MachinesOf
  <2>4. messages' = CleanupMessages(a)
    BY <2>2 DEF DeleteArtboard
  <2>5. PICK n \in Nat :
            /\ DOMAIN messages' = 1..n + 1
            /\ messages'[n + 1] = Msg("artboardDeleted", a)
            /\ \A i \in 1..n : \E s \in m_stateMachines : messages'[i] = Msg("stateMachineDeleted", s)
            /\ \A s \in MachinesOf({a}) :
                  \E i \in 1..n : \A j \in 1..n : messages'[j].handle = s <=> j = i
    <3> DEFINE c == CleanupMessages(a)
    <3>1. \E n \in Nat :
              /\ DOMAIN c = 1..n + 1 /\ c[n + 1] = Msg("artboardDeleted", a)
              /\ \A i \in 1..n : \E s \in m_stateMachines : c[i] = Msg("stateMachineDeleted", s)
              /\ \A s \in MachinesOf({a}) :
                    \E i \in 1..n : \A j \in 1..n : c[j].handle = s <=> j = i
      BY <2>3, CleanupTells
    <3>2. messages' = c
      BY <2>4
    <3> HIDE DEF c
    <3> QED
      BY <3>1, <3>2, Zenon
  <2>6. messages'[n + 1].name = "artboardDeleted" /\ messages'[n + 1].handle = a
    BY <2>5 DEF Msg
  <2>7. \A i \in 1..n : messages'[i].name = "stateMachineDeleted" /\ messages'[i].handle \in StateMachines
    <3> SUFFICES ASSUME NEW i \in 1..n
                 PROVE  /\ messages'[i].name = "stateMachineDeleted"
                        /\ messages'[i].handle \in StateMachines
      OBVIOUS
    <3>1. PICK s \in m_stateMachines : messages'[i] = Msg("stateMachineDeleted", s)
      BY <2>5
    <3> QED
      BY <3>1 DEF Msg, IInv, TypeOK
  <2>8. \A g \in Artboards : ToldAt(g) \subseteq {n + 1}
    <3> SUFFICES ASSUME NEW g \in Artboards, NEW i \in ToldAt(g)
                 PROVE  i = n + 1
      OBVIOUS
    <3>1. i \in 1..n + 1 /\ messages'[i].handle = g
      BY <2>5 DEF ToldAt
    <3>2. i \notin 1..n
      BY <2>7, <3>1, HandleAssumption
    <3> QED
      BY <3>1, <3>2
  <2>9. CASE h = a
    <3>1. n + 1 \in ToldAt(a)
      BY <2>5, <2>6 DEF ToldAt, Deletions
    <3> QED
      BY <2>8, <2>9, <3>1, HandleAssumption
  <2>10. CASE h \in MachinesOf({a})
    <3>1. h \in m_stateMachines /\ h \in StateMachines /\ parent[h] \in Artboards
      BY <2>10 DEF MachinesOf, IInv, TypeOK, Anchored
    <3>2. PICK i \in 1..n : \A j \in 1..n : messages'[j].handle = h <=> j = i
      BY <2>5, <2>10
    <3>3. i \in ToldAt(h)
      BY <2>5, <2>7, <3>2 DEF ToldAt, Deletions
    <3>4. ToldAt(h) \subseteq {i}
      <4> SUFFICES ASSUME NEW j \in ToldAt(h)
                   PROVE  j = i
        OBVIOUS
      <4>1. j \in 1..n + 1 /\ messages'[j].handle = h
        BY <2>5 DEF ToldAt
      <4>2. j # n + 1
        BY <2>6, <3>1, <4>1, HandleAssumption
      <4> QED
        BY <3>2, <4>1, <4>2
    <3>5. \A j \in ToldAt(parent[h]) : i < j
      BY <2>8, <3>1
    <3> QED
      BY <3>3, <3>4, <3>5
  <2> QED
    BY <2>3, <2>9, <2>10
<1>7. CASE MachineCommand
  <2>1. \A s, a : InstantiateStateMachine(s, a) => FALSE
    BY <1>2 DEF InstantiateStateMachine, Live
  <2>2. PICK s \in StateMachines : DeleteStateMachine(s)
    BY <1>3, <1>7, <2>1 DEF MachineCommand, AdvanceStateMachine, PointerEvent, BindViewModelInstance
  <2>3. h = s /\ h \in m_stateMachines
    BY <2>2 DEF DeleteStateMachine, Live, dependencies
  <2>4. parent[h] # h
    BY <2>2, <2>3, HandleAssumption DEF IInv, TypeOK, Anchored
  <2> QED
    BY <1>1, <2>2, <2>3, <2>4 DEF DeleteStateMachine, Deletions
<1>8. CASE PropertyCommand
  <2>1. \A v, f, a : InstantiateViewModel(v, f, a) => FALSE
    BY <1>2 DEF InstantiateViewModel, Live
  <2>2. \A v, root, to : RefViewModel(v, root, to) => FALSE
    BY <1>2 DEF RefViewModel, Live
  <2>3. PICK v \in ViewModels : DeleteViewModel(v)
    BY <1>3, <1>8, <2>1, <2>2
    DEF PropertyCommand, Unsubscribe, ListViewModelPropertyValue, ViewModelCommand,
        RefNestedViewModel, RefListViewModel, AddListValue, SetViewModelInstanceValue
  <2>4. h = v
    BY <2>3 DEF DeleteViewModel, Live
  <2> QED
    BY <1>1, <2>3, <2>4, HandleAssumption DEF DeleteViewModel, Deletions
<1> QED
  BY <1>5, <1>6, <1>7, <1>8 DEF Next

(* An artboard's vector names a machine once, so that no deletion is told  *)
(* twice (cleanupArtboard).                                                *)
THEOREM NothingTwice == Spec => []NoTwice
<1>1. Init => NoTwice
  BY DEF Init, NoTwice
<1>2. IInv /\ NoTwice /\ [Next]_vars => NoTwice'
  BY NoTwiceStep
<1> QED
  BY <1>1, <1>2, Invariance, PTL DEF Spec

(* A command that reports an error has registered, deleted and linked      *)
(* nothing, at whichever of its look-ups it failed (processCommands).      *)
THEOREM FailuresAreClean == Spec => FailureIsClean
<1>1. IInv /\ NoTwice /\ [Next]_vars =>
        [(\E i \in DOMAIN messages' : messages'[i].name \in Errors)
            => UNCHANGED <<tables, dependencies>>]_vars
  BY CleanStep
<1> QED
  BY <1>1, Invariance, NothingTwice, PTL DEF Spec, FailureIsClean

(* Whatever leaves a map is reported, once, in the command that removes it *)
(* and a machine before its artboard, also when some machines of the       *)
(* artboard were deleted before (cleanupArtboard).                         *)
THEOREM DeletionsAreAnnounced == Spec => DeletionsAreTold
<1>1. IInv /\ NoTwice /\ [Next]_vars =>
        [\A h \in Live \ Live' :
            \E i \in ToldAt(h) :
                /\ ToldAt(h) = {i}
                /\ \A j \in ToldAt(parent[h]) : h \in StateMachines => i < j]_vars
  BY ToldStep
<1> QED
  BY <1>1, Invariance, NothingTwice, PTL DEF Spec, DeletionsAreTold

-----------------------------------------------------------------------------
(* File assets: a file is given the object last registered under a name,   *)
(* for any kinds, handles and names (FileAssets).                          *)

(* Names lead only to used handles (AssetsTypeOK), so that a new object    *)
(* cannot bring to life a name that a deletion left behind.                *)
LoaderInv == AssetsTypeOK /\ ResolvesLast

LEMMA DecodeAssetStep ==
    ASSUME LoaderInv, NEW a \in Assets, Decode(a)
    PROVE  LoaderInv'
<1>1. /\ a \notin used /\ used' = used \cup {a} /\ m_live' \in {m_live, m_live \cup {a}}
      /\ m_names' = m_names /\ expected' = expected
  BY DEF Decode
<1>2. AssetsTypeOK'
  BY <1>1 DEF LoaderInv, AssetsTypeOK
<1>3. \A k \in Kinds, n \in Names : m_names[k][n] # a
  BY <1>1, NoAssetAssumption DEF LoaderInv, AssetsTypeOK
<1>4. ResolvesLast'
  BY <1>1, <1>3 DEF LoaderInv, ResolvesLast, LoadContents
<1> QED
  BY <1>2, <1>4 DEF LoaderInv

LEMMA DeleteAssetStep ==
    ASSUME LoaderInv, NEW a \in Assets, DeleteAsset(a)
    PROVE  LoaderInv'
<1>1. /\ m_live' = m_live \ {a} /\ used' = used
      /\ expected' = [k \in Kinds |->
            [n \in Names |-> IF expected[k][n] = a THEN NoAsset ELSE expected[k][n]]]
  BY DEF DeleteAsset
<1>2. KindOf[a] \in Kinds
  BY KindAssumption
<1>3. /\ m_names' \in [Kinds -> [Names -> Assets \cup {NoAsset}]]
      /\ \A k \in Kinds, n \in Names :
            \/ m_names'[k][n] = m_names[k][n]
            \/ m_names'[k][n] = NoAsset /\ m_names[k][n] = a
  <2>1. CASE NamesOf(a) = {}
    BY <2>1 DEF DeleteAsset, RemoveFirst, LoaderInv, AssetsTypeOK
  <2>2. CASE NamesOf(a) # {}
    <3>1. PICK n \in NamesOf(a) : m_names' = [m_names EXCEPT ![KindOf[a]][n] = NoAsset]
      BY <2>2 DEF DeleteAsset, RemoveFirst
    <3>2. n \in Names /\ m_names[KindOf[a]][n] = a
      BY <3>1 DEF NamesOf
    <3> QED
      BY <1>2, <3>1, <3>2 DEF LoaderInv, AssetsTypeOK
  <2> QED
    BY <2>1, <2>2
<1>4. AssetsTypeOK'
  <2>1. expected' \in [Kinds -> [Names -> Assets \cup {NoAsset}]]
    BY <1>1 DEF LoaderInv, AssetsTypeOK
  <2> QED
    BY <1>1, <1>3, <2>1 DEF LoaderInv, AssetsTypeOK
<1>5. ResolvesLast'
  <2> SUFFICES ASSUME NEW k \in Kinds, NEW n \in Names
               PROVE  LoadContents(k, n)' = expected'[k][n]
    BY DEF ResolvesLast
  <2>1. expected'[k][n] = IF expected[k][n] = a THEN NoAsset ELSE expected[k][n]
    BY <1>1
  <2>2. expected[k][n] = IF m_names[k][n] \in m_live THEN m_names[k][n] ELSE NoAsset
    BY DEF LoaderInv, ResolvesLast, LoadContents
  <2>3. NoAsset \notin m_live
    BY NoAssetAssumption DEF LoaderInv, AssetsTypeOK
  <2> QED
    BY <1>1, <1>3, <2>1, <2>2, <2>3 DEF LoadContents
<1> QED
  BY <1>4, <1>5 DEF LoaderInv

(* An entry set to a handle of its kind that has an object, or to NoAsset.    *)
LEMMA NameEntryStep ==
    ASSUME LoaderInv, NEW k \in Kinds, NEW n \in Names, NEW a \in m_live \cup {NoAsset},
           a = NoAsset \/ KindOf[a] = k,
           m_names' = [m_names EXCEPT ![k][n] = a],
           expected' = [expected EXCEPT ![k][n] = a],
           UNCHANGED <<m_live, used>>
    PROVE  LoaderInv'
<1>1. a \in used \cup {NoAsset} /\ a \in Assets \cup {NoAsset}
  BY DEF LoaderInv, AssetsTypeOK
<1>2. AssetsTypeOK'
  BY <1>1 DEF LoaderInv, AssetsTypeOK
<1>3. NoAsset \notin m_live
  BY NoAssetAssumption DEF LoaderInv, AssetsTypeOK
<1>4. ResolvesLast'
  BY <1>1, <1>3 DEF LoaderInv, AssetsTypeOK, ResolvesLast, LoadContents
<1> QED
  BY <1>2, <1>4 DEF LoaderInv

LEMMA LoaderInit == AssetsInit => LoaderInv
  BY NoAssetAssumption DEF AssetsInit, NoNames, LoaderInv, AssetsTypeOK, ResolvesLast, LoadContents

LEMMA LoaderStep == LoaderInv /\ [AssetsNext]_assetVars => LoaderInv'
<1> SUFFICES ASSUME LoaderInv, [AssetsNext]_assetVars PROVE LoaderInv'
  OBVIOUS
<1>1. CASE UNCHANGED assetVars
  BY <1>1 DEF assetVars, LoaderInv, AssetsTypeOK, ResolvesLast, LoadContents
<1>2. CASE \E a \in Assets, n \in Names : AddFileAsset(a, n)
  <2>1. PICK a \in Assets, n \in Names : AddFileAsset(a, n)
    BY <1>2
  <2>2. CASE a \in m_live
    BY <2>1, <2>2, NameEntryStep, KindAssumption DEF AddFileAsset
  <2>3. CASE a \notin m_live
    BY <2>1, <2>3 DEF AddFileAsset, LoaderInv, AssetsTypeOK, ResolvesLast, LoadContents
  <2> QED
    BY <2>2, <2>3
<1>3. CASE \E k \in Kinds, n \in Names : RemoveFileAsset(k, n)
  BY <1>3, NameEntryStep DEF RemoveFileAsset
<1> QED
  BY <1>1, <1>2, <1>3, DecodeAssetStep, DeleteAssetStep DEF AssetsNext

(* A file that is imported gets, under each name, the object last          *)
(* registered there and not deleted or removed since (loadContents).       *)
THEOREM FilesGetTheLatest == AssetsSpec => []ResolvesLast
<1>1. LoaderInv => ResolvesLast
  BY DEF LoaderInv
<1> QED
  BY <1>1, LoaderInit, LoaderStep, PTL DEF AssetsSpec
=============================================================================
