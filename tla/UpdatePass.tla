----------------------------- MODULE UpdatePass -----------------------------
(* The update pass of an artboard: the dependency order of its components  *)
(* (dependency_sorter.cpp), dirt and its propagation (component.cpp,       *)
(* transform_component.cpp), solos that collapse all children but one      *)
(* (solo.cpp), and the loop that updates what is dirty in that order and   *)
(* starts again when an update dirties something before it                 *)
(* (Artboard::updateComponents).                                           *)
(*                                                                         *)
(* Components are 1..N, the artboard first.  Every tree, every choice of   *)
(* constraints and of solos is an initial state.  A transform is a number, *)
(* and a world transform the values that it was computed from, so that a   *)
(* stale one is seen.                                                      *)
EXTENDS Integers, Sequences, FiniteSets

CONSTANTS
    N,              \* the components are 1..N, 1 the artboard
    Trees,          \* the trees that are considered: component -> its parent
    MaxConstraints, \* bound: how many components are constrained
    MaxSteps,       \* bound on the passes of one update (100 in the code)
    MaxChanges      \* bound: the changes made by the host and by updates

Components == 1..N
None == 0

ASSUME SizeAssumption == N \in Nat \ {0}

(* Each component but the artboard has a parent.  Numbers are given from   *)
(* the artboard down, as any tree allows.                                  *)
ASSUME TreeAssumption ==
    \A f \in Trees :
        f \in [Components -> 0..N] /\ f[1] = None /\ \A c \in 2..N : f[c] \in 1..(c - 1)

VARIABLES
    parent,         \* component -> its parent
    target,         \* component -> the target of its constraint, or None
    solos,          \* the components that are solos
    m_DependencyOrder,  \* what has been placed; its components are the sorter's m_Perm
    m_Temp, visiting, caller,  \* the sorter: visited, the visit under way, who made it
    active,         \* solo -> its active child
    x,              \* component -> the property its transform comes from
    offset,         \* component -> the offset that its scroll constraint adds
    m_Transform, m_WorldTransform,
    m_Dirt,         \* component -> its dirt
    collapsed,      \* the components with the Collapsed flag
    more,           \* the artboard has ComponentDirt::Components
    pc, i, step,    \* "loading", "sorting", "idle", "updating"; the next place, the pass
    changes         \* how many changes have been made

graph == <<parent, target, solos>>
sorter == <<m_DependencyOrder, m_Temp, visiting, caller>>
loop == <<pc, i, step>>
vars == <<graph, sorter, active, x, offset, m_Transform, m_WorldTransform, m_Dirt,
          collapsed, more, loop, changes>>

Children(c) == {d \in Components : parent[d] = c}
Dependents(c) == Children(c) \cup {d \in Components : target[d] = c}

-----------------------------------------------------------------------------
(* DependencySorter::visit.  The visits that are under way are a chain of  *)
(* callers; a component that has been placed returns at once.              *)

Sorted(c) == \E k \in DOMAIN m_DependencyOrder : m_DependencyOrder[k] = c
graphOrder(c) == CHOOSE k \in DOMAIN m_DependencyOrder : m_DependencyOrder[k] = c

(* The dependents of the component that are still to be visited.           *)
Pending == {d \in Dependents(visiting) : ~Sorted(d)}

(* MUTANT: a component is placed behind its dependents.                    *)
InsertEnd == m_DependencyOrder' = Append(m_DependencyOrder, visiting)

insertBegin == m_DependencyOrder' = <<visiting>> \o m_DependencyOrder

(* The next dependent is visited.  When it is being visited already there  *)
(* is a cycle, and all the visits under way return.                        *)
VisitDependent ==
    /\ pc = "sorting"
    /\ \E d \in Pending :
          /\ \A e \in Pending : d <= e
          /\ IF d \in m_Temp
             THEN pc' = "idle" /\ UNCHANGED <<m_Temp, visiting, caller>>
             ELSE /\ m_Temp' = m_Temp \cup {d} /\ visiting' = d
                  /\ caller' = [caller EXCEPT ![d] = visiting]
                  /\ UNCHANGED pc
    /\ UNCHANGED <<m_DependencyOrder, graph, active, x, offset, m_Transform,
                   m_WorldTransform, m_Dirt, collapsed, more, i, step, changes>>

(* Its dependents are placed, so it goes before all that has been placed.  *)
EndVisit ==
    /\ pc = "sorting" /\ Pending = {}
    /\ insertBegin
    /\ IF caller[visiting] = None THEN pc' = "idle" /\ visiting' = visiting
       ELSE visiting' = caller[visiting] /\ UNCHANGED pc
    /\ UNCHANGED <<m_Temp, caller, graph, active, x, offset, m_Transform,
                   m_WorldTransform, m_Dirt, collapsed, more, i, step, changes>>

-----------------------------------------------------------------------------
(* Dirt.                                                                   *)

(* addDirt(value, recurse) on each of cs: what becomes marked.  A          *)
(* component that is marked already does not tell its dependents again.    *)
Reached(D, cs, value) ==
    LET unmarked == {c \in Components : value \notin D[c]}
        Closed == {S \in SUBSET unmarked :
                      /\ cs \cap unmarked \subseteq S
                      /\ \A c \in S : Dependents(c) \cap unmarked \subseteq S}
    IN  {c \in unmarked : \A S \in Closed : c \in S}

Mark(D, cs, value) == [c \in Components |-> IF c \in cs THEN D[c] \cup {value} ELSE D[c]]

(* A change: the dirt, which components it marked, what is now collapsed,  *)
(* and the properties.                                                     *)
Change(D, marked, C, act, props) ==
    [dirt |-> D, marked |-> marked, collapsed |-> C, active |-> act, x |-> props]

(* The components above c, without the artboard.                           *)
Ancestors(c) ==
    LET Up[d \in Components] == IF d = 1 THEN {} ELSE ({parent[d]} \ {1}) \cup Up[parent[d]]
    IN  Up[c]

(* A property of c changes: markTransformDirty.                            *)
PropertyChanged(D, c) ==
    LET world == Reached(D, {c}, "World")
        props == [x EXCEPT ![c] = 3 - @]
    IN  IF "Transform" \in D[c] THEN Change(D, {}, collapsed, active, props)
        ELSE Change(Mark(Mark(D, {c}, "Transform"), world, "World"), world \cup {c},
                    collapsed, active, props)

(* Whether c is collapsed after collapse(value) on the children of s, TRUE *)
(* for those that hide, when E is what is collapsed then and its parent in *)
(* it.  A component tells its children what it has become when that is new *)
(* to it; a solo that is shown hides all but the active one.               *)
isCollapsed(c, E, C, s, hide, act) ==
    LET p == parent[c]
    IN  IF p = s THEN c \in hide
        ELSE IF p \in E <=> p \in C THEN c \in C
        ELSE p \in E \/ (p \in solos /\ c # act[p])

(* What is collapsed then, from the artboard down: flag[c] is {c} or {}.   *)
collapse(C, s, hide, act) ==
    LET flag[c \in Components] ==
            IF c = 1 THEN {}
            ELSE {d \in {c} : isCollapsed(d, flag[parent[c]], C, s, hide, act)}
    IN  UNION {flag[c] : c \in Components}

(* MUTANT: a constrained component is not told of its target's collapse.   *)
CollapseOnly(D, C, act) == Change(D, (C \ collapsed) \cup (collapsed \ C), C, act, x)

(* Each component that is collapsed, or no longer, dirties the constrained *)
(* components among its dependents (markDirtyIfConstrained).  A solo does  *)
(* not: its collapse is that of Component, not that of TransformComponent. *)
CollapseChanged(D, C, act) ==
    LET changed == (C \ collapsed) \cup (collapsed \ C)
        world == Reached(D, {d \in Components : target[d] # None /\
                                \E c \in changed \ solos : d \in Dependents(c)}, "World")
    IN  Change(Mark(D, world, "World"), changed \cup world, C, act, x)

(* MUTANT: a solo that is collapsed itself shows its child.                *)
ShowActive(C, s, act) == collapse(C, s, Children(s) \ {act[s]}, act)

(* Solo::propagateCollapse                                                 *)
propagateCollapse(C, s, act) ==
    collapse(C, s, IF s \in C THEN Children(s) ELSE Children(s) \ {act[s]}, act)

(* The active child of a solo changes: activeComponentIdChanged.           *)
ActiveChanged(D, s, child) ==
    LET act == [active EXCEPT ![s] = child]
    IN  CollapseChanged(D, propagateCollapse(collapsed, s, act), act)

-----------------------------------------------------------------------------
(* A file: a tree, constraints, solos, everything dirty.                   *)

Init ==
    /\ parent \in Trees
    /\ target \in {f \in [Components -> 0..N] :
                       /\ f[1] = None /\ \A c \in Components : f[c] \notin {c, 1}
                       /\ Cardinality({c \in Components : f[c] # None}) <= MaxConstraints}
    /\ solos \in SUBSET (2..N)
    /\ active \in {f \in [Components -> 0..N] :
                       \A c \in Components : IF c \in solos /\ Children(c) # {} THEN f[c] \in Children(c)
                                             ELSE f[c] = None}
    /\ m_DependencyOrder = <<>> /\ m_Temp = {1} /\ visiting = 1
    /\ caller = [c \in Components |-> None]
    /\ x = [c \in Components |-> 1] /\ offset = [c \in Components |-> 1]
    /\ m_Transform = [c \in Components |-> 0] /\ m_WorldTransform = [c \in Components |-> <<>>]
    /\ m_Dirt = [c \in Components |-> {"Transform", "World"}]
    /\ collapsed = {}
    /\ more = TRUE
    /\ pc = "loading" /\ i = 1 /\ step = 0
    /\ changes = 0

(* Each solo collapses its children when the file is loaded.               *)
onAddedClean ==
    /\ pc = "loading"
    /\ collapsed' = IF i \in solos THEN propagateCollapse(collapsed, i, active) ELSE collapsed
    /\ IF i = N THEN pc' = "sorting" /\ i' = 1 ELSE i' = i + 1 /\ UNCHANGED pc
    /\ UNCHANGED <<graph, sorter, active, x, offset, m_Transform, m_WorldTransform,
                   m_Dirt, more, step, changes>>

-----------------------------------------------------------------------------
(* The host or an animation makes a change between two updates.            *)
Changes(ch) ==
    /\ pc = "idle" /\ changes < MaxChanges /\ changes' = changes + 1
    /\ m_Dirt' = ch.dirt /\ collapsed' = ch.collapsed
    /\ active' = ch.active /\ x' = ch.x
    /\ more' = (more \/ ch.marked # {})
    /\ UNCHANGED <<graph, sorter, offset, m_Transform, m_WorldTransform, loop>>

SetProperty == \E c \in 2..N : Changes(PropertyChanged(m_Dirt, c))

SetActive ==
    \E s \in solos : \E child \in Children(s) \ {active[s]} : Changes(ActiveChanged(m_Dirt, s, child))

(* updateComponents: nothing to do without the flag.                       *)
StartUpdate ==
    /\ pc = "idle" /\ more
    /\ pc' = "updating" /\ i' = 1 /\ step' = 0 /\ more' = FALSE
    /\ UNCHANGED <<graph, sorter, active, x, offset, m_Transform, m_WorldTransform, m_Dirt,
                   collapsed, changes>>

(* TransformComponent::update, for the dirt that the component had.        *)
Transform(c) == IF "Transform" \in m_Dirt[c] THEN x[c] ELSE m_Transform[c]

WorldOf(t, up, c, W) ==
    <<t, offset[c], up, IF target[c] = None \/ target[c] \in collapsed THEN <<>> ELSE W[target[c]]>>

NeedsUpdate(c) == m_Dirt[c] # {} /\ c \notin collapsed

(* The places of the order whose component is to be updated.               *)
Todo == {k \in i..Len(m_DependencyOrder) : NeedsUpdate(m_DependencyOrder[k])}

(* The next pass, or the end.                                              *)
Restart(again) ==
    IF again /\ step + 1 < MaxSteps
    THEN pc' = "updating" /\ i' = 1 /\ step' = step + 1 /\ more' = FALSE
    ELSE pc' = "idle" /\ i' = 1 /\ step' = 0 /\ more' = again

(* MUTANT: an update before this place does not end the pass, and the flag *)
(* is for what comes after it.                                             *)
GoOn(k, marked) ==
    pc' = "updating" /\ i' = k + 1 /\ UNCHANGED step
    /\ more' = (more \/ \E c \in marked : Sorted(c) /\ graphOrder(c) > k)

(* Dirt at a lower place than k (m_DirtDepth) ends the pass.  A component  *)
(* that is not in the order has a place that was never set: any.           *)
AfterUpdate(k, marked) ==
    LET before == \E c \in marked : Sorted(c) /\ graphOrder(c) < k
        unplaced == \E c \in marked : ~Sorted(c)
    IN  \/ /\ before \/ unplaced
           /\ Restart(more \/ marked # {})
        \/ /\ ~before
           /\ pc' = "updating" /\ i' = k + 1 /\ UNCHANGED step
           /\ more' = (more \/ marked # {})

(* Component c at place k is updated.  The update of a text input may      *)
(* scroll what it is in (markWorldTransformDirty of a component above it). *)
UpdateAt(k, c) ==
    LET D == [m_Dirt EXCEPT ![c] = {}]
        up == IF c = 1 THEN <<>> ELSE m_WorldTransform[parent[c]]
    IN  /\ m_Transform' = [m_Transform EXCEPT ![c] = Transform(c)]
        /\ m_WorldTransform' =
               IF "World" \in m_Dirt[c]
               THEN [m_WorldTransform EXCEPT ![c] = WorldOf(Transform(c), up, c, m_WorldTransform)]
               ELSE m_WorldTransform
        /\ \/ /\ m_Dirt' = D /\ AfterUpdate(k, {})
              /\ UNCHANGED <<offset, changes>>
           \/ /\ changes < MaxChanges /\ changes' = changes + 1
              /\ \E a \in Ancestors(c) :
                    LET world == Reached(D, {a}, "World")
                    IN  /\ offset' = [offset EXCEPT ![a] = 3 - @]
                        /\ m_Dirt' = Mark(D, world, "World")
                        /\ AfterUpdate(k, world)

(* The next dirty component is updated.                                    *)
Update ==
    /\ pc = "updating"
    /\ \E k \in Todo :
          /\ \A j \in Todo : k <= j
          /\ UpdateAt(k, m_DependencyOrder[k])
    /\ UNCHANGED <<graph, sorter, active, x, collapsed>>

EndPass ==
    /\ pc = "updating" /\ Todo = {}
    /\ Restart(more)
    /\ UNCHANGED <<graph, sorter, active, x, offset, m_Transform, m_WorldTransform, m_Dirt,
                   collapsed, changes>>

Rest == pc = "idle" /\ ~more /\ UNCHANGED vars

Next ==
    \/ onAddedClean \/ VisitDependent \/ EndVisit
    \/ SetProperty \/ SetActive \/ StartUpdate \/ Update \/ EndPass \/ Rest

Spec == Init /\ [][Next]_vars

-----------------------------------------------------------------------------
(* Properties.                                                             *)

(* In every set of components one has all its dependents outside of it.    *)
Acyclic ==
    \A S \in SUBSET Components : S = {} \/ \E c \in S : Dependents(c) \cap S = {}

(* Every component is placed before what depends on it, and once; with a   *)
(* cycle this holds of what was placed, and without one all are placed.    *)
OrderRespectsDependents ==
    /\ \A j, k \in DOMAIN m_DependencyOrder :
          m_DependencyOrder[j] = m_DependencyOrder[k] => j = k
    /\ \A c \in Components : Sorted(c) =>
          \A d \in Dependents(c) : Sorted(d) /\ graphOrder(c) < graphOrder(d)
    /\ pc \notin {"loading", "sorting"} => (\A c \in Components : Sorted(c)) \/ ~Acyclic

(* The world transforms computed from nothing.                             *)
Expected ==
    LET E[c \in Components] ==
            <<x[c], offset[c], IF c = 1 THEN <<>> ELSE E[parent[c]],
              IF target[c] = None \/ target[c] \in collapsed THEN <<>> ELSE E[target[c]]>>
    IN  E

AllRight ==
    pc = "idle" /\ ~more /\ Acyclic =>
        \A c \in Components \ collapsed : m_WorldTransform[c] = Expected[c]

(* What is drawn is what a computation from nothing would give: when the   *)
(* artboard has no more to update, the world transform of every component  *)
(* that is shown comes from the present properties of all that it depends  *)
(* on, although each step updated only what was dirty.  This is claimed of *)
(* artboards in which no constraint has a solo as its target.              *)
WorldsAreRight == (\A c \in Components : target[c] \notin solos) => AllRight

(* "We mark it as dirty because one of its constraining targets has        *)
(* changed its collapse status" (transform_component.cpp): so the same     *)
(* holds whatever a constraint has for its target.                         *)
ConstraintsFollowCollapse == AllRight

(* Nothing dirty is forgotten when the loop gives up after its last pass:  *)
(* the artboard keeps the flag that makes the next frame go on.            *)
DirtIsAnnounced ==
    pc = "idle" => \A c \in Components : Sorted(c) /\ NeedsUpdate(c) => more

(* A solo shows exactly its active child, and none when it is hidden by a  *)
(* solo above it, whichever of the two changed last.                       *)
SoloShowsOne ==
    pc # "loading" =>
        \A s \in solos, c \in Components :
            c \in Children(s) => (c \in collapsed <=> (s \in collapsed \/ c # active[s]))
=============================================================================
