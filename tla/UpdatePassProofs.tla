-------------------------- MODULE UpdatePassProofs --------------------------
(* Proofs about the update pass, for any number of components in any tree, *)
(* with any constraints and solos: the order respects the dependents, also *)
(* when a cycle ends the sort; a solo shows its active child and no other; *)
(* what is dirty is announced; and, when nothing is left to update, the    *)
(* world transforms are those that a computation from nothing would give.  *)
EXTENDS UpdatePass, WellFoundedInduction, TLAPS

TypeOK ==
    /\ parent \in [Components -> 0..N] /\ parent[1] = None
    /\ \A c \in 2..N : parent[c] \in 1..(c - 1)
    /\ target \in [Components -> 0..N]
    /\ solos \subseteq 2..N
    /\ active \in [Components -> 0..N]
    /\ m_DependencyOrder \in Seq(Components)
    /\ m_Temp \subseteq Components /\ visiting \in Components /\ caller \in [Components -> 0..N]
    /\ x \in [Components -> Int] /\ offset \in [Components -> Int]
    /\ m_Transform \in [Components -> Int] /\ DOMAIN m_WorldTransform = Components
    /\ m_Dirt \in [Components -> SUBSET {"Transform", "World"}]
    /\ collapsed \subseteq 2..N
    /\ more \in BOOLEAN
    /\ pc \in {"loading", "sorting", "idle", "updating"}
    /\ i \in Nat \ {0}
    /\ pc = "loading" => i \in Components

Starting == pc \in {"loading", "sorting"}

-----------------------------------------------------------------------------
(* Numbers and trees.  The induction theorems of the library take a        *)
(* predicate; here a set of counterexamples has a least element.           *)

Less == {ss \in Nat \X Nat : ss[1] < ss[2]}

LEMMA LeastElement ==
    ASSUME NEW T \in SUBSET Nat, T # {}
    PROVE  \E m \in T : \A n \in T : m <= n
<1>1. IsWellFoundedOn(Less, Nat)
  BY NatLessThanWellFounded, Zenon DEF OpToRel, Less
<1>2. PICK m \in T : \A n \in T : ~ (<<n, m>> \in Less)
  BY <1>1, WFMin
<1>3. ASSUME NEW n \in T PROVE m <= n
  <2>1. n \in Nat /\ m \in Nat
    OBVIOUS
  <2>2. n < m => <<n, m>> \in Less
    BY <2>1 DEF Less
  <2> QED
    BY <2>1, <2>2, <1>2
<1> QED
  BY <1>3

LEMMA RootIsComponent == 1 \in Components /\ Components \subseteq Nat /\ None \notin Components
  BY SizeAssumption DEF Components, None

LEMMA ParentIsBefore ==
    ASSUME TypeOK, NEW c \in Components, c # 1
    PROVE  /\ c \in 2..N /\ parent[c] \in Components /\ parent[c] < c /\ parent[c] # None
           /\ c \in Dependents(parent[c])
<1>1. c \in 2..N
  BY SizeAssumption DEF Components
<1>2. parent[c] \in 1..(c - 1)
  BY <1>1 DEF TypeOK
<1> QED
  BY <1>1, <1>2, SizeAssumption DEF Components, Dependents, Children, None

LEMMA TargetIsComponent ==
    ASSUME TypeOK, NEW c \in Components, target[c] # None
    PROVE  target[c] \in Components /\ c \in Dependents(target[c])
<1>1. target[c] \in 0..N
  BY DEF TypeOK
<1>2. target[c] \in Components
  BY <1>1, SizeAssumption DEF Components, None
<1> QED
  BY <1>2 DEF Dependents

(* A function may be defined on a tree from the values at the parents.     *)
Descends(f, base, G) ==
    f = [d \in Components |-> IF d = 1 THEN base ELSE G[<<d, f[parent[d]]>>]]

LEMMA DescentExists ==
    ASSUME TypeOK, NEW V, NEW base \in V, NEW G \in [Components \X V -> V]
    PROVE  \E f \in [Components -> V] : Descends(f, base, G)
<1> DEFINE Upto(n, g) == /\ g \in [1..n -> V]
                         /\ \A d \in 1..n : g[d] = IF d = 1 THEN base ELSE G[<<d, g[parent[d]]>>]
           T == {n \in 1..N : ~ \E g : Upto(n, g)}
<1>1. T = {}
  <2> SUFFICES ASSUME T # {} PROVE FALSE
    OBVIOUS
  <2>1. T \in SUBSET Nat
    OBVIOUS
  <2>2. PICK n \in T : \A k \in T : n <= k
    BY <2>1, LeastElement
  <2>3. n \in 1..N /\ ~ \E g : Upto(n, g)
    OBVIOUS
  <2>6. N \in Nat /\ n \in Nat /\ 1 <= n /\ n <= N
    BY <2>3, SizeAssumption
  <2>4. CASE n = 1
    <3> DEFINE g == [d \in 1..1 |-> base]
    <3>1. Upto(1, g)
      OBVIOUS
    <3> QED
      BY <3>1, <2>3, <2>4
  <2>5. CASE n # 1
    <3>1. n - 1 \in 1..N /\ n - 1 \notin T
      BY <2>2, <2>3, <2>5, SizeAssumption
    <3>2. PICK g : Upto(n - 1, g)
      BY <3>1
    <3>3. n \in 2..N /\ parent[n] \in 1..(n - 1)
      <4>1. n \in 2..N
        BY <2>6, <2>5
      <4> QED
        BY <4>1 DEF TypeOK
    <3>9. n \in Components
      BY <2>6 DEF Components
    <3>4. g[parent[n]] \in V
      BY <3>2, <3>3
    <3>5. PICK v \in V : v = G[<<n, g[parent[n]]>>]
      BY <3>9, <3>4
    <3>10. \A d \in 1..(n - 1) : g[d] = IF d = 1 THEN base ELSE G[<<d, g[parent[d]]>>]
      BY <3>2
    <3> HIDE DEF T, Upto
    <3> DEFINE h == [d \in 1..n |-> IF d = n THEN v ELSE g[d]]
    <3>6. h \in [1..n -> V]
      BY <3>2, <3>5, <2>6 DEF Upto
    <3>11. h[n] = v
      BY <2>6
    <3>12. ASSUME NEW d \in 1..(n - 1) PROVE h[d] = g[d]
      BY <2>6
    <3> HIDE DEF h
    <3>7. ASSUME NEW d \in 1..n
          PROVE  h[d] = IF d = 1 THEN base ELSE G[<<d, h[parent[d]]>>]
      <4>1. CASE d = n
        <5>1. h[parent[n]] = g[parent[n]]
          BY <3>3, <3>12
        <5> QED
          BY <4>1, <5>1, <3>11, <3>5, <2>5
      <4>2. CASE d = 1
        <5>1. d \in 1..(n - 1)
          BY <4>2, <2>5, <2>6
        <5> QED
          BY <4>2, <5>1, <3>10, <3>12
      <4>3. CASE d # n /\ d # 1
        <5>1. d \in 1..(n - 1) /\ d \in 2..N
          BY <4>3, <2>6
        <5>2. parent[d] \in 1..(d - 1)
          BY <5>1 DEF TypeOK
        <5>3. parent[d] \in 1..(n - 1)
          BY <5>1, <5>2, <2>6
        <5> QED
          BY <5>1, <5>3, <3>10, <3>12, <4>3
      <4> QED
        BY <4>1, <4>2, <4>3
    <3>8. Upto(n, h)
      BY <3>6, <3>7 DEF Upto
    <3> QED
      BY <3>8, <2>3
  <2> QED
    BY <2>4, <2>5
<1>2. N \in 1..N
  BY SizeAssumption
<1>3. PICK f : Upto(N, f)
  BY <1>1, <1>2
<1>4. f \in [Components -> V]
  BY <1>3 DEF Components
<1>5. Descends(f, base, G)
  BY <1>3, <1>4 DEF Components, Descends
<1> QED
  BY <1>4, <1>5

-----------------------------------------------------------------------------
(* What the operators of the model compute.                                *)

(* collapse: each component has the flag that its parent's new state gives *)
(* it.                                                                     *)
LEMMA CollapseRecurs ==
    ASSUME TypeOK, NEW C, NEW s, NEW hide, NEW act, NEW E, E = collapse(C, s, hide, act)
    PROVE  /\ E \subseteq 2..N
           /\ \A c \in 2..N : c \in E <=> isCollapsed(c, E, C, s, hide, act)
<1> DEFINE B(c, S) == isCollapsed(c, S, C, s, hide, act)
           G == [q \in Components \X SUBSET Components |-> {d \in {q[1]} : B(d, q[2])}]
           Eq(f) == f = [c \in Components |->
                            IF c = 1 THEN {} ELSE {d \in {c} : B(d, f[parent[c]])}]
<1>1. G \in [Components \X SUBSET Components -> SUBSET Components]
  <2> HIDE DEF B
  <2> QED
    OBVIOUS
<1>13. PICK g : g = G
  OBVIOUS
<1>14. PICK V : V = SUBSET Components
  OBVIOUS
<1>2. PICK f \in [Components -> V] : Descends(f, {}, g)
  <2>1. {} \in V /\ g \in [Components \X V -> V]
    BY <1>1, <1>13, <1>14
  <2> QED
    BY <2>1, DescentExists
<1>3. ASSUME NEW d \in Components, d # 1
      PROVE  g[<<d, f[parent[d]]>>] = {e \in {d} : B(e, f[parent[d]])}
  <2> HIDE DEF B
  <2>1. parent[d] \in Components
    BY <1>3, ParentIsBefore
  <2>2. <<d, f[parent[d]]>> \in Components \X SUBSET Components
    BY <1>2, <1>14, <2>1
  <2> QED
    BY <2>2, <1>13
<1> HIDE DEF G, B
<1>4. Eq(f)
  BY <1>2, <1>3 DEF Descends
<1>5. PICK flag : flag = CHOOSE h : Eq(h)
  OBVIOUS
<1>6. Eq(flag)
  BY <1>4, <1>5
<1>7. E = UNION {flag[c] : c \in Components}
  BY <1>5 DEF collapse, B
<1>8. flag[1] = {}
  BY <1>6, RootIsComponent
<1>9. \A c \in Components : c # 1 => flag[c] = {d \in {c} : B(d, flag[parent[c]])}
  BY <1>6
<1>10. ASSUME NEW c \in Components PROVE flag[c] \subseteq {c} /\ (c \in E <=> c \in flag[c])
  <2>1. \A d \in Components : flag[d] \subseteq {d}
    BY <1>8, <1>9
  <2> QED
    BY <2>1, <1>7
<1>11. E \subseteq 2..N
  <2> SUFFICES ASSUME NEW c \in E PROVE c \in 2..N
    OBVIOUS
  <2>1. c \in Components
    BY <1>7, <1>10
  <2>2. c # 1
    BY <1>8, <1>10, <2>1
  <2> QED
    BY <2>1, <2>2, ParentIsBefore
<1>12. ASSUME NEW c \in 2..N PROVE c \in E <=> B(c, E)
  <2>1. c \in Components /\ c # 1
    BY SizeAssumption DEF Components
  <2>2. parent[c] \in Components
    BY <2>1, ParentIsBefore
  <2>3. parent[c] \in E <=> parent[c] \in flag[parent[c]]
    BY <2>2, <1>10
  <2>4. B(c, E) <=> B(c, flag[parent[c]])
    BY <2>3 DEF B, isCollapsed
  <2>5. c \in flag[c] <=> B(c, flag[parent[c]])
    BY <1>9, <2>1
  <2> QED
    BY <2>1, <2>4, <2>5, <1>10
<1> QED
  BY <1>11, <1>12 DEF B

(* What is not below s keeps its flag.                                     *)
LEMMA CollapseSpares ==
    ASSUME TypeOK, NEW C \in SUBSET (2..N), NEW s \in Components, NEW hide, NEW act,
           NEW E, E = collapse(C, s, hide, act)
    PROVE  \A c \in Components : c <= s => (c \in E <=> c \in C)
<1>1. PICK T : T = {c \in Components : c <= s /\ ~(c \in E <=> c \in C)}
  OBVIOUS
<1>2. T = {}
  <2> SUFFICES ASSUME T # {} PROVE FALSE
    OBVIOUS
  <2>1. T \in SUBSET Nat
    BY <1>1, RootIsComponent
  <2>2. PICK c \in T : \A d \in T : c <= d
    BY <2>1, LeastElement
  <2>3. c \in Components /\ c <= s /\ ~(c \in E <=> c \in C)
    BY <1>1
  <2>4. E \subseteq 2..N /\ (\A d \in 2..N : d \in E <=> isCollapsed(d, E, C, s, hide, act))
    BY CollapseRecurs
  <2>5. c # 1
    BY <2>3, <2>4, SizeAssumption
  <2>6. c \in 2..N /\ parent[c] \in Components /\ parent[c] < c
    BY <2>3, <2>5, ParentIsBefore
  <2>7. parent[c] \in Nat /\ c \in Nat /\ s \in Nat
    BY <2>3, <2>6, RootIsComponent
  <2>8. parent[c] \notin T /\ parent[c] # s /\ parent[c] <= s
    BY <2>2, <2>3, <2>6, <2>7
  <2>9. parent[c] \in E <=> parent[c] \in C
    BY <2>6, <2>8, <1>1
  <2> QED
    BY <2>3, <2>4, <2>6, <2>8, <2>9 DEF isCollapsed
<1> QED
  BY <1>1, <1>2

(* What is above a component is not the component itself.                  *)
LEMMA AncestorsAreAbove ==
    ASSUME TypeOK, NEW c \in Components
    PROVE  \A a \in Ancestors(c) : a \in Components /\ a < c
<1> DEFINE G == [q \in Components \X SUBSET Components |-> ({parent[q[1]]} \ {1, None}) \cup q[2]]
           Eq(f) == f = [d \in Components |->
                            IF d = 1 THEN {} ELSE ({parent[d]} \ {1}) \cup f[parent[d]]]
<1>1. G \in [Components \X SUBSET Components -> SUBSET Components]
  <2> SUFFICES ASSUME NEW d \in Components, NEW S \in SUBSET Components
               PROVE  ({parent[d]} \ {1, None}) \cup S \in SUBSET Components
    OBVIOUS
  <2>1. parent[d] \in 0..N
    BY DEF TypeOK
  <2>2. parent[d] # None => parent[d] \in Components
    BY <2>1, SizeAssumption DEF Components, None
  <2> QED
    BY <2>2
<1>2. PICK g : g = G
  OBVIOUS
<1>3. PICK V : V = SUBSET Components
  OBVIOUS
<1>4. PICK f \in [Components -> V] : Descends(f, {}, g)
  <2>1. {} \in V /\ g \in [Components \X V -> V]
    BY <1>1, <1>2, <1>3
  <2> HIDE DEF G
  <2> QED
    BY <2>1, DescentExists
<1>5. ASSUME NEW d \in Components, d # 1
      PROVE  g[<<d, f[parent[d]]>>] = ({parent[d]} \ {1}) \cup f[parent[d]]
  <2>1. parent[d] \in Components /\ parent[d] # None
    BY <1>5, ParentIsBefore
  <2>2. <<d, f[parent[d]]>> \in Components \X SUBSET Components
    BY <1>3, <1>4, <2>1
  <2> QED
    BY <2>1, <2>2, <1>2
<1> HIDE DEF G
<1>6. Eq(f)
  BY <1>4, <1>5 DEF Descends
<1>7. PICK Up : Up = CHOOSE h : Eq(h)
  OBVIOUS
<1>8. Eq(Up)
  BY <1>6, <1>7
<1>9. Ancestors(c) = Up[c]
  BY <1>7 DEF Ancestors
<1>10. PICK T : T = {d \in Components : ~ \A a \in Up[d] : a \in Components /\ a < d}
  OBVIOUS
<1>11. T = {}
  <2> SUFFICES ASSUME T # {} PROVE FALSE
    OBVIOUS
  <2>1. T \in SUBSET Nat
    BY <1>10, RootIsComponent
  <2>2. PICK d \in T : \A e \in T : d <= e
    BY <2>1, LeastElement
  <2>3. PICK a \in Up[d] : ~(a \in Components /\ a < d)
    BY <2>2, <1>10
  <2>4. d \in Components /\ d # 1
    BY <1>8, <1>10, <2>3
  <2>5. parent[d] \in Components /\ parent[d] < d
    BY <2>4, ParentIsBefore
  <2>6. d \in Nat /\ parent[d] \in Nat /\ Components \subseteq Nat
    BY <2>4, <2>5, RootIsComponent
  <2>7. parent[d] \notin T
    BY <2>2, <2>5, <2>6
  <2>8. \A e \in Up[parent[d]] : e \in Components /\ e < parent[d]
    BY <2>5, <2>7, <1>10
  <2>9. a = parent[d] \/ a \in Up[parent[d]]
    BY <1>8, <2>4
  <2>10. a < d
    <3>1. CASE a = parent[d]
      BY <3>1, <2>5
    <3>2. CASE a \in Up[parent[d]]
      <4>1. a \in Nat /\ a < parent[d]
        BY <3>2, <2>6, <2>8
      <4> QED
        BY <4>1, <2>5, <2>6
    <3> QED
      BY <3>1, <3>2, <2>9
  <2> QED
    BY <2>3, <2>5, <2>8, <2>9, <2>10
<1> QED
  BY <1>9, <1>10, <1>11

(* Reached: what is unmarked among cs, and among the dependents of what is *)
(* reached, is reached, and nothing else is.                               *)
LEMMA ReachedIsClosed ==
    ASSUME NEW D, NEW cs, NEW value, NEW R, R = Reached(D, cs, value)
    PROVE  /\ \A c \in R : c \in Components /\ value \notin D[c]
           /\ \A c \in cs \cap Components : value \in D[c] \/ c \in R
           /\ \A c \in R : \A d \in Dependents(c) : value \in D[d] \/ d \in R
           /\ \A c \in R : c \in cs \/ \E p \in R : c \in Dependents(p)
<1>1. PICK unmarked : unmarked = {c \in Components : value \notin D[c]}
  OBVIOUS
<1>2. PICK Closed : Closed = {S \in SUBSET unmarked :
                      /\ cs \cap unmarked \subseteq S
                      /\ \A c \in S : Dependents(c) \cap unmarked \subseteq S}
  OBVIOUS
<1>3. R = {c \in unmarked : \A S \in Closed : c \in S}
  BY <1>1, <1>2 DEF Reached
<1>4. \A c : Dependents(c) \subseteq Components
  BY DEF Dependents, Children
<1>5. \A c \in R : c \in Components /\ value \notin D[c]
  BY <1>1, <1>3
<1>6. \A c \in cs \cap Components : value \in D[c] \/ c \in R
  BY <1>1, <1>2, <1>3
<1>7. ASSUME NEW c \in R, NEW d \in Dependents(c), value \notin D[d] PROVE d \in R
  <2>1. d \in unmarked
    BY <1>1, <1>4, <1>7
  <2>2. ASSUME NEW S \in Closed PROVE d \in S
    BY <1>2, <1>3, <2>1
  <2> QED
    BY <2>1, <2>2, <1>3
<1>8. ASSUME NEW c \in R, c \notin cs, ~ \E p \in R : c \in Dependents(p) PROVE FALSE
  <2>1. PICK S : S = R \ {c}
    OBVIOUS
  <2>2. S \subseteq unmarked
    BY <1>3, <2>1
  <2>3. cs \cap unmarked \subseteq S
    BY <1>1, <1>6, <1>8, <2>1
  <2>4. \A d \in S : Dependents(d) \cap unmarked \subseteq S
    BY <1>1, <1>7, <1>8, <2>1
  <2>5. S \in Closed
    BY <1>2, <2>2, <2>3, <2>4
  <2> QED
    BY <1>3, <2>1, <2>5
<1> QED
  BY <1>5, <1>6, <1>7, <1>8

-----------------------------------------------------------------------------
(* The order.                                                              *)

PlacedOnce ==
    \A j, k \in DOMAIN m_DependencyOrder :
        m_DependencyOrder[j] = m_DependencyOrder[k] => j = k

DependentsFollow ==
    \A k \in DOMAIN m_DependencyOrder : \A d \in Dependents(m_DependencyOrder[k]) :
        \E j \in DOMAIN m_DependencyOrder : k < j /\ m_DependencyOrder[j] = d

(* The visits that have not returned: a chain of callers from the artboard *)
(* to the component being visited.                                         *)
UnderWay(c) == c \in m_Temp /\ ~Sorted(c)

HasCallee(c) == \E d \in Dependents(c) : UnderWay(d) /\ caller[d] = c
HasCaller(c) == \E p \in Components : UnderWay(p) /\ caller[c] = p

Chain ==
    /\ UnderWay(visiting)
    /\ \A c \in Components : UnderWay(c) /\ c # visiting => HasCallee(c)
    /\ \A c \in Components : UnderWay(c) =>
          /\ caller[c] # visiting
          /\ c = 1 \/ HasCaller(c)
    /\ \A c, d \in Components : UnderWay(c) /\ UnderWay(d) /\ caller[c] = caller[d] => c = d

SortInv ==
    /\ PlacedOnce
    /\ DependentsFollow
    /\ \A c \in Components : Sorted(c) => c \in m_Temp
    /\ 1 \in m_Temp /\ caller[1] = None
    /\ Starting => Chain
    /\ ~Starting /\ Acyclic => Sorted(1)

LEMMA SortInit ==
    ASSUME Init PROVE SortInv
<1>1. \A c : ~Sorted(c)
  BY DEF Init, Sorted
<1>2. \A c \in Components : UnderWay(c) <=> c = 1
  BY <1>1, RootIsComponent DEF Init, UnderWay
<1>3. Chain
  BY <1>1, <1>2, RootIsComponent DEF Init, Chain, UnderWay
<1> QED
  BY <1>1, <1>3, RootIsComponent DEF Init, SortInv, PlacedOnce, DependentsFollow, Starting

LEMMA SortFrame ==
    ASSUME SortInv, UNCHANGED <<graph, sorter>>, Starting' <=> Starting
    PROVE  SortInv'
<1>1. /\ parent' = parent /\ target' = target /\ m_DependencyOrder' = m_DependencyOrder
      /\ m_Temp' = m_Temp /\ visiting' = visiting /\ caller' = caller
  BY DEF graph, sorter
<1>2. \A c : Dependents(c)' = Dependents(c)
  BY <1>1 DEF Dependents, Children
<1>3. \A c : (Sorted(c)' <=> Sorted(c)) /\ (UnderWay(c)' <=> UnderWay(c))
  BY <1>1 DEF Sorted, UnderWay
<1>4. PlacedOnce' /\ DependentsFollow'
  BY <1>1, <1>2 DEF SortInv, PlacedOnce, DependentsFollow
<1>5. Acyclic' <=> Acyclic
  BY <1>2 DEF Acyclic
<1>6. Chain' <=> Chain
  BY <1>1, <1>2, <1>3 DEF Chain, HasCallee, HasCaller, UnderWay, Sorted
<1> QED
  BY <1>1, <1>3, <1>4, <1>5, <1>6 DEF SortInv

LEMMA VisitStep ==
    ASSUME TypeOK, SortInv, VisitDependent
    PROVE  SortInv'
<1>1. /\ parent' = parent /\ target' = target /\ m_DependencyOrder' = m_DependencyOrder
      /\ Starting
  BY DEF VisitDependent, graph, Starting
<1>2. PICK d \in Pending :
          IF d \in m_Temp
          THEN pc' = "idle" /\ UNCHANGED <<m_Temp, visiting, caller>>
          ELSE /\ m_Temp' = m_Temp \cup {d} /\ visiting' = d
               /\ caller' = [caller EXCEPT ![d] = visiting]
               /\ UNCHANGED pc
  BY DEF VisitDependent
<1>3. d \in Dependents(visiting) /\ ~Sorted(d) /\ d \in Components
  BY DEF Pending, Dependents, Children
<1>4. \A c : Dependents(c)' = Dependents(c)
  BY <1>1 DEF Dependents, Children
<1>5. \A c : Sorted(c)' <=> Sorted(c)
  BY <1>1 DEF Sorted
<1>6. PlacedOnce' /\ DependentsFollow'
  BY <1>1, <1>4 DEF SortInv, PlacedOnce, DependentsFollow
<1>7. Chain
  BY <1>1 DEF SortInv
<1>8. CASE d \in m_Temp
  <2>1. /\ pc' = "idle" /\ m_Temp' = m_Temp /\ visiting' = visiting /\ caller' = caller
    BY <1>2, <1>8
  <2>2. ~Acyclic
    <3>1. PICK S : S = {c \in Components : UnderWay(c)}
      OBVIOUS
    <3>2. d \in S
      BY <3>1, <1>3, <1>8 DEF UnderWay
    <3>3. ASSUME NEW c \in S PROVE Dependents(c) \cap S # {}
      <4>1. CASE c = visiting
        BY <4>1, <1>3, <3>2
      <4>2. CASE c # visiting
        <5>1. PICK e \in Dependents(c) : UnderWay(e)
          BY <4>2, <3>1, <1>7 DEF Chain, HasCallee
        <5>2. e \in Components
          BY DEF Dependents, Children
        <5> QED
          BY <5>1, <5>2, <3>1
      <4> QED
        BY <4>1, <4>2
    <3> QED
      BY <3>1, <3>2, <3>3 DEF Acyclic
  <2>3. ~Acyclic'
    BY <2>2, <1>4 DEF Acyclic
  <2>4. ~Starting'
    BY <2>1 DEF Starting
  <2> QED
    BY <1>5, <1>6, <2>1, <2>3, <2>4 DEF SortInv
<1>9. CASE d \notin m_Temp
  <2>1. /\ m_Temp' = m_Temp \cup {d} /\ visiting' = d /\ caller' = [caller EXCEPT ![d] = visiting]
        /\ pc' = pc
    BY <1>2, <1>9
  <2>2. \A c : UnderWay(c)' <=> (UnderWay(c) \/ c = d)
    BY <1>3, <1>5, <2>1 DEF UnderWay
  <2>3. caller \in [Components -> 0..N] /\ visiting \in Components /\ visiting # d
    BY <1>7, <1>9 DEF TypeOK, Chain, UnderWay
  <2>4. /\ caller'[d] = visiting
        /\ \A c \in Components : c # d => caller'[c] = caller[c]
    BY <1>3, <2>1, <2>3
  <2>5. ~UnderWay(d) /\ UnderWay(visiting)
    BY <1>7, <1>9 DEF UnderWay, Chain
  <2>6. UnderWay(visiting)'
    BY <1>3, <1>5, <2>1 DEF UnderWay
  <2>7. ASSUME NEW c \in Components, UnderWay(c)', c # d
        PROVE  HasCallee(c)'
    <3>1. UnderWay(c)
      BY <2>2, <2>7
    <3>2. CASE c = visiting
      BY <3>2, <1>3, <1>4, <2>2, <2>4 DEF HasCallee
    <3>3. CASE c # visiting
      <4>1. PICK e \in Dependents(c) : UnderWay(e) /\ caller[e] = c
        BY <3>1, <3>3, <1>7 DEF Chain, HasCallee
      <4>2. e \in Components /\ e # d
        BY <4>1, <2>5 DEF Dependents, Children
      <4> QED
        BY <4>1, <4>2, <1>4, <2>2, <2>4 DEF HasCallee
    <3> QED
      BY <3>2, <3>3
  <2>8. ASSUME NEW c \in Components, UnderWay(c)'
        PROVE  /\ caller'[c] # d
               /\ c = 1 \/ HasCaller(c)'
    <3>1. CASE c = d
      BY <3>1, <2>2, <2>3, <2>4, <2>5 DEF HasCaller
    <3>2. CASE c # d
      <4>1. UnderWay(c) /\ caller'[c] = caller[c]
        BY <3>2, <2>2, <2>4, <2>8
      <4>2. c = 1 \/ HasCaller(c)
        BY <4>1, <1>7 DEF Chain
      <4>3. caller'[c] # d
        <5>1. CASE c = 1
          BY <4>1, <5>1, <1>3, RootIsComponent DEF SortInv
        <5>2. CASE c # 1
          BY <4>1, <4>2, <5>2, <2>5 DEF HasCaller
        <5> QED
          BY <5>1, <5>2
      <4> QED
        BY <4>1, <4>2, <4>3, <2>2 DEF HasCaller
    <3> QED
      BY <3>1, <3>2
  <2>9. ASSUME NEW c \in Components, NEW e \in Components, UnderWay(c)', UnderWay(e)',
               caller'[c] = caller'[e]
        PROVE  c = e
    BY <2>9, <1>7, <2>2, <2>4 DEF Chain
  <2>10. Chain'
    BY <2>1, <2>6, <2>7, <2>8, <2>9 DEF Chain
  <2>11. 1 \in m_Temp' /\ caller'[1] = None
    BY <1>9, <2>1, <2>4, RootIsComponent DEF SortInv
  <2>12. Starting'
    BY <1>1, <2>1 DEF Starting
  <2> QED
    BY <1>5, <1>6, <2>1, <2>10, <2>11, <2>12 DEF SortInv
<1> QED
  BY <1>8, <1>9

LEMMA EndVisitStep ==
    ASSUME TypeOK, SortInv, EndVisit
    PROVE  SortInv' /\ m_DependencyOrder' \in Seq(Components)
<1>1. /\ parent' = parent /\ target' = target /\ m_Temp' = m_Temp /\ caller' = caller
      /\ m_DependencyOrder' = <<visiting>> \o m_DependencyOrder /\ Pending = {} /\ Starting
  BY DEF EndVisit, graph, Starting, insertBegin
<1>2. PICK n \in Nat : n = Len(m_DependencyOrder)
  BY DEF TypeOK
<1>3. PICK q : q = m_DependencyOrder
  OBVIOUS
<1>4. PICK r : r = m_DependencyOrder'
  OBVIOUS
<1>5. /\ q \in Seq(Components) /\ DOMAIN q = 1..n
      /\ r \in Seq(Components) /\ DOMAIN r = 1..(n + 1)
      /\ r[1] = visiting /\ \A k \in 1..n : r[k + 1] = q[k]
  <2>1. q \in Seq(Components) /\ n = Len(q) /\ r = <<visiting>> \o q /\ visiting \in Components
    BY <1>1, <1>2, <1>3, <1>4 DEF TypeOK
  <2> QED
    BY <2>1
<1>6. \A k \in 2..(n + 1) : k - 1 \in 1..n /\ r[k] = q[k - 1]
  BY <1>2, <1>5
<1>7. \A c : Sorted(c) <=> \E k \in 1..n : q[k] = c
  BY <1>3, <1>5 DEF Sorted
<1>8. \A c : Sorted(c)' <=> \E k \in 1..(n + 1) : r[k] = c
  BY <1>4, <1>5 DEF Sorted
<1>9. ASSUME NEW c PROVE Sorted(c)' <=> (Sorted(c) \/ c = visiting)
  <2>1. ASSUME Sorted(c)' PROVE Sorted(c) \/ c = visiting
    <3>1. PICK k \in 1..(n + 1) : r[k] = c
      BY <2>1, <1>8
    <3>2. k = 1 \/ k \in 2..(n + 1)
      BY <1>2
    <3> QED
      BY <3>1, <3>2, <1>5, <1>6, <1>7
  <2>2. ASSUME Sorted(c) PROVE Sorted(c)'
    <3>1. PICK k \in 1..n : q[k] = c
      BY <2>2, <1>7
    <3>2. k + 1 \in 1..(n + 1) /\ r[k + 1] = c
      BY <3>1, <1>2, <1>5
    <3> QED
      BY <3>2, <1>8
  <2>3. ASSUME c = visiting PROVE Sorted(c)'
    BY <2>3, <1>2, <1>5, <1>8
  <2> QED
    BY <2>1, <2>2, <2>3
<1>10. Chain /\ UnderWay(visiting) /\ ~Sorted(visiting)
  BY <1>1 DEF SortInv, Chain, UnderWay
<1>11. \A c : Dependents(c)' = Dependents(c)
  BY <1>1 DEF Dependents, Children
<1>12. PlacedOnce'
  <2> SUFFICES ASSUME NEW j \in 1..(n + 1), NEW k \in 1..(n + 1), r[j] = r[k]
               PROVE  j = k
    BY <1>4, <1>5 DEF PlacedOnce
  <2>1. \A l \in 2..(n + 1) : r[l] # visiting
    BY <1>6, <1>7, <1>10
  <2>2. (j = 1 \/ j \in 2..(n + 1)) /\ (k = 1 \/ k \in 2..(n + 1))
    BY <1>2
  <2>3. CASE j = 1 \/ k = 1
    BY <2>1, <2>2, <2>3, <1>5
  <2>4. CASE j \in 2..(n + 1) /\ k \in 2..(n + 1)
    <3>1. q[j - 1] = q[k - 1] /\ j - 1 \in 1..n /\ k - 1 \in 1..n
      BY <2>4, <1>6
    <3>2. j - 1 = k - 1
      BY <3>1, <1>3, <1>5 DEF SortInv, PlacedOnce
    <3> QED
      BY <3>2
  <2> QED
    BY <2>2, <2>3, <2>4
<1>13. DependentsFollow'
  <2> SUFFICES ASSUME NEW k \in 1..(n + 1), NEW d \in Dependents(r[k])
               PROVE  \E j \in 1..(n + 1) : k < j /\ r[j] = d
    BY <1>4, <1>5, <1>11 DEF DependentsFollow
  <2>1. CASE k = 1
    <3>1. d \in Dependents(visiting)
      BY <2>1, <1>5
    <3>2. Sorted(d)
      BY <3>1, <1>1 DEF Pending
    <3>3. PICK j \in 1..n : q[j] = d
      BY <3>2, <1>7
    <3>4. j + 1 \in 1..(n + 1) /\ k < j + 1 /\ r[j + 1] = d
      BY <2>1, <3>3, <1>2, <1>5
    <3> QED
      BY <3>4
  <2>2. CASE k \in 2..(n + 1)
    <3>1. k - 1 \in 1..n /\ d \in Dependents(q[k - 1])
      BY <2>2, <1>6
    <3>2. PICK j \in 1..n : k - 1 < j /\ q[j] = d
      BY <3>1, <1>3, <1>5 DEF SortInv, DependentsFollow
    <3>3. j + 1 \in 1..(n + 1) /\ k < j + 1 /\ r[j + 1] = d
      BY <3>2, <1>2, <1>5
    <3> QED
      BY <3>3
  <2> QED
    BY <2>1, <2>2, <1>2
<1>14. \A c \in Components : Sorted(c)' => c \in m_Temp'
  BY <1>1, <1>9, <1>10 DEF SortInv, UnderWay
<1>15. 1 \in m_Temp' /\ caller'[1] = None
  BY <1>1 DEF SortInv
<1>16. \A c : UnderWay(c)' <=> (UnderWay(c) /\ c # visiting)
  BY <1>1, <1>9 DEF UnderWay
<1>17. visiting \in Components
  BY DEF TypeOK
<1>18. CASE caller[visiting] = None
  <2>1. pc' = "idle"
    BY <1>18 DEF EndVisit
  <2>2. visiting = 1
    BY <1>10, <1>17, <1>18, RootIsComponent DEF Chain, HasCaller
  <2> QED
    BY <1>9, <1>12, <1>13, <1>14, <1>15, <1>4, <1>5, <2>1, <2>2 DEF SortInv, Starting
<1>19. CASE caller[visiting] # None
  <2>1. pc' = pc /\ visiting' = caller[visiting]
    BY <1>19 DEF EndVisit
  <2>2. Starting'
    BY <1>1, <2>1 DEF Starting
  <2>3. PICK p : p = visiting'
    OBVIOUS
  <2>4. visiting # 1
    BY <1>19 DEF SortInv
  <2>5. p \in Components /\ UnderWay(p) /\ p # visiting /\ caller[visiting] = p
    BY <1>10, <1>17, <2>1, <2>3, <2>4 DEF Chain, HasCaller
  <2>6. UnderWay(p)'
    BY <1>16, <2>5
  <2>7. ASSUME NEW c \in Components, UnderWay(c)', c # p
        PROVE  HasCallee(c)'
    <3>1. UnderWay(c) /\ c # visiting
      BY <2>7, <1>16
    <3>2. PICK d \in Dependents(c) : UnderWay(d) /\ caller[d] = c
      BY <3>1, <1>10 DEF Chain, HasCallee
    <3>3. d # visiting
      BY <2>5, <2>7, <3>2
    <3> QED
      BY <3>2, <3>3, <1>1, <1>11, <1>16 DEF HasCallee
  <2>8. ASSUME NEW c \in Components, UnderWay(c)'
        PROVE  caller'[c] # p /\ (c = 1 \/ HasCaller(c)')
    <3>1. UnderWay(c) /\ c # visiting
      BY <2>8, <1>16
    <3>2. caller[c] # visiting /\ (c = 1 \/ HasCaller(c))
      BY <3>1, <1>10 DEF Chain
    <3>3. caller[c] # p
      BY <3>1, <1>10, <1>17, <2>5 DEF Chain
    <3> QED
      BY <3>2, <3>3, <1>1, <1>16 DEF HasCaller
  <2>9. Chain'
    BY <1>1, <1>10, <1>16, <2>3, <2>6, <2>7, <2>8 DEF Chain
  <2> QED
    BY <1>12, <1>13, <1>14, <1>15, <1>4, <1>5, <2>2, <2>9 DEF SortInv
<1> QED
  BY <1>18, <1>19

(* The place of a component is where it is.                                *)
LEMMA PlaceOf ==
    ASSUME SortInv, NEW k \in DOMAIN m_DependencyOrder
    PROVE  graphOrder(m_DependencyOrder[k]) = k
  BY DEF SortInv, PlacedOnce, graphOrder

(* What is placed has all below it placed, and all is below the artboard.  *)
LEMMA AllArePlaced ==
    ASSUME TypeOK, SortInv, Sorted(1)
    PROVE  \A c \in Components : Sorted(c)
<1>1. PICK T : T = {c \in Components : ~Sorted(c)}
  OBVIOUS
<1>2. T = {}
  <2> SUFFICES ASSUME T # {} PROVE FALSE
    OBVIOUS
  <2>1. T \in SUBSET Nat
    BY <1>1, RootIsComponent
  <2>2. PICK c \in T : \A d \in T : c <= d
    BY <2>1, LeastElement
  <2>3. c \in Components /\ ~Sorted(c) /\ c # 1
    BY <1>1
  <2>4. parent[c] \in Components /\ parent[c] < c /\ c \in Dependents(parent[c])
    BY <2>3, ParentIsBefore
  <2>5. c \in Nat /\ parent[c] \in Nat
    BY <2>3, <2>4, RootIsComponent
  <2>6. Sorted(parent[c])
    BY <1>1, <2>2, <2>4, <2>5
  <2>7. PICK k \in DOMAIN m_DependencyOrder : m_DependencyOrder[k] = parent[c]
    BY <2>6 DEF Sorted
  <2> QED
    BY <2>3, <2>4, <2>7 DEF SortInv, DependentsFollow, Sorted
<1> QED
  BY <1>1, <1>2

LEMMA OrderIsRight ==
    ASSUME TypeOK, SortInv
    PROVE  OrderRespectsDependents
<1>1. ASSUME NEW c \in Components, Sorted(c), NEW d \in Dependents(c)
      PROVE  Sorted(d) /\ graphOrder(c) < graphOrder(d)
  <2>1. PICK k \in DOMAIN m_DependencyOrder : m_DependencyOrder[k] = c
    BY <1>1 DEF Sorted
  <2>2. PICK j \in DOMAIN m_DependencyOrder : k < j /\ m_DependencyOrder[j] = d
    BY <2>1 DEF SortInv, DependentsFollow
  <2>3. graphOrder(c) = k /\ graphOrder(d) = j
    BY <2>1, <2>2, PlaceOf
  <2> QED
    BY <2>2, <2>3 DEF Sorted
<1>2. ~Starting /\ Acyclic => \A c \in Components : Sorted(c)
  BY AllArePlaced DEF SortInv
<1> QED
  BY <1>1, <1>2 DEF OrderRespectsDependents, SortInv, PlacedOnce, Starting

-----------------------------------------------------------------------------
(* The changes, in terms of what they reach.                               *)

PropertyStep(c, R) ==
    /\ pc = "idle"
    /\ UNCHANGED <<graph, sorter, offset, m_Transform, m_WorldTransform, loop, active, collapsed>>
    /\ x' = [x EXCEPT ![c] = 3 - @]
    /\ \/ "Transform" \in m_Dirt[c] /\ m_Dirt' = m_Dirt /\ more' = more
       \/ /\ "Transform" \notin m_Dirt[c] /\ more' = TRUE
          /\ m_Dirt' = Mark(Mark(m_Dirt, {c}, "Transform"), R, "World")

LEMMA SetPropertySteps ==
    ASSUME TypeOK, SetProperty
    PROVE  \E c \in 2..N : \E R : R = Reached(m_Dirt, {c}, "World") /\ PropertyStep(c, R)
<1>1. PICK c \in 2..N : Changes(PropertyChanged(m_Dirt, c))
  BY DEF SetProperty
<1>2. PICK R : R = Reached(m_Dirt, {c}, "World")
  OBVIOUS
<1>3. PICK ch : ch = PropertyChanged(m_Dirt, c)
  OBVIOUS
<1>4. /\ pc = "idle" /\ m_Dirt' = ch.dirt /\ collapsed' = ch.collapsed
      /\ active' = ch.active /\ x' = ch.x /\ more' = (more \/ ch.marked # {})
      /\ UNCHANGED <<graph, sorter, offset, m_Transform, m_WorldTransform, loop>>
  BY <1>1, <1>3 DEF Changes
<1>5. ch = IF "Transform" \in m_Dirt[c]
           THEN Change(m_Dirt, {}, collapsed, active, [x EXCEPT ![c] = 3 - @])
           ELSE Change(Mark(Mark(m_Dirt, {c}, "Transform"), R, "World"), R \cup {c},
                       collapsed, active, [x EXCEPT ![c] = 3 - @])
  BY <1>2, <1>3 DEF PropertyChanged
<1>6. PropertyStep(c, R)
  <2>1. CASE "Transform" \in m_Dirt[c]
    BY <2>1, <1>4, <1>5 DEF Change, PropertyStep, TypeOK
  <2>2. CASE "Transform" \notin m_Dirt[c]
    BY <2>2, <1>4, <1>5 DEF Change, PropertyStep, TypeOK
  <2> QED
    BY <2>1, <2>2
<1> QED
  BY <1>2, <1>6

(* The constrained components that a change of what is collapsed dirties.  *)
Told(changed) ==
    {d \in Components : target[d] # None /\ \E c \in changed \ solos : d \in Dependents(c)}

ActiveStep(s, child, E, changed, R) ==
    /\ pc = "idle"
    /\ UNCHANGED <<graph, sorter, offset, m_Transform, m_WorldTransform, loop, x>>
    /\ active' = [active EXCEPT ![s] = child]
    /\ E = propagateCollapse(collapsed, s, active') /\ collapsed' = E
    /\ changed = (E \ collapsed) \cup (collapsed \ E)
    /\ R = Reached(m_Dirt, Told(changed), "World")
    /\ m_Dirt' = Mark(m_Dirt, R, "World")
    /\ more' = (more \/ changed \cup R # {})

LEMMA SetActiveSteps ==
    ASSUME TypeOK, SetActive
    PROVE  \E s \in solos : \E child \in Children(s) : \E E, changed, R :
              ActiveStep(s, child, E, changed, R)
<1>13. PICK s \in solos :
          \E child \in Children(s) : Changes(ActiveChanged(m_Dirt, s, child))
  BY DEF SetActive
<1>1. PICK child \in Children(s) : Changes(ActiveChanged(m_Dirt, s, child))
  BY <1>13
<1>2. PICK act : act = [active EXCEPT ![s] = child]
  OBVIOUS
<1>3. PICK E : E = propagateCollapse(collapsed, s, act)
  OBVIOUS
<1>4. PICK changed : changed = (E \ collapsed) \cup (collapsed \ E)
  OBVIOUS
<1>5. PICK R : R = Reached(m_Dirt, Told(changed), "World")
  OBVIOUS
<1>6. PICK ch : ch = ActiveChanged(m_Dirt, s, child)
  OBVIOUS
<1>7. /\ pc = "idle" /\ m_Dirt' = ch.dirt /\ collapsed' = ch.collapsed
      /\ active' = ch.active /\ x' = ch.x /\ more' = (more \/ ch.marked # {})
      /\ UNCHANGED <<graph, sorter, offset, m_Transform, m_WorldTransform, loop>>
  BY <1>1, <1>6 DEF Changes
<1>8. ch = CollapseChanged(m_Dirt, E, act)
  BY <1>2, <1>3, <1>6 DEF ActiveChanged
<1>9. ch = Change(Mark(m_Dirt, R, "World"), changed \cup R, E, act, x)
  BY <1>4, <1>5, <1>8 DEF CollapseChanged, Told
<1>10. /\ ch.dirt = Mark(m_Dirt, R, "World") /\ ch.collapsed = E /\ ch.active = act
       /\ ch.x = x /\ ch.marked = changed \cup R
  BY <1>9 DEF Change
<1>11. active' = [active EXCEPT ![s] = child] /\ E = propagateCollapse(collapsed, s, active')
  BY <1>2, <1>3, <1>7, <1>10
<1>12. ActiveStep(s, child, E, changed, R)
  BY <1>4, <1>5, <1>7, <1>10, <1>11 DEF ActiveStep
<1> QED
  BY <1>12, Zenon

-----------------------------------------------------------------------------
(* Solos.                                                                  *)

LEMMA PropagateType ==
    ASSUME TypeOK, NEW C, NEW s, NEW act
    PROVE  propagateCollapse(C, s, act) \subseteq 2..N
<1>1. PICK hide : hide = IF s \in C THEN Children(s) ELSE Children(s) \ {act[s]}
  OBVIOUS
<1> QED
  BY <1>1, CollapseRecurs DEF propagateCollapse

(* What propagateCollapse does of its own solo, and keeps of all others.   *)
ShowsOne(s, C, old, E, act) ==
    /\ \A c \in 2..N : parent[c] \in E => c \in E
    /\ \A c \in Children(s) : c \in E <=> (s \in E \/ c # act[s])
    /\ \A t \in solos \ {s} : \A c \in Children(t) :
          (c \in C <=> (t \in C \/ c # old[t])) => (c \in E <=> (t \in E \/ c # act[t]))

LEMMA PropagateShowsOne ==
    ASSUME TypeOK, NEW C \in SUBSET (2..N), NEW s \in solos, NEW old, NEW act,
           \A c \in 2..N : parent[c] \in C => c \in C,
           \A t \in solos \ {s} : act[t] = old[t],
           NEW E, E = propagateCollapse(C, s, act)
    PROVE  ShowsOne(s, C, old, E, act)
<1>1. PICK hide : hide = IF s \in C THEN Children(s) ELSE Children(s) \ {act[s]}
  OBVIOUS
<1>2. E = collapse(C, s, hide, act)
  BY <1>1 DEF propagateCollapse
<1>3. s \in Components /\ solos \subseteq 2..N /\ 2..N \subseteq Components
  <2>1. solos \subseteq 2..N
    BY DEF TypeOK
  <2>2. 2..N \subseteq Components
    BY SizeAssumption DEF Components
  <2> QED
    BY <2>1, <2>2
<1>4. \A c \in 2..N : c \in E <=> isCollapsed(c, E, C, s, hide, act)
  BY <1>2, CollapseRecurs
<1>5. s \in E <=> s \in C
  <2>1. s <= s
    BY <1>3, RootIsComponent
  <2> QED
    BY <1>2, <1>3, <2>1, CollapseSpares
<1>6. ASSUME NEW c \in Components, NEW t \in solos, c \in Children(t)
      PROVE  c \in 2..N /\ parent[c] = t
  <2>1. parent[c] = t /\ t # None
    BY <1>3, <1>6, RootIsComponent DEF Children
  <2>2. c # 1
    BY <2>1 DEF TypeOK
  <2> QED
    BY <2>1, <2>2, ParentIsBefore
<1>7. ASSUME NEW c \in 2..N, parent[c] \in E PROVE c \in E
  <2>1. CASE parent[c] = s
    BY <2>1, <1>1, <1>3, <1>4, <1>5, <1>7 DEF isCollapsed, Children
  <2>2. CASE parent[c] # s
    BY <2>2, <1>4, <1>7 DEF isCollapsed
  <2> QED
    BY <2>1, <2>2
<1>8. ASSUME NEW c \in Children(s) PROVE c \in E <=> (s \in E \/ c # act[s])
  <2>1. c \in 2..N /\ parent[c] = s
    BY <1>6 DEF Children
  <2>2. c \in E <=> c \in hide
    BY <2>1, <1>4 DEF isCollapsed
  <2> QED
    BY <2>2, <1>1, <1>5
<1>9. ASSUME NEW t \in solos \ {s}, NEW c \in Children(t), c \in C <=> (t \in C \/ c # old[t])
      PROVE  c \in E <=> (t \in E \/ c # act[t])
  <2>1. c \in 2..N /\ parent[c] = t /\ act[t] = old[t]
    BY <1>6 DEF Children
  <2> QED
    BY <2>1, <1>4, <1>9 DEF isCollapsed
<1> QED
  BY <1>7, <1>8, <1>9 DEF ShowsOne

(* What a hidden component contains is hidden, and solos show one, those   *)
(* that onAddedClean has come to.                                          *)
SoloInv ==
    /\ \A c \in 2..N : parent[c] \in collapsed => c \in collapsed
    /\ \A s \in solos : (pc = "loading" => s < i) =>
          \A c \in Children(s) : c \in collapsed <=> (s \in collapsed \/ c # active[s])

LEMMA SoloFrame ==
    ASSUME SoloInv, UNCHANGED <<graph, active, collapsed>>, pc # "loading", pc' # "loading"
    PROVE  SoloInv'
  BY DEF SoloInv, graph, Children

LEMMA SoloLoad ==
    ASSUME TypeOK, SoloInv, onAddedClean
    PROVE  SoloInv'
<1>1. /\ parent' = parent /\ solos' = solos /\ active' = active /\ pc = "loading"
      /\ i \in Components
  BY DEF onAddedClean, graph, TypeOK
<1>2. pc' = "loading" => i' = i + 1
  BY DEF onAddedClean
<1>3. pc' # "loading" => i = N
  BY <1>1 DEF onAddedClean
<1>4. \A s : Children(s)' = Children(s)
  BY <1>1 DEF Children
<1>5. ASSUME NEW s \in solos, pc' = "loading" => s < i', s # i
      PROVE  s < i
  <2>1. s \in Nat /\ i \in Nat /\ N \in Nat /\ s <= N
    BY <1>1, SizeAssumption DEF TypeOK
  <2> QED
    BY <2>1, <1>2, <1>3, <1>5
<1>6. CASE i \in solos
  <2>1. PICK E : E = propagateCollapse(collapsed, i, active)
    OBVIOUS
  <2>2. collapsed' = E
    BY <1>6, <2>1 DEF onAddedClean
  <2>3. ShowsOne(i, collapsed, active, E, active)
    <3>1. collapsed \in SUBSET (2..N)
      BY DEF TypeOK
    <3>2. \A c \in 2..N : parent[c] \in collapsed => c \in collapsed
      BY DEF SoloInv
    <3> QED
      BY <1>6, <2>1, <3>1, <3>2, PropagateShowsOne
  <2>4. ASSUME NEW s \in solos, pc' = "loading" => s < i', NEW c \in Children(s)
        PROVE  c \in E <=> (s \in E \/ c # active[s])
    <3>1. CASE s = i
      BY <3>1, <2>3 DEF ShowsOne
    <3>2. CASE s # i
      <4>1. s < i
        BY <3>2, <2>4, <1>5
      <4>2. c \in collapsed <=> (s \in collapsed \/ c # active[s])
        BY <4>1 DEF SoloInv
      <4> QED
        BY <3>2, <4>2, <2>3 DEF ShowsOne
    <3> QED
      BY <3>1, <3>2
  <2> QED
    BY <1>1, <1>4, <2>2, <2>3, <2>4 DEF SoloInv, ShowsOne
<1>7. CASE i \notin solos
  <2>1. collapsed' = collapsed
    BY <1>7 DEF onAddedClean
  <2>2. \A s \in solos : (pc' = "loading" => s < i') => s < i
    BY <1>5, <1>7
  <2> QED
    BY <1>1, <1>4, <2>1, <2>2 DEF SoloInv
<1> QED
  BY <1>6, <1>7

LEMMA SoloActive ==
    ASSUME TypeOK, SoloInv, NEW s \in solos, NEW child \in Children(s), NEW E, NEW changed, NEW R,
           ActiveStep(s, child, E, changed, R)
    PROVE  SoloInv'
<1>1. /\ parent' = parent /\ solos' = solos /\ pc = "idle" /\ pc' = "idle"
      /\ active' = [active EXCEPT ![s] = child]
      /\ E = propagateCollapse(collapsed, s, active') /\ collapsed' = E
  BY DEF ActiveStep, graph, loop
<1>2. \A t : Children(t)' = Children(t)
  BY <1>1 DEF Children
<1>3. PICK act : act = active'
  OBVIOUS
<1>4. \A t \in solos \ {s} : act[t] = active[t]
  BY <1>1, <1>3 DEF TypeOK
<1>5. ShowsOne(s, collapsed, active, E, act)
  <2>1. collapsed \in SUBSET (2..N)
    BY DEF TypeOK
  <2>2. \A c \in 2..N : parent[c] \in collapsed => c \in collapsed
    BY DEF SoloInv
  <2>3. E = propagateCollapse(collapsed, s, act)
    BY <1>1, <1>3
  <2> QED
    BY <1>4, <2>1, <2>2, <2>3, PropagateShowsOne
<1>6. \A t \in solos : \A c \in Children(t) : c \in collapsed <=> (t \in collapsed \/ c # active[t])
  BY <1>1 DEF SoloInv
<1>7. \A t \in solos : \A c \in Children(t) : c \in E <=> (t \in E \/ c # act[t])
  BY <1>5, <1>6 DEF ShowsOne
<1> QED
  BY <1>1, <1>2, <1>3, <1>5, <1>7 DEF SoloInv, ShowsOne

-----------------------------------------------------------------------------
(* The update of a component, in terms of what it scrolls and what that    *)
(* reaches.                                                                *)

Spreads(D, cs, R) ==
    /\ \A c \in R : c \in Components /\ "World" \notin D[c]
    /\ \A c \in cs \cap Components : "World" \in D[c] \/ c \in R
    /\ \A c \in R : \A d \in Dependents(c) : "World" \in D[d] \/ d \in R
    /\ \A c \in R : c \in cs \/ \E p \in R : c \in Dependents(p)

UpdateStep(k, c, D, A, R) ==
    /\ pc = "updating" /\ k \in Todo /\ (\A j \in Todo : k <= j)
    /\ c = m_DependencyOrder[k] /\ c \in Components
    /\ D = [m_Dirt EXCEPT ![c] = {}]
    /\ \A a \in A : a \in Components /\ a < c
    /\ Spreads(D, A, R)
    /\ offset' \in [Components -> Int] /\ \A d \in Components \ A : offset'[d] = offset[d]
    /\ m_Dirt' = Mark(D, R, "World")
    /\ m_Transform' = [m_Transform EXCEPT ![c] = Transform(c)]
    /\ m_WorldTransform' =
           IF "World" \in m_Dirt[c]
           THEN [m_WorldTransform EXCEPT ![c] =
                    WorldOf(Transform(c), IF c = 1 THEN <<>> ELSE m_WorldTransform[parent[c]],
                            c, m_WorldTransform)]
           ELSE m_WorldTransform
    /\ AfterUpdate(k, R)
    /\ UNCHANGED <<graph, sorter, active, x, collapsed>>

LEMMA ReachedSpreads ==
    ASSUME NEW D, NEW cs PROVE Spreads(D, cs, Reached(D, cs, "World"))
<1>1. PICK R : R = Reached(D, cs, "World")
  OBVIOUS
<1> QED
  BY <1>1, ReachedIsClosed DEF Spreads

LEMMA PlacesAreNumbers ==
    ASSUME TypeOK
    PROVE  /\ \A k \in DOMAIN m_DependencyOrder :
                 k \in Nat \ {0} /\ m_DependencyOrder[k] \in Components
           /\ \A k : k \in Todo <=> /\ k \in DOMAIN m_DependencyOrder /\ i <= k
                                    /\ NeedsUpdate(m_DependencyOrder[k])
<1>1. m_DependencyOrder \in Seq(Components) /\ i \in Nat \ {0}
  BY DEF TypeOK
<1>2. /\ Len(m_DependencyOrder) \in Nat /\ DOMAIN m_DependencyOrder = 1..Len(m_DependencyOrder)
      /\ \A k \in DOMAIN m_DependencyOrder : m_DependencyOrder[k] \in Components
  BY <1>1
<1> QED
  BY <1>1, <1>2 DEF Todo

LEMMA UpdateSteps ==
    ASSUME TypeOK, Update
    PROVE  \E k, c, D, A, R : UpdateStep(k, c, D, A, R)
<1>1. PICK k \in Todo : /\ \A j \in Todo : k <= j
                        /\ UpdateAt(k, m_DependencyOrder[k])
  BY DEF Update
<1>2. PICK c : c = m_DependencyOrder[k]
  OBVIOUS
<1>3. PICK D : D = [m_Dirt EXCEPT ![c] = {}]
  OBVIOUS
<1>4. c \in Components
  BY <1>1, <1>2, PlacesAreNumbers
<1>5. /\ pc = "updating"
      /\ UNCHANGED <<graph, sorter, active, x, collapsed>>
  BY DEF Update
<1>6. /\ UpdateAt(k, c)
      /\ m_Transform' = [m_Transform EXCEPT ![c] = Transform(c)]
      /\ m_WorldTransform' =
             IF "World" \in m_Dirt[c]
             THEN [m_WorldTransform EXCEPT ![c] =
                      WorldOf(Transform(c), IF c = 1 THEN <<>> ELSE m_WorldTransform[parent[c]],
                              c, m_WorldTransform)]
             ELSE m_WorldTransform
  BY <1>1, <1>2 DEF UpdateAt
<1>7. ASSUME NEW A, NEW R, \A a \in A : a \in Components /\ a < c, Spreads(D, A, R),
             offset' \in [Components -> Int], \A d \in Components \ A : offset'[d] = offset[d],
             m_Dirt' = Mark(D, R, "World"), AfterUpdate(k, R)
      PROVE  \E kk, cc, DD, AA, RR : UpdateStep(kk, cc, DD, AA, RR)
  <2>1. UpdateStep(k, c, D, A, R)
    BY <1>1, <1>2, <1>3, <1>4, <1>5, <1>6, <1>7 DEF UpdateStep
  <2> QED
    BY <2>1, Zenon
<1>8. CASE m_Dirt' = D /\ AfterUpdate(k, {}) /\ UNCHANGED <<offset, changes>>
  <2>1. Spreads(D, {}, {})
    BY DEF Spreads
  <2>2. m_Dirt' = Mark(D, {}, "World")
    BY <1>3, <1>8 DEF Mark, TypeOK
  <2>3. offset' \in [Components -> Int]
    BY <1>8 DEF TypeOK
  <2> QED
    BY <1>7, <1>8, <2>1, <2>2, <2>3
<1>9. CASE \E a \in Ancestors(c) :
              LET world == Reached(D, {a}, "World")
              IN  /\ offset' = [offset EXCEPT ![a] = 3 - @]
                  /\ m_Dirt' = Mark(D, world, "World")
                  /\ AfterUpdate(k, world)
  <2>1. PICK a \in Ancestors(c) :
              LET world == Reached(D, {a}, "World")
              IN  /\ offset' = [offset EXCEPT ![a] = 3 - @]
                  /\ m_Dirt' = Mark(D, world, "World")
                  /\ AfterUpdate(k, world)
    BY <1>9
  <2>2. PICK R : R = Reached(D, {a}, "World")
    OBVIOUS
  <2>3. Spreads(D, {a}, R)
    BY <2>2, ReachedSpreads
  <2>4. a \in Components /\ a < c
    BY <1>4, <2>1, AncestorsAreAbove
  <2>5. offset' = [offset EXCEPT ![a] = 3 - @] /\ offset \in [Components -> Int]
    BY <2>1 DEF TypeOK
  <2>6. offset[a] \in Int /\ 3 - offset[a] \in Int
    BY <2>4, <2>5
  <2>7. offset' \in [Components -> Int] /\ \A d \in Components \ {a} : offset'[d] = offset[d]
    BY <2>4, <2>5, <2>6
  <2>8. m_Dirt' = Mark(D, R, "World") /\ AfterUpdate(k, R)
    BY <2>1, <2>2
  <2> QED
    BY <1>7, <2>3, <2>4, <2>7, <2>8
<1> QED
  BY <1>3, <1>6, <1>8, <1>9 DEF UpdateAt

(* How the loop goes on: a new pass, the end, or the next place.           *)
Going(k, R) ==
    \/ pc' = "updating" /\ i' = 1
    \/ pc' = "idle" /\ i' = 1 /\ more' = TRUE
    \/ /\ pc' = "updating" /\ i' = k + 1 /\ more' = (more \/ R # {})
       /\ ~ \E c \in R : Sorted(c) /\ graphOrder(c) < k

LEMMA AfterUpdateGoes ==
    ASSUME NEW k, NEW R, AfterUpdate(k, R)
    PROVE  Going(k, R)
  BY DEF AfterUpdate, Restart, Going

-----------------------------------------------------------------------------
(* Types.                                                                  *)

LEMMA MarkType ==
    ASSUME NEW D \in [Components -> SUBSET {"Transform", "World"}], NEW cs
    PROVE  /\ Mark(D, cs, "World") \in [Components -> SUBSET {"Transform", "World"}]
           /\ Mark(D, cs, "Transform") \in [Components -> SUBSET {"Transform", "World"}]
  BY DEF Mark

LEMMA TypeInit ==
    ASSUME Init PROVE TypeOK
<1>1. N \in Nat \ {0} /\ 1 \in Components
  BY SizeAssumption DEF Components
<1>2. /\ parent \in [Components -> 0..N] /\ parent[1] = None
      /\ \A c \in 2..N : parent[c] \in 1..(c - 1)
  BY TreeAssumption DEF Init
<1>3. m_DependencyOrder \in Seq(Components)
  BY DEF Init
<1> QED
  BY <1>1, <1>2, <1>3 DEF Init, TypeOK, None

LEMMA TypeFrame ==
    ASSUME TypeOK, UNCHANGED <<graph, sorter, active, x, offset, m_Transform, m_WorldTransform,
                               m_Dirt, collapsed>>,
           more' \in BOOLEAN, pc' \in {"sorting", "idle", "updating"}, i' \in Nat \ {0}
    PROVE  TypeOK'
  BY DEF TypeOK, graph, sorter

LEMMA TypeStep ==
    ASSUME TypeOK, SortInv, Next
    PROVE  TypeOK'
<1>1. CASE onAddedClean
  <2>1. /\ pc = "loading" /\ i \in Components /\ i \in 1..N /\ N \in Nat
        /\ UNCHANGED <<graph, sorter, active, x, offset, m_Transform, m_WorldTransform,
                       m_Dirt, more, step, changes>>
    BY <1>1, SizeAssumption DEF onAddedClean, TypeOK, Components
  <2>2. /\ pc' \in {"loading", "sorting"} /\ i' \in Nat \ {0}
        /\ pc' = "loading" => i' \in Components
    <3>1. CASE i = N
      BY <1>1, <3>1 DEF onAddedClean
    <3>2. CASE i # N
      BY <1>1, <2>1, <3>2 DEF onAddedClean, Components
    <3> QED
      BY <3>1, <3>2
  <2>3. collapsed' \subseteq 2..N
    BY <1>1, PropagateType DEF onAddedClean, TypeOK
  <2> QED
    BY <2>1, <2>2, <2>3 DEF TypeOK, graph, sorter
<1>2. CASE VisitDependent
  <2>1. PICK d \in Pending :
          IF d \in m_Temp
          THEN pc' = "idle" /\ UNCHANGED <<m_Temp, visiting, caller>>
          ELSE /\ m_Temp' = m_Temp \cup {d} /\ visiting' = d
               /\ caller' = [caller EXCEPT ![d] = visiting]
               /\ UNCHANGED pc
    BY <1>2 DEF VisitDependent
  <2>2. d \in Components /\ visiting \in 0..N
    BY SizeAssumption DEF Pending, Dependents, Children, TypeOK, Components
  <2>3. /\ m_Temp' \subseteq Components /\ visiting' \in Components
        /\ caller' \in [Components -> 0..N]
    <3>1. m_Temp \subseteq Components /\ visiting \in Components /\ caller \in [Components -> 0..N]
      BY DEF TypeOK
    <3>2. CASE d \in m_Temp
      BY <2>1, <3>1, <3>2
    <3>3. CASE d \notin m_Temp
      BY <2>1, <2>2, <3>1, <3>3
    <3> QED
      BY <3>2, <3>3
  <2>4. pc' \in {"sorting", "idle"}
    BY <1>2, <2>1 DEF VisitDependent
  <2>5. UNCHANGED <<m_DependencyOrder, graph, active, x, offset, m_Transform,
                    m_WorldTransform, m_Dirt, collapsed, more, i>>
    BY <1>2 DEF VisitDependent
  <2> QED
    BY <2>3, <2>4, <2>5 DEF TypeOK, graph
<1>3. CASE EndVisit
  <2>1. m_DependencyOrder' \in Seq(Components)
    BY <1>3, EndVisitStep
  <2>2. visiting' \in Components
    <3>1. caller[visiting] \in 0..N /\ visiting \in Components
      BY DEF TypeOK
    <3>2. caller[visiting] # None => caller[visiting] \in Components
      BY <3>1, SizeAssumption DEF Components, None
    <3> QED
      BY <3>1, <3>2, <1>3 DEF EndVisit
  <2>3. pc' \in {"sorting", "idle"}
    BY <1>3 DEF EndVisit
  <2>4. UNCHANGED <<m_Temp, caller, graph, active, x, offset, m_Transform,
                    m_WorldTransform, m_Dirt, collapsed, more, i>>
    BY <1>3 DEF EndVisit
  <2> QED
    BY <2>1, <2>2, <2>3, <2>4 DEF TypeOK, graph
<1>4. CASE SetProperty
  <2>1. PICK c \in 2..N : \E R : R = Reached(m_Dirt, {c}, "World") /\ PropertyStep(c, R)
    BY <1>4, SetPropertySteps
  <2>2. PICK R : PropertyStep(c, R)
    BY <2>1
  <2>3. m_Dirt' \in [Components -> SUBSET {"Transform", "World"}]
    <3>1. m_Dirt \in [Components -> SUBSET {"Transform", "World"}]
      BY DEF TypeOK
    <3>2. Mark(m_Dirt, {c}, "Transform") \in [Components -> SUBSET {"Transform", "World"}]
      BY <3>1, MarkType
    <3>3. Mark(Mark(m_Dirt, {c}, "Transform"), R, "World")
             \in [Components -> SUBSET {"Transform", "World"}]
      BY <3>2, MarkType
    <3> QED
      BY <2>2, <3>1, <3>3 DEF PropertyStep
  <2>4. x' \in [Components -> Int]
    <3>1. c \in Components
      BY <2>1, SizeAssumption DEF Components
    <3>2. x[c] \in Int /\ 3 - x[c] \in Int
      BY <3>1 DEF TypeOK
    <3> QED
      BY <2>2, <3>2 DEF PropertyStep, TypeOK
  <2>5. /\ UNCHANGED <<graph, sorter, offset, m_Transform, m_WorldTransform, loop, active,
                       collapsed>>
        /\ more' \in BOOLEAN /\ pc = "idle"
    BY <2>2 DEF PropertyStep, TypeOK
  <2> QED
    BY <2>3, <2>4, <2>5 DEF TypeOK, graph, sorter, loop
<1>5. CASE SetActive
  <2>1. PICK s \in solos : \E child \in Children(s) : \E E, changed, R :
            ActiveStep(s, child, E, changed, R)
    BY <1>5, SetActiveSteps
  <2>2. PICK child \in Children(s) : \E E, changed, R : ActiveStep(s, child, E, changed, R)
    BY <2>1
  <2>3. PICK E, changed, R : ActiveStep(s, child, E, changed, R)
    BY <2>2
  <2>4. child \in 0..N
    BY SizeAssumption DEF Children, Components
  <2>5. active' \in [Components -> 0..N]
    BY <2>3, <2>4 DEF ActiveStep, TypeOK
  <2>6. collapsed' \subseteq 2..N
    BY <2>3, PropagateType DEF ActiveStep
  <2>7. m_Dirt' \in [Components -> SUBSET {"Transform", "World"}]
    BY <2>3, MarkType DEF ActiveStep, TypeOK
  <2>8. /\ UNCHANGED <<graph, sorter, offset, m_Transform, m_WorldTransform, loop, x>>
        /\ more' \in BOOLEAN /\ pc = "idle"
    BY <2>3 DEF ActiveStep, TypeOK
  <2> QED
    BY <2>5, <2>6, <2>7, <2>8 DEF TypeOK, graph, sorter, loop
<1>6. CASE StartUpdate
  <2>1. /\ UNCHANGED <<graph, sorter, active, x, offset, m_Transform, m_WorldTransform,
                       m_Dirt, collapsed>>
    BY <1>6 DEF StartUpdate
  <2>3. more' = FALSE /\ pc' = "updating" /\ i' = 1
    BY <1>6 DEF StartUpdate
  <2>2. more' \in BOOLEAN
    BY <2>3, Zenon
  <2>4. pc' \in {"sorting", "idle", "updating"} /\ i' \in Nat \ {0}
    BY <2>3
  <2> QED
    BY <2>1, <2>2, <2>4, TypeFrame
<1>7. CASE Update
  <2>1. PICK k, c, D, A, R : UpdateStep(k, c, D, A, R)
    BY <1>7, UpdateSteps
  <2>2. D \in [Components -> SUBSET {"Transform", "World"}]
    BY <2>1 DEF UpdateStep, TypeOK
  <2>3. m_Dirt' \in [Components -> SUBSET {"Transform", "World"}]
    BY <2>1, <2>2, MarkType DEF UpdateStep
  <2>4. m_Transform' \in [Components -> Int]
    <3>1. Transform(c) \in Int
      BY <2>1 DEF UpdateStep, TypeOK, Transform
    <3> QED
      BY <2>1, <3>1 DEF UpdateStep, TypeOK
  <2>5. DOMAIN m_WorldTransform' = Components
    BY <2>1 DEF UpdateStep, TypeOK
  <2>6. k \in Nat
    BY <2>1, PlacesAreNumbers DEF UpdateStep
  <2>7. more' \in BOOLEAN
    BY <2>1 DEF UpdateStep, AfterUpdate, Restart, TypeOK
  <2>8. pc' \in {"idle", "updating"} /\ i' \in Nat \ {0}
    <3>1. Going(k, R)
      BY <2>1, AfterUpdateGoes DEF UpdateStep
    <3> QED
      BY <2>6, <3>1 DEF Going
  <2>9. /\ UNCHANGED <<graph, sorter, active, x, collapsed>>
        /\ offset' \in [Components -> Int]
    BY <2>1 DEF UpdateStep
  <2> QED
    BY <2>3, <2>4, <2>5, <2>7, <2>8, <2>9 DEF TypeOK, graph, sorter
<1>8. CASE EndPass
  <2>1. more' \in BOOLEAN /\ pc' \in {"idle", "updating"} /\ i' = 1
    BY <1>8 DEF EndPass, Restart, TypeOK
  <2> QED
    BY <1>8, <2>1, TypeFrame DEF EndPass
<1>9. CASE Rest
  BY <1>9, TypeFrame DEF Rest, vars, loop, TypeOK
<1> QED
  BY <1>1, <1>2, <1>3, <1>4, <1>5, <1>6, <1>7, <1>8, <1>9 DEF Next

-----------------------------------------------------------------------------
(* What is dirty is announced.                                             *)

DirtInv ==
    /\ DirtIsAnnounced
    /\ pc = "updating" => \A k \in DOMAIN m_DependencyOrder :
          k < i /\ NeedsUpdate(m_DependencyOrder[k]) => more
    /\ Starting => more

LEMMA DirtStep ==
    ASSUME TypeOK, DirtInv, Next
    PROVE  DirtInv'
<1>1. CASE onAddedClean \/ VisitDependent \/ EndVisit
  <2>1. Starting /\ more' = more /\ pc' # "updating"
    BY <1>1 DEF onAddedClean, VisitDependent, EndVisit, Starting
  <2> QED
    BY <2>1 DEF DirtInv, DirtIsAnnounced
<1>2. CASE SetProperty
  <2>1. PICK c \in 2..N : \E R : R = Reached(m_Dirt, {c}, "World") /\ PropertyStep(c, R)
    BY <1>2, SetPropertySteps
  <2>2. PICK R : PropertyStep(c, R)
    BY <2>1
  <2>3. /\ pc = "idle" /\ pc' = "idle" /\ m_DependencyOrder' = m_DependencyOrder
        /\ collapsed' = collapsed
        /\ more' = TRUE \/ (m_Dirt' = m_Dirt /\ more' = more)
    BY <2>2 DEF PropertyStep, sorter, loop
  <2> QED
    BY <2>3 DEF DirtInv, DirtIsAnnounced, Sorted, NeedsUpdate, Starting
<1>3. CASE SetActive
  <2>1. PICK s \in solos : \E child \in Children(s) : \E E, changed, R :
            ActiveStep(s, child, E, changed, R)
    BY <1>3, SetActiveSteps
  <2>2. PICK child \in Children(s) : \E E, changed, R : ActiveStep(s, child, E, changed, R)
    BY <2>1
  <2>3. PICK E, changed, R : ActiveStep(s, child, E, changed, R)
    BY <2>2
  <2>4. /\ pc = "idle" /\ pc' = "idle" /\ m_DependencyOrder' = m_DependencyOrder
        /\ more' = (more \/ changed \cup R # {})
        /\ collapsed' = E /\ changed = (E \ collapsed) \cup (collapsed \ E)
        /\ m_Dirt' = Mark(m_Dirt, R, "World")
    BY <2>3 DEF ActiveStep, sorter, loop
  <2>5. ~more' => collapsed' = collapsed /\ m_Dirt' = m_Dirt /\ ~more
    BY <2>4 DEF Mark, TypeOK
  <2> QED
    BY <2>4, <2>5 DEF DirtInv, DirtIsAnnounced, Sorted, NeedsUpdate, Starting
<1>4. CASE StartUpdate
  BY <1>4, PlacesAreNumbers DEF StartUpdate, DirtInv, DirtIsAnnounced, Starting, sorter
<1>5. CASE Update
  <2>1. PICK k, c, D, A, R : UpdateStep(k, c, D, A, R)
    BY <1>5, UpdateSteps
  <2>2. Going(k, R)
    BY <2>1, AfterUpdateGoes DEF UpdateStep
  <2>3. /\ m_DependencyOrder' = m_DependencyOrder /\ collapsed' = collapsed /\ pc = "updating"
        /\ k \in Todo /\ (\A j \in Todo : k <= j) /\ c = m_DependencyOrder[k] /\ c \in Components
        /\ D = [m_Dirt EXCEPT ![c] = {}] /\ m_Dirt' = Mark(D, R, "World")
    BY <2>1 DEF UpdateStep, sorter
  <2>4. ASSUME NEW j \in DOMAIN m_DependencyOrder, j < k + 1, NeedsUpdate(m_DependencyOrder[j])',
               R = {}
        PROVE  more
    <3>1. j \in Nat /\ k \in Nat /\ i \in Nat /\ m_DependencyOrder[j] \in Components
      BY <2>3, PlacesAreNumbers DEF TypeOK
    <3>2. m_Dirt'[m_DependencyOrder[j]] = D[m_DependencyOrder[j]]
      BY <2>3, <2>4, <3>1 DEF Mark
    <3>3. m_DependencyOrder[j] # c /\ NeedsUpdate(m_DependencyOrder[j])
      BY <2>3, <2>4, <3>1, <3>2 DEF NeedsUpdate, TypeOK
    <3>4. j # k /\ j < k
      BY <2>3, <2>4, <3>1, <3>3
    <3>5. j \notin Todo
      BY <2>3, <3>1, <3>4
    <3>6. j < i
      BY <3>1, <3>3, <3>5, PlacesAreNumbers
    <3> QED
      BY <2>3, <3>3, <3>6 DEF DirtInv
  <2>5. CASE pc' = "updating" /\ i' = 1
    BY <2>3, <2>5, PlacesAreNumbers DEF DirtInv, DirtIsAnnounced, Starting
  <2>6. CASE pc' = "idle" /\ i' = 1 /\ more' = TRUE
    BY <2>6 DEF DirtInv, DirtIsAnnounced, Starting
  <2>7. CASE pc' = "updating" /\ i' = k + 1 /\ more' = (more \/ R # {})
    BY <2>3, <2>4, <2>7 DEF DirtInv, DirtIsAnnounced, Starting
  <2> QED
    BY <2>2, <2>5, <2>6, <2>7 DEF Going
<1>6. CASE EndPass
  <2>1. /\ pc = "updating" /\ Todo = {} /\ i' = 1
        /\ UNCHANGED <<m_DependencyOrder, m_Dirt, collapsed>>
        /\ pc' = "updating" \/ (pc' = "idle" /\ more' = more)
    BY <1>6 DEF EndPass, Restart, sorter
  <2>2. ASSUME NEW c \in Components, Sorted(c), NeedsUpdate(c) PROVE more
    <3>1. PICK k \in DOMAIN m_DependencyOrder : m_DependencyOrder[k] = c
      BY <2>2 DEF Sorted
    <3>2. k \in Nat /\ i \in Nat /\ ~(i <= k)
      BY <2>1, <2>2, <3>1, PlacesAreNumbers DEF TypeOK
    <3> QED
      BY <2>1, <2>2, <3>1, <3>2 DEF DirtInv
  <2> QED
    BY <2>1, <2>2, PlacesAreNumbers DEF DirtInv, DirtIsAnnounced, Starting, Sorted, NeedsUpdate
<1>7. CASE Rest
  BY <1>7 DEF Rest, vars, loop, sorter, DirtInv, DirtIsAnnounced, Starting, Sorted, NeedsUpdate
<1> QED
  BY <1>1, <1>2, <1>3, <1>4, <1>5, <1>6, <1>7 DEF Next

-----------------------------------------------------------------------------
(* World transforms.  What is clean has the transform that the present     *)
(* properties and the transforms it depends on give, and what depends on a *)
(* dirty component is dirty, unless its target is hidden.  The order makes *)
(* the loop come to a component after all that it depends on.              *)

Regular == Acyclic /\ \A c \in Components : target[c] \notin solos
Dirty(c) == "World" \in m_Dirt[c]
Current(c) ==
    m_WorldTransform[c] =
        WorldOf(x[c], IF c = 1 THEN <<>> ELSE m_WorldTransform[parent[c]], c, m_WorldTransform)

DirtDescends ==
    /\ \A c \in Components : "Transform" \in m_Dirt[c] => Dirty(c)
    /\ \A c \in 2..N : Dirty(parent[c]) => Dirty(c)
    /\ \A c \in Components :
          target[c] # None /\ target[c] \notin collapsed /\ Dirty(target[c]) => Dirty(c)

CleanIsCurrent ==
    /\ \A c \in Components : "Transform" \in m_Dirt[c] \/ m_Transform[c] = x[c]
    /\ \A c \in Components : Dirty(c) \/ Current(c)

PassIsClean ==
    pc = "updating" =>
        \A k \in DOMAIN m_DependencyOrder : k < i => ~NeedsUpdate(m_DependencyOrder[k])

WorldInv ==
    Regular =>
        /\ Starting => \A c \in Components : Dirty(c)
        /\ DirtDescends
        /\ CleanIsCurrent
        /\ PassIsClean

LEMMA RegularStays ==
    ASSUME UNCHANGED graph PROVE Regular' <=> Regular
<1>1. \A c : Dependents(c)' = Dependents(c)
  BY DEF graph, Dependents, Children
<1>2. Acyclic' <=> Acyclic
  BY <1>1 DEF Acyclic
<1> QED
  BY <1>2 DEF graph, Regular

LEMMA WorldInit ==
    ASSUME Init PROVE WorldInv
<1>1. \A c \in Components : Dirty(c) /\ "Transform" \in m_Dirt[c]
  BY DEF Init, Dirty
<1>2. pc = "loading"
  BY DEF Init
<1>3. N \in Nat /\ 2..N \subseteq Components
  BY SizeAssumption DEF Components
<1> QED
  BY <1>1, <1>2, <1>3 DEF WorldInv, DirtDescends, CleanIsCurrent, PassIsClean

LEMMA WorldFrame ==
    ASSUME WorldInv,
           UNCHANGED <<graph, x, offset, m_Transform, m_WorldTransform, m_Dirt, collapsed>>,
           Starting' => Starting, PassIsClean'
    PROVE  WorldInv'
<1>1. Regular' <=> Regular
  BY RegularStays
<1>2. \A c : (Dirty(c)' <=> Dirty(c)) /\ (Current(c)' <=> Current(c))
  BY DEF Dirty, Current, WorldOf, graph
<1>3. DirtDescends' <=> DirtDescends
  BY <1>2 DEF DirtDescends, graph
<1>4. CleanIsCurrent' <=> CleanIsCurrent
  BY <1>2 DEF CleanIsCurrent
<1> QED
  BY <1>1, <1>2, <1>3, <1>4 DEF WorldInv

LEMMA WorldLoad ==
    ASSUME TypeOK, WorldInv, onAddedClean
    PROVE  WorldInv'
<1>1. /\ Starting /\ pc' # "updating"
      /\ UNCHANGED <<graph, x, offset, m_Transform, m_WorldTransform, m_Dirt>>
  BY DEF onAddedClean, Starting
<1>2. Regular' <=> Regular
  BY <1>1, RegularStays
<1>3. ASSUME Regular PROVE \A c \in Components : Dirty(c)'
  BY <1>1, <1>3 DEF WorldInv, Dirty
<1>4. ASSUME Regular
      PROVE  \A c \in Components : "Transform" \in m_Dirt'[c] \/ m_Transform'[c] = x'[c]
  BY <1>1, <1>4 DEF WorldInv, CleanIsCurrent
<1>5. N \in Nat /\ 2..N \subseteq Components
  BY SizeAssumption DEF Components
<1> QED
  BY <1>1, <1>2, <1>3, <1>4, <1>5 DEF WorldInv, DirtDescends, CleanIsCurrent, PassIsClean

LEMMA WorldProperty ==
    ASSUME TypeOK, WorldInv, NEW c \in 2..N, NEW R, Spreads(m_Dirt, {c}, R), PropertyStep(c, R)
    PROVE  WorldInv'
<1>1. /\ pc = "idle" /\ pc' = "idle" /\ parent' = parent /\ target' = target /\ solos' = solos
      /\ offset' = offset /\ m_Transform' = m_Transform /\ m_WorldTransform' = m_WorldTransform
      /\ collapsed' = collapsed /\ x' = [x EXCEPT ![c] = 3 - @]
  BY DEF PropertyStep, graph, loop
<1>2. Regular' <=> Regular
  BY <1>1, RegularStays DEF graph
<1>3. ~Starting' /\ PassIsClean'
  BY <1>1 DEF Starting, PassIsClean
<1>4. \A d \in Components : d # c => x'[d] = x[d]
  BY <1>1 DEF TypeOK
<1>5. \A d \in Components : d # c => (Current(d)' <=> Current(d))
  BY <1>1, <1>4 DEF Current, WorldOf
<1>6. c \in Components /\ N \in Nat /\ 2..N \subseteq Components
  BY SizeAssumption DEF Components
<1>7. SUFFICES ASSUME Regular PROVE DirtDescends' /\ CleanIsCurrent'
  BY <1>2, <1>3 DEF WorldInv
<1>8. DirtDescends /\ CleanIsCurrent
  BY <1>7 DEF WorldInv
<1>9. CASE "Transform" \in m_Dirt[c] /\ m_Dirt' = m_Dirt
  <2>1. \A d : Dirty(d)' <=> Dirty(d)
    BY <1>9 DEF Dirty
  <2>2. Dirty(c)
    BY <1>6, <1>8, <1>9 DEF DirtDescends
  <2> QED
    BY <1>1, <1>4, <1>5, <1>8, <1>9, <2>1, <2>2 DEF DirtDescends, CleanIsCurrent
<1>10. CASE m_Dirt' = Mark(Mark(m_Dirt, {c}, "Transform"), R, "World")
  <2>1. \A d \in Components :
            /\ Dirty(d)' <=> (Dirty(d) \/ d \in R)
            /\ "Transform" \in m_Dirt'[d] <=> ("Transform" \in m_Dirt[d] \/ d = c)
    BY <1>10 DEF Mark, Dirty
  <2>2. Dirty(c)'
    BY <1>6, <2>1 DEF Spreads, Dirty
  <2>3. ASSUME NEW d \in Components, NEW p \in Components, d \in Dependents(p), Dirty(p)',
               Dirty(p) => Dirty(d)
        PROVE  Dirty(d)'
    BY <2>1, <2>3 DEF Spreads, Dirty
  <2>4. \A d \in 2..N : Dirty(parent[d])' => Dirty(d)'
    <3> SUFFICES ASSUME NEW d \in 2..N, Dirty(parent[d])' PROVE Dirty(d)'
      OBVIOUS
    <3>1. d \in Components /\ d # 1
      BY <1>6
    <3>2. parent[d] \in Components /\ d \in Dependents(parent[d])
      BY <3>1, ParentIsBefore
    <3>3. Dirty(parent[d]) => Dirty(d)
      BY <1>8 DEF DirtDescends
    <3>4. PICK p : p = parent[d]
      OBVIOUS
    <3>5. Dirty(p)'
      BY <3>4, <1>1 DEF Dirty
    <3> QED
      BY <2>3, <3>1, <3>2, <3>3, <3>4, <3>5
  <2>5. \A d \in Components :
            target[d] # None /\ target[d] \notin collapsed /\ Dirty(target[d])' => Dirty(d)'
    <3> SUFFICES ASSUME NEW d \in Components, target[d] # None, target[d] \notin collapsed,
                        Dirty(target[d])'
                 PROVE  Dirty(d)'
      OBVIOUS
    <3>1. target[d] \in Components /\ d \in Dependents(target[d])
      BY TargetIsComponent
    <3>2. Dirty(target[d]) => Dirty(d)
      BY <1>8 DEF DirtDescends
    <3>4. PICK p : p = target[d]
      OBVIOUS
    <3>5. Dirty(p)'
      BY <3>4, <1>1 DEF Dirty
    <3> QED
      BY <2>3, <3>1, <3>2, <3>4, <3>5
  <2>6. DirtDescends'
    <3>1. \A d \in Components : "Transform" \in m_Dirt'[d] => Dirty(d)'
      BY <2>1, <2>2, <1>8 DEF DirtDescends
    <3> QED
      BY <1>1, <2>4, <2>5, <3>1 DEF DirtDescends, Dirty
  <2>7. CleanIsCurrent'
    BY <1>1, <1>4, <1>5, <1>8, <2>1, <2>2 DEF CleanIsCurrent
  <2> QED
    BY <2>6, <2>7
<1> QED
  BY <1>9, <1>10 DEF PropertyStep

LEMMA WorldActive ==
    ASSUME TypeOK, WorldInv, NEW s \in solos, NEW child, NEW E, NEW changed, NEW R,
           ActiveStep(s, child, E, changed, R)
    PROVE  WorldInv'
<1>1. /\ pc = "idle" /\ pc' = "idle" /\ parent' = parent /\ target' = target /\ solos' = solos
      /\ x' = x /\ offset' = offset /\ m_Transform' = m_Transform
      /\ m_WorldTransform' = m_WorldTransform /\ collapsed' = E
      /\ changed = (E \ collapsed) \cup (collapsed \ E)
      /\ m_Dirt' = Mark(m_Dirt, R, "World")
  BY DEF ActiveStep, graph, loop
<1>2. Regular' <=> Regular
  BY <1>1, RegularStays DEF graph
<1>3. ~Starting' /\ PassIsClean'
  BY <1>1 DEF Starting, PassIsClean
<1>4. Spreads(m_Dirt, Told(changed), R)
  BY ReachedSpreads DEF ActiveStep
<1>5. \A d \in Components :
          /\ Dirty(d)' <=> (Dirty(d) \/ d \in R)
          /\ "Transform" \in m_Dirt'[d] <=> "Transform" \in m_Dirt[d]
  BY <1>1 DEF Mark, Dirty
<1>6. N \in Nat /\ 2..N \subseteq Components
  BY SizeAssumption DEF Components
<1>7. SUFFICES ASSUME Regular PROVE DirtDescends' /\ CleanIsCurrent'
  BY <1>2, <1>3 DEF WorldInv
<1>8. DirtDescends /\ CleanIsCurrent
  BY <1>7 DEF WorldInv
<1>9. ASSUME NEW d \in Components, NEW p \in Components, d \in Dependents(p), Dirty(p)',
             Dirty(p) => Dirty(d)
      PROVE  Dirty(d)'
  BY <1>5, <1>9, <1>4 DEF Spreads, Dirty
(* Who is constrained to what is shown or hidden now is told.              *)
<1>10. ASSUME NEW d \in Components, target[d] # None, target[d] \in changed
       PROVE  Dirty(d)'
  <2>1. target[d] \notin solos /\ target[d] \in changed \ solos
    BY <1>7, <1>10 DEF Regular
  <2>2. d \in Told(changed)
    BY <1>10, <2>1, TargetIsComponent DEF Told
  <2> QED
    BY <1>4, <1>5, <2>2 DEF Spreads, Dirty
<1>11. \A d \in 2..N : Dirty(parent[d])' => Dirty(d)'
  <2> SUFFICES ASSUME NEW d \in 2..N, Dirty(parent[d])' PROVE Dirty(d)'
    OBVIOUS
  <2>1. d \in Components /\ d # 1
    BY <1>6
  <2>2. parent[d] \in Components /\ d \in Dependents(parent[d])
    BY <2>1, ParentIsBefore
  <2>3. Dirty(parent[d]) => Dirty(d)
    BY <1>8 DEF DirtDescends
  <2>4. PICK p : p = parent[d]
    OBVIOUS
  <2>5. Dirty(p)'
    BY <2>4, <1>1 DEF Dirty
  <2> QED
    BY <1>9, <2>1, <2>2, <2>3, <2>4, <2>5
<1>12. \A d \in Components :
           target[d] # None /\ target[d] \notin E /\ Dirty(target[d])' => Dirty(d)'
  <2> SUFFICES ASSUME NEW d \in Components, target[d] # None, target[d] \notin E,
                      Dirty(target[d])'
               PROVE  Dirty(d)'
    OBVIOUS
  <2>1. CASE target[d] \in collapsed
    BY <1>1, <1>10, <2>1
  <2>2. CASE target[d] \notin collapsed
    <3>1. target[d] \in Components /\ d \in Dependents(target[d])
      BY TargetIsComponent
    <3>2. Dirty(target[d]) => Dirty(d)
      BY <1>8, <2>2 DEF DirtDescends
    <3>3. PICK p : p = target[d]
      OBVIOUS
    <3>4. Dirty(p)'
      BY <3>3, <1>1 DEF Dirty
    <3> QED
      BY <1>9, <3>1, <3>2, <3>3, <3>4
  <2> QED
    BY <2>1, <2>2
<1>13. DirtDescends'
  <2>1. \A d \in Components : "Transform" \in m_Dirt'[d] => Dirty(d)'
    BY <1>5, <1>8 DEF DirtDescends
  <2> QED
    BY <1>1, <1>11, <1>12, <2>1 DEF DirtDescends, Dirty
<1>14. CleanIsCurrent'
  <2>1. ASSUME NEW d \in Components, ~Dirty(d)' PROVE Current(d)'
    <3>1. target[d] # None => (target[d] \in E <=> target[d] \in collapsed)
      BY <1>1, <1>10, <2>1
    <3>2. Current(d)
      BY <1>5, <1>8, <2>1 DEF CleanIsCurrent
    <3> QED
      BY <1>1, <3>1, <3>2 DEF Current, WorldOf
  <2>2. \A d \in Components : "Transform" \in m_Dirt'[d] \/ m_Transform'[d] = x'[d]
    BY <1>1, <1>5, <1>8 DEF CleanIsCurrent
  <2> QED
    BY <2>1, <2>2 DEF CleanIsCurrent
<1> QED
  BY <1>13, <1>14

(* What a component depends on has an earlier place; when the loop has     *)
(* come to the component it needs no update.                               *)
LEMMA EarlierIsDone ==
    ASSUME TypeOK, SortInv, Regular, PassIsClean, NEW k, NEW c, NEW D, NEW A, NEW R,
           UpdateStep(k, c, D, A, R)
    PROVE  /\ graphOrder(c) = k
           /\ \A d \in Components : c \in Dependents(d) =>
                 Sorted(d) /\ graphOrder(d) < k /\ ~NeedsUpdate(d)
           /\ \A j \in DOMAIN m_DependencyOrder : j < k => ~NeedsUpdate(m_DependencyOrder[j])
<1>1. /\ pc = "updating" /\ k \in Todo /\ (\A j \in Todo : k <= j)
      /\ c = m_DependencyOrder[k] /\ c \in Components
  BY DEF UpdateStep
<1>2. \A d \in Components : Sorted(d)
  <2>1. Sorted(1)
    BY <1>1 DEF SortInv, Starting, Regular
  <2> QED
    BY <2>1, AllArePlaced
<1>3. k \in DOMAIN m_DependencyOrder /\ i <= k
  BY <1>1, PlacesAreNumbers
<1>4. ASSUME NEW j \in DOMAIN m_DependencyOrder, j < k PROVE ~NeedsUpdate(m_DependencyOrder[j])
  <2>1. j \in Nat /\ k \in Nat /\ i \in Nat
    BY <1>3, PlacesAreNumbers DEF TypeOK
  <2>2. CASE j < i
    BY <1>1, <2>2 DEF PassIsClean
  <2>3. CASE i <= j
    <3>1. j \notin Todo
      BY <1>1, <1>4, <2>1
    <3> QED
      BY <2>3, <3>1, PlacesAreNumbers
  <2> QED
    BY <2>1, <2>2, <2>3
<1>5. graphOrder(c) = k
  BY <1>1, <1>3, PlaceOf
<1>6. ASSUME NEW d \in Components, c \in Dependents(d)
      PROVE  Sorted(d) /\ graphOrder(d) < k /\ ~NeedsUpdate(d)
  <2>1. Sorted(d) /\ graphOrder(d) < k
    BY <1>2, <1>5, <1>6, OrderIsRight DEF OrderRespectsDependents
  <2>2. PICK j \in DOMAIN m_DependencyOrder : m_DependencyOrder[j] = d
    BY <2>1 DEF Sorted
  <2>3. graphOrder(d) = j
    BY <2>2, PlaceOf
  <2> QED
    BY <1>4, <2>1, <2>2, <2>3
<1> QED
  BY <1>4, <1>5, <1>6

LEMMA WorldUpdate ==
    ASSUME TypeOK, SortInv, SoloInv, WorldInv, NEW k, NEW c, NEW D, NEW A, NEW R,
           UpdateStep(k, c, D, A, R)
    PROVE  WorldInv'
<1>1. /\ pc = "updating" /\ k \in Todo /\ c \in Components
      /\ D = [m_Dirt EXCEPT ![c] = {}]
      /\ \A a \in A : a \in Components /\ a < c
      /\ Spreads(D, A, R)
      /\ \A d \in Components \ A : offset'[d] = offset[d]
      /\ m_Dirt' = Mark(D, R, "World")
      /\ m_Transform' = [m_Transform EXCEPT ![c] = Transform(c)]
      /\ parent' = parent /\ target' = target /\ solos' = solos /\ x' = x
      /\ collapsed' = collapsed /\ m_DependencyOrder' = m_DependencyOrder
  BY DEF UpdateStep, graph, sorter
<1>2. m_WorldTransform' =
          IF "World" \in m_Dirt[c]
          THEN [m_WorldTransform EXCEPT ![c] =
                   WorldOf(Transform(c), IF c = 1 THEN <<>> ELSE m_WorldTransform[parent[c]],
                           c, m_WorldTransform)]
          ELSE m_WorldTransform
  BY DEF UpdateStep
<1>3. Regular' <=> Regular
  BY <1>1, RegularStays DEF graph
<1>4. Going(k, R)
  BY AfterUpdateGoes DEF UpdateStep
<1>5. ~Starting'
  BY <1>4 DEF Going, Starting
<1>6. N \in Nat /\ 2..N \subseteq Components /\ Components \subseteq Nat
  BY SizeAssumption DEF Components
<1>7. SUFFICES ASSUME Regular PROVE DirtDescends' /\ CleanIsCurrent' /\ PassIsClean'
  BY <1>3, <1>5 DEF WorldInv
<1>8. DirtDescends /\ CleanIsCurrent /\ PassIsClean
  BY <1>7 DEF WorldInv
<1>9. /\ graphOrder(c) = k
      /\ \A d \in Components : c \in Dependents(d) =>
            Sorted(d) /\ graphOrder(d) < k /\ ~NeedsUpdate(d)
      /\ \A j \in DOMAIN m_DependencyOrder : j < k => ~NeedsUpdate(m_DependencyOrder[j])
  BY <1>7, <1>8, EarlierIsDone
<1>10. c \notin collapsed /\ k \in DOMAIN m_DependencyOrder /\ c = m_DependencyOrder[k]
       /\ k \in Nat
  BY <1>1, PlacesAreNumbers DEF NeedsUpdate, UpdateStep
<1>11. c \notin Dependents(c)
  BY <1>1, <1>9, <1>10
<1>12. \A d \in Components :
           /\ D[d] = IF d = c THEN {} ELSE m_Dirt[d]
           /\ "World" \in D[d] <=> (d # c /\ Dirty(d))
           /\ Dirty(d)' <=> ((d # c /\ Dirty(d)) \/ d \in R)
           /\ "Transform" \in m_Dirt'[d] <=> (d # c /\ "Transform" \in m_Dirt[d])
  BY <1>1 DEF Mark, Dirty, TypeOK
(* Neither the parent of the component nor its target is dirty.            *)
<1>13. c # 1 => parent[c] # c /\ ~Dirty(parent[c])
  <2> SUFFICES ASSUME c # 1 PROVE parent[c] # c /\ ~Dirty(parent[c])
    OBVIOUS
  <2>1. c \in 2..N /\ parent[c] \in Components /\ c \in Dependents(parent[c])
    BY <1>1, ParentIsBefore
  <2>2. parent[c] \notin collapsed
    BY <1>10, <2>1 DEF SoloInv
  <2>3. ~NeedsUpdate(parent[c])
    BY <1>9, <2>1
  <2> QED
    BY <1>11, <2>1, <2>2, <2>3 DEF NeedsUpdate, Dirty
<1>14. target[c] # None /\ target[c] \notin collapsed =>
           target[c] # c /\ ~Dirty(target[c])
  <2> SUFFICES ASSUME target[c] # None, target[c] \notin collapsed
               PROVE  target[c] # c /\ ~Dirty(target[c])
    OBVIOUS
  <2>1. target[c] \in Components /\ c \in Dependents(target[c])
    BY <1>1, TargetIsComponent
  <2>2. ~NeedsUpdate(target[c])
    BY <1>9, <2>1
  <2> QED
    BY <1>11, <2>1, <2>2 DEF NeedsUpdate, Dirty
<1>15. ASSUME NEW d \in Components, NEW p \in Components, d \in Dependents(p), Dirty(p)',
              Dirty(p) => Dirty(d), d = c => ~Dirty(p)
       PROVE  Dirty(d)'
  <2>1. CASE p \in R
    <3>1. "World" \in D[d] \/ d \in R
      BY <1>1, <1>15, <2>1 DEF Spreads
    <3> QED
      BY <1>12, <3>1
  <2>2. CASE Dirty(p)
    BY <1>12, <1>15, <2>2
  <2> QED
    BY <1>12, <1>15, <2>1, <2>2
<1>16. DirtDescends'
  <2>1. \A d \in Components : "Transform" \in m_Dirt'[d] => Dirty(d)'
    BY <1>8, <1>12 DEF DirtDescends
  <2>2. ASSUME NEW d \in 2..N, Dirty(parent[d])' PROVE Dirty(d)'
    <3>1. d \in Components /\ d # 1
      BY <1>6
    <3>2. parent[d] \in Components /\ d \in Dependents(parent[d])
      BY <3>1, ParentIsBefore
    <3>3. Dirty(parent[d]) => Dirty(d)
      BY <1>8 DEF DirtDescends
    <3>4. PICK p : p = parent[d]
      OBVIOUS
    <3>5. Dirty(p)'
      BY <3>4, <1>1, <2>2 DEF Dirty
    <3>6. d = c => ~Dirty(p)
      BY <3>1, <3>4, <1>13
    <3> QED
      BY <1>15, <3>1, <3>2, <3>3, <3>4, <3>5, <3>6
  <2>3. ASSUME NEW d \in Components, target[d] # None, target[d] \notin collapsed,
               Dirty(target[d])'
        PROVE  Dirty(d)'
    <3>1. target[d] \in Components /\ d \in Dependents(target[d])
      BY <2>3, TargetIsComponent
    <3>2. Dirty(target[d]) => Dirty(d)
      BY <1>8, <2>3 DEF DirtDescends
    <3>3. PICK p : p = target[d]
      OBVIOUS
    <3>4. Dirty(p)'
      BY <3>3, <1>1, <2>3 DEF Dirty
    <3>5. d = c => ~Dirty(p)
      BY <3>3, <1>14, <2>3
    <3> QED
      BY <1>15, <3>1, <3>2, <3>3, <3>4, <3>5
  <2> QED
    BY <1>1, <2>1, <2>2, <2>3 DEF DirtDescends, Dirty
<1>17. ASSUME NEW d \in Components, d # c \/ ~Dirty(c)
       PROVE  m_WorldTransform'[d] = m_WorldTransform[d]
  BY <1>2, <1>17 DEF Dirty, TypeOK
<1>18. ASSUME NEW d \in Components, ~Dirty(d)' PROVE Current(d)'
  <2>1. d \notin A /\ d \notin R /\ (d = c \/ ~Dirty(d))
    <3>1. d \in A => "World" \in D[d] \/ d \in R
      BY <1>1 DEF Spreads
    <3> QED
      BY <1>12, <1>18, <3>1
  <2>2. offset'[d] = offset[d]
    BY <1>1, <2>1
  <2>3. d # 1 => m_WorldTransform'[parent[d]] = m_WorldTransform[parent[d]]
    <3> SUFFICES ASSUME d # 1 PROVE m_WorldTransform'[parent[d]] = m_WorldTransform[parent[d]]
      OBVIOUS
    <3>1. d \in 2..N /\ parent[d] \in Components
      BY ParentIsBefore
    <3>2. parent[d] = c => ~Dirty(c)
      BY <1>8, <1>13, <2>1, <3>1 DEF DirtDescends
    <3> QED
      BY <1>17, <3>1, <3>2
  <2>4. target[d] # None /\ target[d] \notin collapsed =>
            m_WorldTransform'[target[d]] = m_WorldTransform[target[d]]
    <3> SUFFICES ASSUME target[d] # None, target[d] \notin collapsed
                 PROVE  m_WorldTransform'[target[d]] = m_WorldTransform[target[d]]
      OBVIOUS
    <3>1. target[d] \in Components
      BY TargetIsComponent
    <3>2. target[d] = c => ~Dirty(c)
      BY <1>8, <1>14, <2>1 DEF DirtDescends
    <3> QED
      BY <1>17, <3>1, <3>2
  <2>5. m_WorldTransform'[d] =
            WorldOf(x[d], IF d = 1 THEN <<>> ELSE m_WorldTransform[parent[d]], d, m_WorldTransform)
    <3>1. CASE d = c /\ Dirty(c)
      <4>1. Transform(c) = x[c]
        BY <1>1, <1>8 DEF Transform, CleanIsCurrent
      <4>2. PICK w : w = WorldOf(x[c], IF c = 1 THEN <<>> ELSE m_WorldTransform[parent[c]],
                                 c, m_WorldTransform)
        OBVIOUS
      <4>3. m_WorldTransform' = [m_WorldTransform EXCEPT ![c] = w]
        BY <1>2, <3>1, <4>1, <4>2 DEF Dirty
      <4>4. m_WorldTransform'[c] = w
        BY <1>1, <4>3 DEF TypeOK
      <4> QED
        BY <3>1, <4>2, <4>4
    <3>2. CASE ~Dirty(d)
      <4>1. Current(d)
        BY <1>8, <3>2 DEF CleanIsCurrent
      <4>2. d # c \/ ~Dirty(c)
        BY <3>2
      <4> QED
        BY <1>17, <4>1, <4>2 DEF Current
    <3> QED
      BY <2>1, <3>1, <3>2
  <2> QED
    BY <1>1, <2>2, <2>3, <2>4, <2>5 DEF Current, WorldOf
<1>19. CleanIsCurrent'
  <2>1. ASSUME NEW d \in Components, "Transform" \notin m_Dirt'[d] PROVE m_Transform'[d] = x[d]
    <3>1. CASE d = c
      BY <1>1, <1>8, <3>1 DEF Transform, CleanIsCurrent, TypeOK
    <3>2. CASE d # c
      BY <1>1, <1>8, <1>12, <2>1, <3>2 DEF CleanIsCurrent, TypeOK
    <3> QED
      BY <3>1, <3>2
  <2> QED
    BY <1>1, <1>18, <2>1 DEF CleanIsCurrent
<1>20. PassIsClean'
  <2>1. CASE (pc' = "updating" /\ i' = 1) \/ pc' = "idle"
    BY <1>1, <2>1, PlacesAreNumbers DEF PassIsClean
  <2>2. CASE /\ pc' = "updating" /\ i' = k + 1
             /\ ~ \E d \in R : Sorted(d) /\ graphOrder(d) < k
    <3>1. ASSUME NEW j \in DOMAIN m_DependencyOrder, j < k + 1, NEW e, e = m_DependencyOrder[j]
          PROVE  m_Dirt'[e] = {} \/ e \in collapsed
      <4>1. j \in Nat /\ e \in Components /\ graphOrder(e) = j /\ Sorted(e)
        BY <3>1, PlacesAreNumbers, PlaceOf DEF Sorted
      <4>2. e \in R => e = c
        BY <1>10, <2>2, <3>1, <4>1
      <4>3. c \notin R
        <5> SUFFICES ASSUME c \in R PROVE FALSE
          OBVIOUS
        <5>1. c \notin A
          <6>1. c \in Nat
            BY <1>1, <1>6
          <6> QED
            BY <6>1, <1>1
        <5>2. PICK p \in R : c \in Dependents(p)
          BY <5>1, <1>1 DEF Spreads
        <5>3. p \in Components
          BY <1>1 DEF Spreads
        <5> QED
          BY <1>9, <2>2, <5>2, <5>3
      <4>4. m_Dirt'[e] = D[e]
        BY <1>1, <4>1, <4>2, <4>3 DEF Mark
      <4>5. CASE e = c
        BY <1>12, <4>1, <4>4, <4>5
      <4>6. CASE e # c
        <5>1. j < k
          BY <1>10, <3>1, <4>1, <4>6
        <5>2. ~NeedsUpdate(e)
          BY <1>9, <3>1, <5>1
        <5> QED
          BY <1>12, <4>1, <4>4, <4>6, <5>2 DEF NeedsUpdate
      <4> QED
        BY <4>5, <4>6
    <3> QED
      BY <1>1, <2>2, <3>1 DEF PassIsClean, NeedsUpdate
  <2> QED
    BY <2>1, <2>2, <1>4 DEF Going
<1> QED
  BY <1>16, <1>19, <1>20

-----------------------------------------------------------------------------
(* The computation from nothing: one equation for each component, which    *)
(* Expected solves when there is no cycle, since along the order each      *)
(* value comes from earlier ones.                                          *)
Value(g, d) ==
    <<x[d], offset[d], IF d = 1 THEN <<>> ELSE g[parent[d]],
      IF target[d] = None \/ target[d] \in collapsed THEN <<>> ELSE g[target[d]]>>

Uses(d) == {p \in Components : d \in Dependents(p) /\ (p = parent[d] \/ p \notin collapsed)}

LEMMA ValueUses ==
    ASSUME TypeOK, NEW d \in Components, NEW g, NEW h, \A p \in Uses(d) : g[p] = h[p]
    PROVE  Value(g, d) = Value(h, d)
<1>1. d # 1 => g[parent[d]] = h[parent[d]]
  <2> SUFFICES ASSUME d # 1 PROVE g[parent[d]] = h[parent[d]]
    OBVIOUS
  <2>1. parent[d] \in Uses(d)
    BY ParentIsBefore DEF Uses
  <2> QED
    BY <2>1
<1>2. target[d] # None /\ target[d] \notin collapsed => g[target[d]] = h[target[d]]
  <2> SUFFICES ASSUME target[d] # None, target[d] \notin collapsed
               PROVE  g[target[d]] = h[target[d]]
    OBVIOUS
  <2>1. target[d] \in Uses(d)
    BY TargetIsComponent DEF Uses
  <2> QED
    BY <2>1
<1> QED
  BY <1>1, <1>2 DEF Value

LEMMA UsesAreEarlier ==
    ASSUME TypeOK, SortInv, \A c \in Components : Sorted(c),
           NEW k \in DOMAIN m_DependencyOrder, NEW p \in Uses(m_DependencyOrder[k])
    PROVE  \E j \in DOMAIN m_DependencyOrder : j < k /\ m_DependencyOrder[j] = p
<1>1. p \in Components /\ m_DependencyOrder[k] \in Dependents(p)
  BY DEF Uses
<1>2. PICK j \in DOMAIN m_DependencyOrder : m_DependencyOrder[j] = p
  BY <1>1 DEF Sorted
<1>3. graphOrder(p) < graphOrder(m_DependencyOrder[k])
  BY <1>1, OrderIsRight DEF OrderRespectsDependents
<1>4. graphOrder(p) = j /\ graphOrder(m_DependencyOrder[k]) = k
  BY <1>2, PlaceOf
<1> QED
  BY <1>2, <1>3, <1>4

Solves(g) == g = [d \in Components |-> Value(g, d)]

LEMMA SolutionExists ==
    ASSUME TypeOK, SortInv, \A c \in Components : Sorted(c)
    PROVE  \E g : Solves(g)
<1>1. PICK q : q = m_DependencyOrder
  OBVIOUS
<1>2. PICK n \in Nat : n = Len(q) /\ DOMAIN q = 1..n
  BY <1>1 DEF TypeOK
<1>3. \A k \in 1..n : q[k] \in Components
  BY <1>1, <1>2, PlacesAreNumbers
<1>4. \A k \in 1..n : \A p \in Uses(q[k]) : \E j \in 1..n : j < k /\ q[j] = p
  BY <1>1, <1>2, UsesAreEarlier
<1>5. \A j, k \in 1..n : q[j] = q[k] => j = k
  BY <1>1, <1>2 DEF SortInv, PlacedOnce
<1>6. \A d \in Components : \E k \in 1..n : q[k] = d
  BY <1>1, <1>2 DEF Sorted
<1> DEFINE Upto(m, g) == /\ g = [d \in Components |-> g[d]]
                         /\ \A k \in 1..n : k <= m => g[q[k]] = Value(g, q[k])
<1>7. PICK T : T = {m \in 0..n : ~ \E g : Upto(m, g)}
  OBVIOUS
<1>8. T = {}
  <2> SUFFICES ASSUME T # {} PROVE FALSE
    OBVIOUS
  <2>1. T \in SUBSET Nat
    BY <1>2, <1>7
  <2>2. PICK m \in T : \A k \in T : m <= k
    BY <2>1, LeastElement
  <2>3. m \in 0..n /\ ~ \E g : Upto(m, g)
    BY <1>7
  <2>4. m # 0
    <3>1. Upto(0, [d \in Components |-> 0])
      BY <1>2
    <3> QED
      BY <3>1, <2>3
  <2>5. m \in 1..n /\ m - 1 \in 0..n /\ m - 1 \notin T
    BY <2>1, <2>2, <2>3, <2>4, <1>2
  <2>6. PICK g : Upto(m - 1, g)
    BY <2>5, <1>7
  <2>7. PICK v : v = Value(g, q[m])
    OBVIOUS
  <2>8. PICK h : h = [d \in Components |-> IF d = q[m] THEN v ELSE g[d]]
    OBVIOUS
  <2>9. \A d \in Components : h[d] = IF d = q[m] THEN v ELSE g[d]
    BY <2>8
  <2>10. ASSUME NEW k \in 1..n, k <= m PROVE h[q[k]] = Value(h, q[k])
    <3>1. ASSUME NEW p \in Uses(q[k]) PROVE g[p] = h[p]
      <4>1. PICK j \in 1..n : j < k /\ q[j] = p
        BY <1>4
      <4>2. j # m
        BY <4>1, <2>5, <2>10
      <4>3. p # q[m] /\ p \in Components
        BY <4>1, <4>2, <1>3, <1>5, <2>5
      <4> QED
        BY <2>9, <4>3
    <3>2. q[k] \in Components
      BY <1>3
    <3>3. Value(g, q[k]) = Value(h, q[k])
      BY <3>1, <3>2, ValueUses
    <3>4. CASE k = m
      BY <2>7, <2>9, <3>2, <3>3, <3>4
    <3>5. CASE k # m
      <4>1. k <= m - 1
        BY <2>5, <2>10, <3>5
      <4>2. g[q[k]] = Value(g, q[k])
        BY <2>6, <4>1
      <4>3. q[k] # q[m]
        BY <1>5, <2>5, <3>5
      <4> QED
        BY <2>9, <3>2, <3>3, <4>2, <4>3
    <3> QED
      BY <3>4, <3>5
  <2>11. Upto(m, h)
    BY <2>8, <2>10
  <2> QED
    BY <2>3, <2>11
<1>9. PICK g : Upto(n, g)
  BY <1>2, <1>7, <1>8
<1>10. \A d \in Components : g[d] = Value(g, d)
  BY <1>2, <1>6, <1>9
<1>11. Solves(g)
  BY <1>9, <1>10 DEF Solves
<1> QED
  BY <1>11

LEMMA ExpectedSolves ==
    ASSUME TypeOK, SortInv, \A c \in Components : Sorted(c)
    PROVE  \A c \in Components : Expected[c] = Value(Expected, c)
<1>1. PICK g : Solves(g)
  BY SolutionExists
<1>2. PICK f : f = CHOOSE h : Solves(h)
  OBVIOUS
<1>3. Solves(f)
  BY <1>1, <1>2
<1>4. Expected = f
  BY <1>2 DEF Expected, Solves, Value
<1> QED
  BY <1>3, <1>4 DEF Solves

(* With nothing left to update the transforms solve the same equations for *)
(* what is shown, and the least place where they differed would depend on  *)
(* an earlier one.                                                         *)
LEMMA CleanIsRight ==
    ASSUME TypeOK, SortInv, SoloInv, DirtInv, WorldInv
    PROVE  WorldsAreRight
<1>1. SUFFICES ASSUME \A c \in Components : target[c] \notin solos, pc = "idle", ~more, Acyclic
               PROVE  \A c \in Components \ collapsed : m_WorldTransform[c] = Expected[c]
  BY DEF WorldsAreRight, AllRight
<1>2. Regular /\ CleanIsCurrent
  BY <1>1 DEF Regular, WorldInv
<1>3. \A c \in Components : Sorted(c)
  <2>1. Sorted(1)
    BY <1>1 DEF SortInv, Starting
  <2> QED
    BY <2>1, AllArePlaced
<1>4. ASSUME NEW c \in Components, c \notin collapsed
      PROVE  m_WorldTransform[c] = Value(m_WorldTransform, c)
  <2>1. m_Dirt[c] = {}
    BY <1>1, <1>3, <1>4 DEF DirtInv, DirtIsAnnounced, NeedsUpdate
  <2> QED
    BY <1>2, <1>4, <2>1 DEF CleanIsCurrent, Dirty, Current, WorldOf, Value
<1>5. ASSUME NEW c \in Components, c \notin collapsed, NEW p \in Uses(c)
      PROVE  p \notin collapsed
  <2>1. CASE p = parent[c]
    <3>1. c \in 2..N
      <4>1. p \in Components
        BY DEF Uses
      <4>2. c # 1
        BY <2>1, <4>1, RootIsComponent DEF TypeOK
      <4> QED
        BY <1>5, <4>2, ParentIsBefore
    <3> QED
      BY <1>5, <2>1, <3>1 DEF SoloInv
  <2>2. CASE p # parent[c]
    BY <2>2 DEF Uses
  <2> QED
    BY <2>1, <2>2
<1>6. PICK W : W = m_WorldTransform
  OBVIOUS
<1>7. PICK E : E = Expected
  OBVIOUS
<1>8. PICK T : T = {k \in DOMAIN m_DependencyOrder :
                       /\ m_DependencyOrder[k] \notin collapsed
                       /\ W[m_DependencyOrder[k]] # E[m_DependencyOrder[k]]}
  OBVIOUS
<1>9. T = {}
  <2> SUFFICES ASSUME T # {} PROVE FALSE
    OBVIOUS
  <2>1. T \in SUBSET Nat
    BY <1>8, PlacesAreNumbers
  <2>2. PICK k \in T : \A j \in T : k <= j
    BY <2>1, LeastElement
  <2>3. PICK c : c = m_DependencyOrder[k]
    OBVIOUS
  <2>4. c \in Components /\ c \notin collapsed /\ W[c] # E[c] /\ k \in DOMAIN m_DependencyOrder
    BY <1>8, <2>2, <2>3, PlacesAreNumbers
  <2>5. ASSUME NEW p \in Uses(c) PROVE W[p] = E[p]
    <3>1. PICK j \in DOMAIN m_DependencyOrder : j < k /\ m_DependencyOrder[j] = p
      BY <1>3, <2>3, <2>4, UsesAreEarlier
    <3>2. p \notin collapsed
      BY <1>5, <2>4
    <3>3. j \in Nat /\ k \in Nat
      BY <2>4, <3>1, PlacesAreNumbers
    <3>4. j \notin T
      BY <2>2, <3>1, <3>3
    <3> QED
      BY <1>8, <3>1, <3>2, <3>4
  <2>6. W[c] = Value(W, c)
    BY <1>4, <1>6, <2>4
  <2>7. E[c] = Value(E, c)
    BY <1>3, <1>7, <2>4, ExpectedSolves
  <2>8. Value(W, c) = Value(E, c)
    BY <2>4, <2>5, ValueUses
  <2> QED
    BY <2>4, <2>6, <2>7, <2>8
<1> SUFFICES ASSUME NEW c \in Components, c \notin collapsed PROVE W[c] = E[c]
  BY <1>6, <1>7
<1>10. PICK k \in DOMAIN m_DependencyOrder : m_DependencyOrder[k] = c
  BY <1>3 DEF Sorted
<1> QED
  BY <1>8, <1>9, <1>10

-----------------------------------------------------------------------------
(* The inductive invariant.                                                *)

IInv == TypeOK /\ SortInv /\ SoloInv /\ DirtInv /\ WorldInv

LEMMA InitIInv == Init => IInv
<1> SUFFICES ASSUME Init PROVE IInv
  OBVIOUS
<1>1. TypeOK
  BY TypeInit
<1>2. SortInv
  BY SortInit
<1>3. pc = "loading" /\ i = 1 /\ collapsed = {} /\ more = TRUE
  BY DEF Init
<1>4. SoloInv
  <2>1. \A s \in solos : ~(s < 1)
    BY <1>1, SizeAssumption DEF TypeOK
  <2> QED
    BY <1>3, <2>1 DEF SoloInv
<1>5. DirtInv
  BY <1>3 DEF DirtInv, DirtIsAnnounced
<1>6. WorldInv
  BY WorldInit
<1> QED
  BY <1>1, <1>2, <1>4, <1>5, <1>6 DEF IInv

LEMMA NextIInv == IInv /\ [Next]_vars => IInv'
<1> SUFFICES ASSUME IInv, [Next]_vars PROVE IInv'
  OBVIOUS
<1>1. TypeOK /\ SortInv /\ SoloInv /\ DirtInv /\ WorldInv
  BY DEF IInv
<1>2. CASE UNCHANGED vars
  <2>1. UNCHANGED <<graph, sorter, loop>>
    BY <1>2 DEF vars
  <2>2. TypeOK'
    BY <1>1, <1>2, <2>1 DEF TypeOK, vars, graph, sorter, loop
  <2>3. SortInv'
    BY <1>1, <2>1, SortFrame DEF Starting, loop
  <2>4. SoloInv'
    BY <1>1, <1>2 DEF SoloInv, Children, vars, graph, loop
  <2>5. DirtInv'
    BY <1>1, <1>2 DEF DirtInv, DirtIsAnnounced, Sorted, NeedsUpdate, Starting, vars, sorter, loop
  <2>6. WorldInv'
    <3>1. PassIsClean' <=> PassIsClean
      BY <1>2 DEF PassIsClean, NeedsUpdate, vars, sorter, loop
    <3>2. Regular' <=> Regular
      BY <2>1, RegularStays
    <3>3. \A c : (Dirty(c)' <=> Dirty(c)) /\ (Current(c)' <=> Current(c))
      BY <1>2 DEF Dirty, Current, WorldOf, vars, graph
    <3>4. (DirtDescends' <=> DirtDescends) /\ (CleanIsCurrent' <=> CleanIsCurrent)
      BY <1>2, <3>3 DEF DirtDescends, CleanIsCurrent, vars, graph
    <3> QED
      BY <1>1, <1>2, <3>1, <3>2, <3>3, <3>4 DEF WorldInv, Starting, vars, loop
  <2> QED
    BY <2>2, <2>3, <2>4, <2>5, <2>6 DEF IInv
<1>3. CASE Next
  <2>1. TypeOK'
    BY <1>1, <1>3, TypeStep
  <2>2. DirtInv'
    BY <1>1, <1>3, DirtStep
  <2>3. CASE onAddedClean
    <3>1. UNCHANGED <<graph, sorter>> /\ Starting /\ Starting'
      BY <2>3 DEF onAddedClean, Starting
    <3>2. SortInv'
      BY <1>1, <3>1, SortFrame
    <3> QED
      BY <1>1, <2>1, <2>2, <2>3, <3>2, SoloLoad, WorldLoad DEF IInv
  <2>4. CASE VisitDependent \/ EndVisit
    <3>1. SortInv'
      BY <1>1, <2>4, VisitStep, EndVisitStep
    <3>2. /\ UNCHANGED <<graph, x, offset, m_Transform, m_WorldTransform, m_Dirt, collapsed>>
          /\ UNCHANGED <<graph, active, collapsed>>
          /\ pc = "sorting" /\ pc' \in {"sorting", "idle"}
      BY <2>4 DEF VisitDependent, EndVisit
    <3>3. SoloInv'
      BY <1>1, <3>2, SoloFrame
    <3>4. WorldInv'
      BY <1>1, <3>2, WorldFrame DEF Starting, PassIsClean
    <3> QED
      BY <2>1, <2>2, <3>1, <3>3, <3>4 DEF IInv
  <2>5. CASE SetProperty
    <3>1. PICK c \in 2..N : \E R : R = Reached(m_Dirt, {c}, "World") /\ PropertyStep(c, R)
      BY <1>1, <2>5, SetPropertySteps
    <3>2. PICK R : R = Reached(m_Dirt, {c}, "World") /\ PropertyStep(c, R)
      BY <3>1
    <3>3. UNCHANGED <<graph, sorter, active, collapsed>> /\ pc = "idle" /\ pc' = "idle"
      BY <3>2 DEF PropertyStep, loop
    <3>4. SortInv'
      BY <1>1, <3>3, SortFrame DEF Starting
    <3>5. SoloInv'
      BY <1>1, <3>3, SoloFrame
    <3>6. Spreads(m_Dirt, {c}, R)
      BY <3>2, ReachedSpreads
    <3>7. WorldInv'
      BY <1>1, <3>2, <3>6, WorldProperty
    <3> QED
      BY <2>1, <2>2, <3>4, <3>5, <3>7 DEF IInv
  <2>6. CASE SetActive
    <3>1. PICK s \in solos : \E child \in Children(s) : \E E, changed, R :
              ActiveStep(s, child, E, changed, R)
      BY <1>1, <2>6, SetActiveSteps
    <3>2. PICK child \in Children(s) : \E E, changed, R : ActiveStep(s, child, E, changed, R)
      BY <3>1
    <3>3. PICK E, changed, R : ActiveStep(s, child, E, changed, R)
      BY <3>2
    <3>4. UNCHANGED <<graph, sorter>> /\ pc = "idle" /\ pc' = "idle"
      BY <3>3 DEF ActiveStep, loop
    <3>5. SortInv'
      BY <1>1, <3>4, SortFrame DEF Starting
    <3>6. SoloInv'
      BY <1>1, <3>3, SoloActive
    <3>7. WorldInv'
      BY <1>1, <3>3, WorldActive
    <3> QED
      BY <2>1, <2>2, <3>5, <3>6, <3>7 DEF IInv
  <2>7. CASE StartUpdate \/ EndPass
    <3>1. /\ UNCHANGED <<graph, x, offset, m_Transform, m_WorldTransform, m_Dirt, collapsed>>
          /\ UNCHANGED <<graph, sorter>> /\ UNCHANGED <<graph, active, collapsed>>
          /\ pc \in {"idle", "updating"} /\ pc' \in {"idle", "updating"} /\ i' = 1
      BY <2>7 DEF StartUpdate, EndPass, Restart
    <3>2. SortInv'
      BY <1>1, <3>1, SortFrame DEF Starting
    <3>3. SoloInv'
      BY <1>1, <3>1, SoloFrame
    <3>4. PassIsClean'
      BY <1>1, <3>1, PlacesAreNumbers DEF PassIsClean, sorter
    <3>5. WorldInv'
      BY <1>1, <3>1, <3>4, WorldFrame DEF Starting
    <3> QED
      BY <2>1, <2>2, <3>2, <3>3, <3>5 DEF IInv
  <2>8. CASE Update
    <3>1. PICK k, c, D, A, R : UpdateStep(k, c, D, A, R)
      BY <1>1, <2>8, UpdateSteps
    <3>2. /\ UNCHANGED <<graph, sorter>> /\ UNCHANGED <<graph, active, collapsed>>
          /\ pc = "updating"
      BY <3>1 DEF UpdateStep
    <3>3. pc' \in {"idle", "updating"}
      BY <3>1, AfterUpdateGoes DEF UpdateStep, Going
    <3>4. SortInv'
      BY <1>1, <3>2, <3>3, SortFrame DEF Starting
    <3>5. SoloInv'
      BY <1>1, <3>2, <3>3, SoloFrame
    <3>6. WorldInv'
      BY <1>1, <3>1, WorldUpdate
    <3> QED
      BY <2>1, <2>2, <3>4, <3>5, <3>6 DEF IInv
  <2>9. CASE Rest
    <3>1. UNCHANGED vars
      BY <2>9 DEF Rest
    <3> QED
      BY <1>2, <3>1
  <2> QED
    BY <1>3, <2>3, <2>4, <2>5, <2>6, <2>7, <2>8, <2>9 DEF Next
<1> QED
  BY <1>2, <1>3

LEMMA Invariant == Spec => []IInv
  BY InitIInv, NextIInv, PTL DEF Spec

(* The types of the update pass.                                           *)
THEOREM UpdateTypeCorrect == Spec => []TypeOK
<1>1. IInv => TypeOK
  BY DEF IInv
<1> QED
  BY <1>1, Invariant, PTL

(* The sort of the dependency graph: a component comes once and before all *)
(* that depends on it, also when a cycle has ended the sort; without a     *)
(* cycle it misses none.                                                   *)
THEOREM OrderIsTopological == Spec => []OrderRespectsDependents
<1>1. IInv => OrderRespectsDependents
  BY OrderIsRight DEF IInv
<1> QED
  BY <1>1, Invariant, PTL

(* A solo shows its active child and no other, however solos contain each  *)
(* other and in whatever order they change.                                *)
THEOREM SolosShowTheirChild == Spec => []SoloShowsOne
<1>1. IInv => SoloShowsOne
  BY DEF IInv, SoloInv, SoloShowsOne
<1> QED
  BY <1>1, Invariant, PTL

(* However many passes an update makes, and wherever it gives up, a shown  *)
(* component that is dirty has its artboard's flag set.                    *)
THEOREM NothingDirtyIsForgotten == Spec => []DirtIsAnnounced
<1>1. IInv => DirtIsAnnounced
  BY DEF IInv, DirtInv
<1> QED
  BY <1>1, Invariant, PTL

(* Updating only what is dirty, in the order, gives what a computation     *)
(* from nothing gives, for every artboard without cycles in which no       *)
(* constraint has a solo as its target.                                    *)
THEOREM IncrementalIsComplete == Spec => []WorldsAreRight
<1>1. IInv => WorldsAreRight
  BY CleanIsRight DEF IInv
<1> QED
  BY <1>1, Invariant, PTL

=============================================================================
