-------------------------- MODULE DataBindsProofs --------------------------
(* A dirty bind waits in a list, what an artboard at rest shows agrees with *)
(* the view model, and a bind that applies its source first does not write *)
(* back what it got from there.                                            *)
(*                                                                         *)
(* Every call of a pass changes the values, the properties and the lists   *)
(* in a few ways only: Carries says in which, for all binds but the one    *)
(* that the call is about.  The calls are taken one by one, from the       *)
(* innermost outwards, and the steps of the pass are made of them.         *)
EXTENDS DataBinds, FiniteSetTheorems, SequenceTheorems, TLAPS

-----------------------------------------------------------------------------
(* Lists of binds.                                                         *)

(* InOrder enumerates a set of binds, in ascending order.                  *)
LEMMA InOrderEnumerates ==
    ASSUME NEW m \in Nat, NEW P \in SUBSET (1..m)
    PROVE  /\ Cardinality(P) \in Nat
           /\ InOrder(P) \in [1..Cardinality(P) -> P]
           /\ \A i, j \in 1..Cardinality(P) : i < j => InOrder(P)[i] < InOrder(P)[j]
           /\ \A p \in P : \E i \in 1..Cardinality(P) : InOrder(P)[i] = p
<1> DEFINE N == Cardinality(P)
           Upto(p) == {x \in P : x <= p}
           rank == [p \in P |-> Cardinality(Upto(p))]
           Ascends(e) == \A i, j \in DOMAIN e : i < j => e[i] < e[j]
<1>0. \A p \in P : p \in Int
  OBVIOUS
<1>1. IsFiniteSet(P) /\ N \in Nat
  <2>1. IsFiniteSet(1..m)
    BY FS_Interval
  <2> QED
    BY <2>1, FS_Subset, FS_CardinalityType
<1>2. IsFiniteSet(1..N) /\ Cardinality(1..N) = N
  BY <1>1, FS_Interval
<1>3. \A p \in P : IsFiniteSet(Upto(p)) /\ Cardinality(Upto(p)) \in Nat /\ rank[p] \in 1..N
  <2> SUFFICES ASSUME NEW p \in P
               PROVE  IsFiniteSet(Upto(p)) /\ Cardinality(Upto(p)) \in Nat /\ rank[p] \in 1..N
    OBVIOUS
  <2>1. Upto(p) \in SUBSET P /\ p \in Upto(p)
    OBVIOUS
  <2>2. IsFiniteSet(Upto(p)) /\ Cardinality(Upto(p)) <= N
    BY <1>1, <2>1, FS_Subset
  <2>3. Cardinality(Upto(p)) \in Nat /\ Cardinality(Upto(p)) # 0
    BY <2>1, <2>2, FS_CardinalityType, FS_EmptySet
  <2>4. rank[p] = Cardinality(Upto(p))
    OBVIOUS
  <2> HIDE DEF rank, Upto, N
  <2> QED
    BY <1>1, <2>2, <2>3, <2>4
<1>4. \A p, r \in P : p < r => rank[p] < rank[r]
  <2> SUFFICES ASSUME NEW p \in P, NEW r \in P, p < r
               PROVE  rank[p] < rank[r]
    OBVIOUS
  <2>1. Upto(p) \in SUBSET Upto(r) /\ r \in Upto(r) /\ r \notin Upto(p)
    <3>1. \A x \in P : x <= p => x <= r
      BY <1>0
    <3>2. ~(r <= p) /\ r <= r
      BY <1>0
    <3> QED
      BY <3>1, <3>2
  <2>2. Cardinality(Upto(p)) <= Cardinality(Upto(r)) /\ Cardinality(Upto(p)) # Cardinality(Upto(r))
    BY <1>3, <2>1, FS_Subset
  <2>3. rank[p] = Cardinality(Upto(p)) /\ rank[r] = Cardinality(Upto(r))
    OBVIOUS
  <2> HIDE DEF rank, Upto
  <2> QED
    BY <1>3, <2>2, <2>3
<1>5. \A n \in 1..N : \E p \in P : rank[p] = n
  <2>1. rank \in [P -> 1..N]
    BY <1>3
  <2>2. \A p, r \in P : rank[p] = rank[r] => p = r
    <3>1. \A p \in P : p \in Int /\ rank[p] \in Int
      BY <1>0, <1>3
    <3> HIDE DEF rank
    <3> QED
      BY <1>4, <3>1
  <2> HIDE DEF rank
  <2>3. rank \in Injection(P, 1..N)
    BY <2>1, <2>2 DEF Injection, IsInjective
  <2>4. rank \in Surjection(P, 1..N)
    BY <1>2, <2>3, FS_Injection
  <2> QED
    BY <2>4 DEF Surjection
<1>6. \E e \in [1..N -> P] : Ascends(e)
  <2> DEFINE f == [n \in 1..N |-> CHOOSE p \in P : rank[p] = n]
  <2>1. \A n \in 1..N : f[n] \in P /\ rank[f[n]] = n
    <3> HIDE DEF rank
    <3> QED
      BY <1>5
  <2>2. f \in [1..N -> P]
    BY <2>1
  <2>3. Ascends(f)
    <3> SUFFICES ASSUME NEW i \in 1..N, NEW j \in 1..N, i < j, ~(f[i] < f[j])
                 PROVE  FALSE
      BY <2>2
    <3>1. f[i] \in P /\ f[j] \in P /\ rank[f[i]] = i /\ rank[f[j]] = j
      BY <2>1
    <3>2. f[i] \in Int /\ f[j] \in Int
      BY <1>0, <3>1
    <3> HIDE DEF f, rank
    <3>3. f[i] = f[j] \/ f[j] < f[i]
      BY <3>2
    <3>4. CASE f[i] = f[j]
      BY <3>1, <3>4
    <3>5. CASE f[j] < f[i]
      <4>1. rank[f[j]] < rank[f[i]]
        BY <1>4, <3>1, <3>5
      <4> QED
        BY <3>1, <4>1
    <3> QED
      BY <3>3, <3>4, <3>5
  <2> QED
    BY <2>2, <2>3
<1>7. InOrder(P) \in [1..N -> P] /\ Ascends(InOrder(P))
  BY <1>6 DEF InOrder
<1> DEFINE e == InOrder(P)
<1>8. \A i, j \in 1..N : i < j => e[i] < e[j]
  BY <1>7
<1>9. \A p \in P : \E i \in 1..N : e[i] = p
  <2>1. \A i, j \in 1..N : e[i] = e[j] => i = j
    <3>1. \A i \in 1..N : e[i] \in Int
      BY <1>0, <1>7
    <3> HIDE DEF e
    <3> QED
      BY <1>8, <3>1
  <2>2. e \in Injection(1..N, P)
    BY <1>7, <2>1 DEF Injection, IsInjective
  <2>3. e \in Surjection(1..N, P)
    BY <1>1, <1>2, <2>2, FS_Injection
  <2> QED
    BY <2>3 DEF Surjection
<1> QED
  BY <1>1, <1>7, <1>8, <1>9

(* What is added to a list: the binds that it does not hold yet.           *)
LEMMA Adds ==
    ASSUME NEW s \in Seq(Binds), NEW T \in SUBSET Binds
    PROVE  LET u == s \o InOrder(T \ Elements(s)) IN
           /\ u \in Seq(Binds) /\ Elements(u) = Elements(s) \cup T
           /\ \A j \in DOMAIN s : j \in DOMAIN u /\ u[j] = s[j]
           /\ T = {} => u = s
<1> DEFINE P == T \ Elements(s)
           n == Cardinality(P)
           a == InOrder(P)
           u == s \o a
<1>1. P \in SUBSET (1..Count) /\ Count \in Nat
  BY BindAssumption DEF Binds
<1>2. /\ n \in Nat /\ a \in [1..n -> P]
      /\ \A p \in P : \E i \in 1..n : a[i] = p
  <2> HIDE DEF P
  <2> QED
    BY <1>1, InOrderEnumerates
<1>3. a \in Seq(Binds) /\ Len(a) = n /\ DOMAIN a = 1..n
  <2>1. P \in SUBSET Binds
    OBVIOUS
  <2> HIDE DEF P, n, a
  <2>2. a \in [1..n -> Binds]
    BY <1>2, <2>1
  <2> QED
    BY <1>2, <2>2
<1>4. /\ u \in Seq(Binds) /\ Len(u) = Len(s) + n /\ Len(s) \in Nat
      /\ DOMAIN u = 1..Len(u) /\ DOMAIN s = 1..Len(s)
      /\ \A j \in 1..Len(s) : u[j] = s[j]
      /\ \A i \in 1..n : u[Len(s) + i] = a[i]
  <2> HIDE DEF P, n, a
  <2> QED
    BY <1>2, <1>3
<1>5. \A j \in DOMAIN s : j \in DOMAIN u /\ u[j] = s[j]
  <2> HIDE DEF P, n, a, u
  <2> QED
    BY <1>2, <1>4
<1>6. \A x \in Elements(s) \cup T : x \in Elements(u)
  <2> SUFFICES ASSUME NEW x \in Elements(s) \cup T  PROVE x \in Elements(u)
    OBVIOUS
  <2>1. CASE x \in Elements(s)
    <3> HIDE DEF u
    <3> QED
      BY <1>5, <2>1 DEF Elements
  <2>2. CASE x \notin Elements(s)
    <3>1. PICK i \in 1..n : a[i] = x
      BY <1>2, <2>2
    <3> HIDE DEF P, n, a, u
    <3>2. u[Len(s) + i] = x /\ Len(s) + i \in DOMAIN u
      BY <1>2, <1>4, <3>1
    <3> QED
      BY <3>2 DEF Elements
  <2> QED
    BY <2>1, <2>2
<1>7. \A x \in Elements(u) : x \in Elements(s) \cup T
  <2> SUFFICES ASSUME NEW j \in DOMAIN u  PROVE u[j] \in Elements(s) \cup T
    BY DEF Elements
  <2>1. CASE j <= Len(s)
    <3> HIDE DEF P, n, a, u
    <3>1. j \in DOMAIN s /\ u[j] = s[j]
      BY <1>4, <2>1
    <3> QED
      BY <3>1 DEF Elements
  <2>2. CASE ~(j <= Len(s))
    <3>1. a[j - Len(s)] \in P /\ u[j] = a[j - Len(s)]
      <4> HIDE DEF P, n, a, u
      <4>1. j - Len(s) \in 1..n /\ j = Len(s) + (j - Len(s))
        BY <1>2, <1>4, <2>2
      <4> QED
        BY <1>2, <1>4, <4>1
    <3> QED
      BY <3>1
  <2> QED
    BY <2>1, <2>2
<1>8. T = {} => u = s
  <2> SUFFICES ASSUME T = {}  PROVE u = s
    OBVIOUS
  <2>1. P = {}
    OBVIOUS
  <2>2. n = 0
    BY <2>1, FS_EmptySet
  <2>3. Len(a) = 0 /\ a = <<>>
    <3> HIDE DEF P, n, a
    <3> QED
      BY <1>3, <2>2, EmptySeq
  <2> HIDE DEF a
  <2> QED
    BY <2>3
<1>9. Elements(u) = Elements(s) \cup T
  BY <1>6, <1>7
<1> QED
  BY <1>4, <1>5, <1>8, <1>9

-----------------------------------------------------------------------------
(* What a call may do.                                                     *)

States ==
    [value : [Sources -> Values], prop : [Binds -> Values], seen : [Binds -> Values],
     valid : SUBSET Binds, dirt : SUBSET Binds, hidden : SUBSET Binds,
     dirty : Seq(Binds), pending : Seq(Binds), more : BOOLEAN]

OnlyTargets(r) == \A b \in Elements(r.dirty) \cup Elements(r.pending) : ~toSource(b)

(* DirtyIsQueued, when the places of the list before i are done.           *)
Queued(r, i) ==
    \A b \in r.dirt : ~toSource(b) /\ b \notin r.hidden =>
        b \in Elements(r.pending) \/ \E j \in DOMAIN r.dirty : r.dirty[j] = b /\ j >= i

(* The lists grow, the one that is not worked through; what is dirty stays *)
(* queued; and a list that grew asks for another pass.                     *)
Follows(r, u) ==
    /\ r.more => u.more
    /\ ~u.more => u.dirty = r.dirty /\ u.pending = r.pending
    /\ IF m_isProcessing THEN u.dirty = r.dirty ELSE u.pending = r.pending
    /\ OnlyTargets(r) => OnlyTargets(u)
    /\ \A i \in Nat : (m_isProcessing \/ i = 1) /\ Queued(r, i) => Queued(u, i)

(* A bind c that the call is not about hears of a value that changes, its  *)
(* own side stays, and when it writes a value and becomes dirty, or is     *)
(* shown, another pass is asked for.                                       *)
Spares(r, u, c) ==
    /\ u.prop[c] = r.prop[c] /\ u.seen[c] = r.seen[c]
    /\ c \in r.valid => c \in u.valid
    /\ c \in r.dirt => c \in u.dirt
    /\ u.value[source[c]] # r.value[source[c]] => c \in u.dirt
    /\ toSource(c) /\ c \in u.dirt => c \in r.dirt \/ u.more

Carries(r, u, b) ==
    /\ u \in States /\ Follows(r, u)
    /\ \A c \in Binds : c \in r.hidden => c \in u.hidden \/ u.more
    /\ \A c \in Binds : c # b => Spares(r, u, c)

Types == Binds \cup {None}

LEMMA CarriesNothing ==
    ASSUME NEW r \in States, NEW b \in Types
    PROVE  Carries(r, r, b)
  BY DEF Carries, Follows, Spares

LEMMA CarriesOn ==
    ASSUME NEW r \in States, NEW u \in States, NEW w \in States, NEW b \in Types,
           Carries(r, u, b), Carries(u, w, b)
    PROVE  Carries(r, w, b)
<1>1. Follows(r, w)
  <2>1. r.more \in BOOLEAN /\ u.more \in BOOLEAN /\ w.more \in BOOLEAN
    BY DEF States
  <2> QED
    BY <2>1 DEF Carries, Follows
<1>2. \A c \in Binds : c \in r.hidden => c \in w.hidden \/ w.more
  BY DEF Carries, Follows
<1>3. ASSUME NEW c \in Binds, c # b  PROVE Spares(r, w, c)
  <2>1. Spares(r, u, c) /\ Spares(u, w, c) /\ (u.more => w.more)
    BY <1>3 DEF Carries, Follows
  <2> QED
    BY <2>1 DEF Spares
<1> QED
  BY <1>1, <1>2, <1>3 DEF Carries

(* A bind of its own is none of the others.                                *)
LEMMA CarriesOneMore ==
    ASSUME NEW r \in States, NEW u \in States, NEW b \in Binds, Carries(r, u, None)
    PROVE  Carries(r, u, b)
  BY BindAssumption DEF Carries

(* addDirtyDataBind keeps everything but the lists and the flag; the binds *)
(* of P that go to targets are queued.                                     *)
LEMMA AddDirtyDataBind ==
    ASSUME NEW r \in States, NEW P \in SUBSET Binds
    PROVE  LET u == addDirtyDataBind(r, P) IN
           /\ u \in States
           /\ u.value = r.value /\ u.prop = r.prop /\ u.seen = r.seen /\ u.valid = r.valid
           /\ u.dirt = r.dirt /\ u.hidden = r.hidden
           /\ u.more <=> r.more \/ P # {}
           /\ ~u.more => u.dirty = r.dirty /\ u.pending = r.pending
           /\ IF m_isProcessing THEN u.dirty = r.dirty ELSE u.pending = r.pending
           /\ OnlyTargets(r) => OnlyTargets(u)
           /\ \A c \in Elements(r.pending) : c \in Elements(u.pending)
           /\ \A j \in DOMAIN r.dirty : j \in DOMAIN u.dirty /\ u.dirty[j] = r.dirty[j]
           /\ \A c \in P : ~toSource(c) =>
                 c \in Elements(IF m_isProcessing THEN u.pending ELSE u.dirty)
<1> DEFINE u == addDirtyDataBind(r, P)
           T == {c \in P : ~toSource(c)}
           flagged == [r EXCEPT !.more = @ \/ P # {}]
           p == r.pending \o InOrder(T \ Elements(r.pending))
           d == r.dirty \o InOrder(T \ Elements(r.dirty))
<1>1. /\ r.pending \in Seq(Binds) /\ r.dirty \in Seq(Binds) /\ r.more \in BOOLEAN
      /\ T \in SUBSET Binds
  BY DEF States
<1>2. /\ flagged \in States
      /\ flagged.value = r.value /\ flagged.prop = r.prop /\ flagged.seen = r.seen
      /\ flagged.valid = r.valid /\ flagged.dirt = r.dirt /\ flagged.hidden = r.hidden
      /\ flagged.dirty = r.dirty /\ flagged.pending = r.pending
      /\ flagged.more <=> r.more \/ P # {}
  BY DEF States
<1>3. /\ p \in Seq(Binds) /\ Elements(p) = Elements(r.pending) \cup T
      /\ T = {} => p = r.pending
  <2> HIDE DEF T
  <2> QED
    BY <1>1, Adds
<1>4. /\ d \in Seq(Binds) /\ Elements(d) = Elements(r.dirty) \cup T
      /\ \A j \in DOMAIN r.dirty : j \in DOMAIN d /\ d[j] = r.dirty[j]
      /\ T = {} => d = r.dirty
  <2> HIDE DEF T
  <2> QED
    BY <1>1, Adds
<1>5. u = IF m_isProcessing THEN [flagged EXCEPT !.pending = p] ELSE [flagged EXCEPT !.dirty = d]
  <2>1. \A e : [flagged EXCEPT !.pending = @ \o e] = [flagged EXCEPT !.pending = r.pending \o e]
    BY <1>2
  <2>2. \A e : [flagged EXCEPT !.dirty = @ \o e] = [flagged EXCEPT !.dirty = r.dirty \o e]
    BY <1>2
  <2> QED
    BY <1>2, <2>1, <2>2 DEF addDirtyDataBind
<1>6. /\ u \in States
      /\ u.value = r.value /\ u.prop = r.prop /\ u.seen = r.seen /\ u.valid = r.valid
      /\ u.dirt = r.dirt /\ u.hidden = r.hidden /\ u.more = flagged.more
      /\ u.pending = IF m_isProcessing THEN p ELSE r.pending
      /\ u.dirty = IF m_isProcessing THEN r.dirty ELSE d
  <2> HIDE DEF u, flagged, p, d
  <2> QED
    BY <1>2, <1>3, <1>4, <1>5 DEF States
<1>7. OnlyTargets(r) => OnlyTargets(u)
  <2> HIDE DEF u, flagged, p, d
  <2> QED
    BY <1>3, <1>4, <1>6 DEF OnlyTargets
<1>8. ~u.more => T = {}
  <2> HIDE DEF u
  <2> QED
    BY <1>2, <1>6
<1>9. \A c \in P : ~toSource(c) => c \in Elements(IF m_isProcessing THEN u.pending ELSE u.dirty)
  <2> SUFFICES ASSUME NEW c \in P, ~toSource(c)
               PROVE  c \in Elements(IF m_isProcessing THEN u.pending ELSE u.dirty)
    OBVIOUS
  <2>1. c \in T
    OBVIOUS
  <2> HIDE DEF u, flagged, p, d, T
  <2> QED
    BY <1>3, <1>4, <1>6, <2>1
<1>10. /\ ~u.more => u.dirty = r.dirty /\ u.pending = r.pending
       /\ \A c \in Elements(r.pending) : c \in Elements(u.pending)
       /\ \A j \in DOMAIN r.dirty : j \in DOMAIN u.dirty /\ u.dirty[j] = r.dirty[j]
  <2> HIDE DEF u, flagged, p, d, T
  <2> QED
    BY <1>3, <1>4, <1>6, <1>8
<1> QED
  <2> HIDE DEF flagged, p, d
  <2> QED
    BY <1>2, <1>6, <1>7, <1>9, <1>10

(* What that does to the places in the lists: dirty binds stay queued, and *)
(* those of P are queued now.                                              *)
LEMMA QueuedAfter ==
    ASSUME NEW r \in States, NEW u \in States, NEW P \in SUBSET Binds, NEW i \in Nat,
           m_isProcessing \/ i = 1, Queued(r, i),
           \A c \in Elements(r.pending) : c \in Elements(u.pending),
           \A j \in DOMAIN r.dirty : j \in DOMAIN u.dirty /\ u.dirty[j] = r.dirty[j],
           \A c \in P : ~toSource(c) =>
               c \in Elements(IF m_isProcessing THEN u.pending ELSE u.dirty),
           \A c \in u.dirt : ~toSource(c) /\ c \notin u.hidden =>
               c \in P \/ (c \in r.dirt /\ c \notin r.hidden)
    PROVE  Queued(u, i)
<1> SUFFICES ASSUME NEW c \in u.dirt, ~toSource(c), c \notin u.hidden
             PROVE  \/ c \in Elements(u.pending)
                    \/ \E j \in DOMAIN u.dirty : u.dirty[j] = c /\ j >= i
  BY DEF Queued
<1>1. CASE c \in P /\ m_isProcessing
  BY <1>1
<1>2. CASE c \in P /\ ~m_isProcessing
  <2>1. PICK j \in DOMAIN u.dirty : u.dirty[j] = c
    BY <1>2 DEF Elements
  <2>2. j >= 1
    <3>1. u.dirty \in Seq(Binds)
      BY DEF States
    <3> QED
      BY <3>1
  <2> QED
    BY <1>2, <2>1, <2>2
<1>3. CASE c \in r.dirt /\ c \notin r.hidden
  BY <1>3 DEF Queued
<1> QED
  BY <1>1, <1>2, <1>3

(* A call that leaves the lists alone and then queues what it made dirty,  *)
(* or showed.                                                              *)
LEMMA QueuesFollow ==
    ASSUME NEW r \in States, NEW z \in States, NEW P \in SUBSET Binds,
           z.dirty = r.dirty, z.pending = r.pending, r.more => z.more,
           \A c \in z.dirt : ~toSource(c) /\ c \notin z.hidden =>
               c \in P \/ (c \in r.dirt /\ c \notin r.hidden)
    PROVE  Follows(r, addDirtyDataBind(z, P))
<1> DEFINE u == addDirtyDataBind(z, P)
<1>1. /\ u \in States /\ u.dirt = z.dirt /\ u.hidden = z.hidden
      /\ u.more <=> z.more \/ P # {}
      /\ ~u.more => u.dirty = r.dirty /\ u.pending = r.pending
      /\ IF m_isProcessing THEN u.dirty = r.dirty ELSE u.pending = r.pending
      /\ OnlyTargets(z) => OnlyTargets(u)
      /\ \A c \in Elements(r.pending) : c \in Elements(u.pending)
      /\ \A j \in DOMAIN r.dirty : j \in DOMAIN u.dirty /\ u.dirty[j] = r.dirty[j]
      /\ \A c \in P : ~toSource(c) =>
            c \in Elements(IF m_isProcessing THEN u.pending ELSE u.dirty)
  <2>1. /\ u \in States /\ u.dirt = z.dirt /\ u.hidden = z.hidden
        /\ u.more <=> z.more \/ P # {}
        /\ ~u.more => u.dirty = z.dirty /\ u.pending = z.pending
        /\ IF m_isProcessing THEN u.dirty = z.dirty ELSE u.pending = z.pending
        /\ OnlyTargets(z) => OnlyTargets(u)
        /\ \A c \in Elements(z.pending) : c \in Elements(u.pending)
        /\ \A j \in DOMAIN z.dirty : j \in DOMAIN u.dirty /\ u.dirty[j] = z.dirty[j]
        /\ \A c \in P : ~toSource(c) =>
              c \in Elements(IF m_isProcessing THEN u.pending ELSE u.dirty)
    BY AddDirtyDataBind
  <2> HIDE DEF u
  <2> QED
    BY <2>1
<1> HIDE DEF u
<1>2. OnlyTargets(r) => OnlyTargets(u)
  BY <1>1 DEF OnlyTargets
<1>3. \A i \in Nat : (m_isProcessing \/ i = 1) /\ Queued(r, i) => Queued(u, i)
  <2> SUFFICES ASSUME NEW i \in Nat, m_isProcessing \/ i = 1, Queued(r, i)
               PROVE  Queued(u, i)
    OBVIOUS
  <2> QED
    BY <1>1, QueuedAfter
<1>4. Follows(r, u)
  BY <1>1, <1>2, <1>3 DEF Follows
<1> QED
  BY <1>4 DEF u

(* A value is set: every bind to it becomes dirty but the one that set it. *)
LEMMA SetValueDoes ==
    ASSUME NEW r \in States, NEW s \in Sources, NEW v \in Values, NEW b \in Types
    PROVE  LET u == SetValue(r, s, v, b) IN
           /\ Carries(r, u, b)
           /\ u.prop = r.prop /\ u.seen = r.seen /\ u.valid = r.valid /\ u.hidden = r.hidden
           /\ b \in u.dirt <=> b \in r.dirt
           /\ u.value[s] = v /\ \A t \in Sources : t # s => u.value[t] = r.value[t]
<1> DEFINE u == SetValue(r, s, v, b)
           w == [r EXCEPT !.value[s] = v]
           new == {c \in Binds : source[c] = s /\ c # b} \ w.dirt
           z == [w EXCEPT !.dirt = @ \cup new]
           P == {c \in new : ~isCollapsed(w, c)}
<1>1. CASE r.value[s] = v
  BY <1>1, CarriesNothing DEF SetValue
<1>2. CASE r.value[s] # v
  <2>1. u = addDirtyDataBind(z, P)
    BY <1>2 DEF SetValue, addDirt
  <2>2. /\ w \in States /\ w.prop = r.prop /\ w.seen = r.seen /\ w.valid = r.valid
        /\ w.dirt = r.dirt /\ w.hidden = r.hidden /\ w.dirty = r.dirty
        /\ w.pending = r.pending /\ w.more = r.more
        /\ w.value[s] = v /\ \A t \in Sources : t # s => w.value[t] = r.value[t]
    BY DEF States
  <2>3. new \in SUBSET Binds /\ P \in SUBSET Binds
    OBVIOUS
  <2>4. /\ z \in States /\ z.prop = w.prop /\ z.seen = w.seen /\ z.valid = w.valid
        /\ z.dirt = w.dirt \cup new /\ z.hidden = w.hidden /\ z.dirty = w.dirty
        /\ z.pending = w.pending /\ z.more = w.more /\ z.value = w.value
    <3> HIDE DEF w, new
    <3> QED
      BY <2>2, <2>3 DEF States
  <2>5. \A c \in Binds : /\ c \in new <=> source[c] = s /\ c # b /\ c \notin r.dirt
                         /\ c \in P <=> c \in new /\ (toSource(c) \/ c \notin r.hidden)
    <3> HIDE DEF w
    <3> QED
      BY <2>2 DEF isCollapsed
  <2>6. b \notin new
    OBVIOUS
  <2> HIDE DEF u, w, new, z, P
  <2>7. Follows(r, u)
    <3>1. \A c \in z.dirt : ~toSource(c) /\ c \notin z.hidden =>
              c \in P \/ (c \in r.dirt /\ c \notin r.hidden)
      BY <2>2, <2>3, <2>4, <2>5
    <3> QED
      BY <2>1, <2>2, <2>3, <2>4, <3>1, QueuesFollow
  <2>8. /\ u \in States /\ u.value = z.value /\ u.prop = z.prop /\ u.seen = z.seen
        /\ u.valid = z.valid /\ u.dirt = z.dirt /\ u.hidden = z.hidden
        /\ u.more <=> z.more \/ P # {}
    BY <2>1, <2>3, <2>4, AddDirtyDataBind
  <2>9. ASSUME NEW c \in Binds, c # b  PROVE Spares(r, u, c)
    <3>1. u.value[source[c]] # r.value[source[c]] => c \in u.dirt
      <4>1. source[c] \in Sources
        BY BindAssumption
      <4> QED
        BY <2>2, <2>4, <2>5, <2>8, <2>9, <4>1
    <3>2. toSource(c) /\ c \in u.dirt => c \in r.dirt \/ u.more
      BY <2>2, <2>4, <2>5, <2>8
    <3> QED
      BY <2>2, <2>4, <2>8, <3>1, <3>2 DEF Spares
  <2>10. Carries(r, u, b)
    BY <2>2, <2>4, <2>7, <2>8, <2>9 DEF Carries
  <2> QED
    BY <2>2, <2>4, <2>6, <2>8, <2>10 DEF u
<1> QED
  BY <1>1, <1>2

(* And the value that its delegate sets with it.                           *)
LEMMA PropertyValueDoes ==
    ASSUME NEW r \in States, NEW s \in Sources, NEW v \in Values, NEW b \in Types
    PROVE  LET u == propertyValue(r, s, v, b) IN
           /\ Carries(r, u, b)
           /\ u.prop = r.prop /\ u.seen = r.seen /\ u.valid = r.valid /\ u.hidden = r.hidden
           /\ b \in u.dirt <=> b \in r.dirt
           /\ u.value[s] = v
           /\ r.value[s] = v => u = r
<1> DEFINE u == propertyValue(r, s, v, b)
           set == SetValue(r, s, v, b)
           both == SetValue(set, Mirrors[s], v, b)
<1>1. CASE r.value[s] = v
  BY <1>1, CarriesNothing DEF propertyValue
<1>2. CASE r.value[s] # v
  <2>1. u = IF Mirrors[s] = None THEN set ELSE both
    BY <1>2 DEF propertyValue
  <2>2. /\ Carries(r, set, b)
        /\ set.prop = r.prop /\ set.seen = r.seen /\ set.valid = r.valid
        /\ set.hidden = r.hidden
        /\ b \in set.dirt <=> b \in r.dirt
        /\ set.value[s] = v
    BY SetValueDoes
  <2>3. set \in States
    BY <2>2 DEF Carries
  <2>4. CASE Mirrors[s] = None
    <3> HIDE DEF set
    <3> QED
      BY <1>2, <2>1, <2>2, <2>4
  <2>5. CASE Mirrors[s] # None
    <3>1. Mirrors[s] \in Sources
      BY <2>5, ValueAssumption
    <3> HIDE DEF set
    <3>2. /\ Carries(set, both, b)
          /\ both.prop = set.prop /\ both.seen = set.seen /\ both.valid = set.valid
          /\ both.hidden = set.hidden
          /\ b \in both.dirt <=> b \in set.dirt
          /\ both.value[Mirrors[s]] = v
          /\ \A t \in Sources : t # Mirrors[s] => both.value[t] = set.value[t]
      BY <2>3, <3>1, SetValueDoes
    <3>3. both \in States /\ u = both
      BY <2>1, <2>5, <3>2 DEF Carries
    <3> HIDE DEF both, u
    <3>4. Carries(r, both, b)
      BY <2>2, <2>3, <3>2, <3>3, CarriesOn
    <3>5. both.value[s] = v
      BY <2>2, <3>1, <3>2
    <3>6. u = both /\ u.prop = r.prop /\ u.seen = r.seen /\ u.valid = r.valid
      BY <2>2, <3>2, <3>3
    <3>7. u.hidden = r.hidden /\ (b \in u.dirt <=> b \in r.dirt)
      BY <2>2, <3>2, <3>3
    <3>8. Carries(r, u, b) /\ u.value[s] = v
      BY <3>3, <3>4, <3>5
    <3> QED
      BY <1>2, <3>6, <3>7, <3>8 DEF u
  <2> QED
    BY <2>4, <2>5
<1> QED
  BY <1>1, <1>2

(* A component is hidden or shown: a dirty bind that is shown is queued.   *)
LEMMA CollapseDoes ==
    ASSUME NEW r \in States, NEW h \in Binds, NEW value \in BOOLEAN
    PROVE  LET u == collapse(r, h, value) IN
           /\ Carries(r, u, None)
           /\ u.value = r.value /\ u.prop = r.prop /\ u.seen = r.seen
           /\ u.valid = r.valid /\ u.dirt = r.dirt
<1> DEFINE u == collapse(r, h, value)
           hides == IF value THEN r.hidden \cup {h} ELSE r.hidden \ {h}
           c == [r EXCEPT !.more = TRUE, !.hidden = hides]
           P == IF ~value /\ h \in r.dirt /\ ~toSource(h) THEN {h} ELSE {}
           z == IF P = {} THEN c ELSE addDirtyDataBind(c, P)
<1>1. CASE (h \in r.hidden) = value
  BY <1>1, CarriesNothing DEF collapse, Types
<1>2. CASE (h \in r.hidden) # value
  <2>1. u = z
    BY <1>2 DEF collapse
  <2>2. hides \in SUBSET Binds /\ P \in SUBSET Binds
    BY DEF States
  <2>3. /\ \A x \in Binds : x \in hides <=> (IF x = h THEN value ELSE x \in r.hidden)
        /\ \A x \in Binds : x \in P <=> x = h /\ ~value /\ h \in r.dirt /\ ~toSource(h)
    OBVIOUS
  <2> HIDE DEF hides
  <2>4. /\ c \in States /\ c.more = TRUE /\ c.hidden = hides
        /\ c.value = r.value /\ c.prop = r.prop /\ c.seen = r.seen /\ c.valid = r.valid
        /\ c.dirt = r.dirt /\ c.dirty = r.dirty /\ c.pending = r.pending
    BY <2>2 DEF States
  <2> HIDE DEF c, P
  <2>5. \A x \in c.dirt : ~toSource(x) /\ x \notin c.hidden =>
            x \in P \/ (x \in r.dirt /\ x \notin r.hidden)
    <3> SUFFICES ASSUME NEW x \in r.dirt, ~toSource(x), x \notin hides
                 PROVE  x \in P \/ x \notin r.hidden
      BY <2>4
    <3>1. x \in Binds
      BY DEF States
    <3> QED
      BY <2>3, <3>1
  <2>6. LET a == addDirtyDataBind(c, P) IN
        /\ a \in States /\ Follows(r, a)
        /\ a.value = c.value /\ a.prop = c.prop /\ a.seen = c.seen /\ a.valid = c.valid
        /\ a.dirt = c.dirt /\ a.more
    <3>1. Follows(r, addDirtyDataBind(c, P))
      BY <2>2, <2>4, <2>5, QueuesFollow
    <3>2. c.more /\ c \in States
      BY <2>4
    <3> QED
      BY <2>2, <3>1, <3>2, AddDirtyDataBind
  <2>7. P = {} => Follows(r, c)
    <3> SUFFICES ASSUME P = {}  PROVE Follows(r, c)
      OBVIOUS
    <3>1. \A i \in Nat : Queued(r, i) => Queued(c, i)
      BY <2>4, <2>5 DEF Queued
    <3> QED
      BY <2>4, <3>1 DEF Follows, OnlyTargets
  <2>8. /\ z \in States /\ Follows(r, z)
        /\ z.value = r.value /\ z.prop = r.prop /\ z.seen = r.seen /\ z.valid = r.valid
        /\ z.dirt = r.dirt /\ z.more
    <3>1. CASE P = {}
      BY <2>4, <2>7, <3>1
    <3>2. CASE P # {}
      BY <2>4, <2>6, <3>2
    <3> QED
      BY <3>1, <3>2
  <2> HIDE DEF z, u
  <2>9. Carries(r, z, None)
    BY <2>8 DEF Carries, Spares
  <2> QED
    BY <2>1, <2>8, <2>9 DEF u
<1> QED
  BY <1>1, <1>2

(* A property is set: if its component is shown then, another pass is      *)
(* asked for.                                                              *)
LEMMA SetPropertyDoes ==
    ASSUME NEW r \in States, NEW b \in Binds, NEW v \in Values
    PROVE  LET u == SetProperty(r, b, v) IN
           /\ Carries(r, u, b)
           /\ u.value = r.value /\ u.seen = r.seen /\ u.valid = r.valid /\ u.dirt = r.dirt
           /\ u.prop[b] = v
           /\ r.prop[b] # v => b \in u.hidden \/ u.more
<1> DEFINE u == SetProperty(r, b, v)
           set == [r EXCEPT !.prop[b] = v, !.more = @ \/ b \notin r.hidden]
           gone == v # 0
           z == collapse(set, Hides[b], gone)
<1>1. CASE r.prop[b] = v
  BY <1>1, CarriesNothing DEF SetProperty, Types
<1>2. CASE r.prop[b] # v
  <2>1. u = IF Hides[b] = None THEN set ELSE z
    BY <1>2 DEF SetProperty
  <2>2. /\ set \in States /\ (set.more <=> r.more \/ b \notin r.hidden)
        /\ set.hidden = r.hidden /\ set.value = r.value /\ set.seen = r.seen
        /\ set.valid = r.valid /\ set.dirt = r.dirt
        /\ set.dirty = r.dirty /\ set.pending = r.pending
        /\ set.prop[b] = v /\ \A c \in Binds : c # b => set.prop[c] = r.prop[c]
    BY DEF States
  <2>3. b \in Types /\ None \in Types
    BY DEF Types
  <2> HIDE DEF set
  <2>4. Carries(r, set, b)
    <3>1. \A i \in Nat : Queued(r, i) => Queued(set, i)
      BY <2>2 DEF Queued
    <3>2. Follows(r, set)
      BY <2>2, <3>1 DEF Follows, OnlyTargets
    <3>3. \A c \in Binds : c # b => Spares(r, set, c)
      BY <2>2 DEF Spares
    <3> QED
      BY <2>2, <3>2, <3>3 DEF Carries
  <2>5. CASE Hides[b] = None
    BY <1>2, <2>1, <2>2, <2>4, <2>5
  <2>6. CASE Hides[b] # None
    <3>1. Hides[b] \in Binds /\ gone \in BOOLEAN
      BY <2>6, BindAssumption
    <3> HIDE DEF gone
    <3>2. /\ Carries(set, z, None)
          /\ z.value = set.value /\ z.prop = set.prop /\ z.seen = set.seen
          /\ z.valid = set.valid /\ z.dirt = set.dirt
      BY <2>2, <3>1, CollapseDoes
    <3> HIDE DEF z
    <3>3. z \in States
      BY <3>2 DEF Carries
    <3>4. Carries(r, z, b)
      BY <2>2, <2>3, <2>4, <3>2, <3>3, CarriesOneMore, CarriesOn
    <3>5. b \in z.hidden \/ z.more
      BY <2>2, <3>2 DEF Carries, Follows
    <3> QED
      BY <2>1, <2>2, <2>6, <3>2, <3>4, <3>5
  <2> QED
    BY <2>5, <2>6
<1> QED
  BY <1>1, <1>2

(* A bind applies its source: the property is what the value is.           *)
LEMMA UpdateDoes ==
    ASSUME NEW r \in States, NEW b \in Binds
    PROVE  LET u == update(r, b) IN
           /\ Carries(r, u, b)
           /\ u.value = r.value /\ u.seen = r.seen /\ u.valid = r.valid /\ u.dirt = r.dirt
           /\ IF toTarget(b) THEN u.prop[b] = u.value[source[b]] ELSE u = r
<1>1. r.value[source[b]] \in Values
  BY BindAssumption DEF States
<1>2. CASE toTarget(b)
  BY <1>1, <1>2, SetPropertyDoes DEF update
<1>3. CASE ~toTarget(b)
  BY <1>3, CarriesNothing DEF update, Types
<1> QED
  BY <1>2, <1>3

(* A bind that is updated has no dirt.                                     *)
LEMMA CleanDoes ==
    ASSUME NEW r \in States, NEW b \in Binds
    PROVE  LET u == [r EXCEPT !.dirt = @ \ {b}] IN
           /\ u \in States /\ Carries(r, u, b) /\ b \notin u.dirt
           /\ u.value = r.value /\ u.seen = r.seen /\ u.valid = r.valid /\ u.prop = r.prop
           /\ u.hidden = r.hidden
           /\ \A i \in Nat : i \in DOMAIN r.dirty /\ r.dirty[i] = b /\ Queued(r, i)
                             => Queued(u, i + 1)
<1> DEFINE u == [r EXCEPT !.dirt = @ \ {b}]
<1>1. /\ u \in States /\ u.dirt = r.dirt \ {b}
      /\ u.value = r.value /\ u.seen = r.seen /\ u.valid = r.valid /\ u.prop = r.prop
      /\ u.hidden = r.hidden /\ u.dirty = r.dirty /\ u.pending = r.pending /\ u.more = r.more
  BY DEF States
<1> HIDE DEF u
<1>2. Follows(r, u)
  BY <1>1 DEF Follows, OnlyTargets, Queued
<1>3. \A c \in Binds : c # b => Spares(r, u, c)
  BY <1>1 DEF Spares
<1>4. ASSUME NEW i \in DOMAIN r.dirty, r.dirty[i] = b, Queued(r, i)
      PROVE  Queued(u, i + 1)
  <2> SUFFICES ASSUME NEW c \in r.dirt, c # b, ~toSource(c), c \notin r.hidden
               PROVE  \/ c \in Elements(r.pending)
                      \/ \E j \in DOMAIN r.dirty : r.dirty[j] = c /\ j >= i + 1
    BY <1>1 DEF Queued
  <2>1. CASE c \in Elements(r.pending)
    BY <2>1
  <2>2. CASE c \notin Elements(r.pending)
    <3>1. PICK j \in DOMAIN r.dirty : r.dirty[j] = c /\ j >= i
      BY <1>4, <2>2 DEF Queued
    <3>2. i \in Nat /\ j \in Nat
      <4>1. r.dirty \in Seq(Binds)
        BY DEF States
      <4> QED
        BY <4>1
    <3>3. j # i
      BY <1>4, <3>1
    <3>4. j >= i + 1
      BY <3>1, <3>2, <3>3
    <3> QED
      BY <3>1, <3>4
  <2> QED
    BY <2>1, <2>2
<1>5. Carries(r, u, b)
  BY <1>1, <1>2, <1>3 DEF Carries
<1> QED
  BY <1>1, <1>4, <1>5 DEF u

(* A bind applies its property: it has seen it then, and the value is what *)
(* it is unless the bind had seen it before.                               *)
LEMMA UpdateSourceDoes ==
    ASSUME NEW r \in States, NEW b \in Binds
    PROVE  LET u == updateSourceBinding(r, b) IN
           /\ Carries(r, u, b)
           /\ u.prop = r.prop /\ u.hidden = r.hidden /\ (b \in u.dirt <=> b \in r.dirt)
           /\ u.seen[b] = u.prop[b] /\ b \in u.valid
           /\ IF r.prop[b] = r.seen[b] /\ b \in r.valid THEN u = r
              ELSE u.value[source[b]] = u.prop[b]
           /\ r.value[source[b]] = r.prop[b] => u.value = r.value
<1> DEFINE u == updateSourceBinding(r, b)
           v == r.prop[b]
           z == [r EXCEPT !.seen[b] = v, !.valid = @ \cup {b}]
<1>0. b \in Types
  BY DEF Types
<1>1. CASE r.prop[b] = r.seen[b] /\ b \in r.valid
  BY <1>0, <1>1, CarriesNothing DEF updateSourceBinding
<1>2. CASE ~(r.prop[b] = r.seen[b] /\ b \in r.valid)
  <2>1. u = propertyValue(z, source[b], v, b)
    BY <1>2 DEF updateSourceBinding
  <2>2. v \in Values /\ source[b] \in Sources
    BY BindAssumption DEF States
  <2>3. /\ z \in States /\ z.value = r.value /\ z.prop = r.prop /\ z.hidden = r.hidden
        /\ z.dirt = r.dirt /\ z.dirty = r.dirty /\ z.pending = r.pending /\ z.more = r.more
        /\ z.seen[b] = v /\ \A c \in Binds : c # b => z.seen[c] = r.seen[c]
        /\ b \in z.valid /\ \A c \in Binds : c \in r.valid => c \in z.valid
    BY DEF States
  <2> HIDE DEF z
  <2>4. Carries(r, z, b)
    <3>1. Follows(r, z)
      BY <2>3 DEF Follows, OnlyTargets, Queued
    <3>2. \A c \in Binds : c # b => Spares(r, z, c)
      BY <2>3 DEF Spares
    <3> QED
      BY <2>3, <3>1, <3>2 DEF Carries
  <2> HIDE DEF v, u
  <2>5. /\ Carries(z, u, b)
        /\ u.prop = z.prop /\ u.seen = z.seen /\ u.valid = z.valid /\ u.hidden = z.hidden
        /\ b \in u.dirt <=> b \in z.dirt
        /\ u.value[source[b]] = v
        /\ z.value[source[b]] = v => u = z
    BY <1>0, <2>1, <2>2, <2>3, PropertyValueDoes
  <2>6. u \in States
    BY <2>5 DEF Carries
  <2>7. Carries(r, u, b)
    BY <1>0, <2>3, <2>4, <2>5, <2>6, CarriesOn
  <2>8. v = r.prop[b]
    BY DEF v
  <2> QED
    BY <1>2, <2>3, <2>5, <2>7, <2>8 DEF u
<1> QED
  BY <1>1, <1>2

-----------------------------------------------------------------------------
(* A bind is updated.                                                      *)

(* One to a target, out of the list: the value is shown, and what was at   *)
(* its place of the list is done.                                          *)
LEMMA UpdateTargetDoes ==
    ASSUME NEW r \in States, NEW b \in Binds, ~toSource(b)
    PROVE  LET u == updateDataBind(r, b, FALSE) IN
           /\ Carries(r, u, b) /\ b \notin u.dirt
           /\ IF b \in r.dirt THEN u.prop[b] = u.value[source[b]] ELSE u = r
           /\ \A i \in Nat : /\ m_isProcessing /\ i \in DOMAIN r.dirty /\ r.dirty[i] = b
                             /\ Queued(r, i)
                             => Queued(u, i + 1)
<1> DEFINE d == [r EXCEPT !.dirt = @ \ {b}]
           w == update(d, b)
           u == updateDataBind(r, b, FALSE)
<1>0. toTarget(b) /\ b \in Types
  BY BindAssumption DEF toSource, toTarget, Kinds, Types
<1>1. u = IF b \in r.dirt THEN w ELSE r
  BY DEF updateDataBind
<1>2. /\ d \in States /\ Carries(r, d, b) /\ b \notin d.dirt
      /\ \A i \in Nat : i \in DOMAIN r.dirty /\ r.dirty[i] = b /\ Queued(r, i)
                        => Queued(d, i + 1)
  BY CleanDoes
<1> HIDE DEF d
<1>3. Carries(d, w, b) /\ w.dirt = d.dirt /\ w.prop[b] = w.value[source[b]]
  BY <1>0, <1>2, UpdateDoes
<1> HIDE DEF w, u
<1>4. w \in States /\ Follows(d, w)
  BY <1>3 DEF Carries
<1>5. CASE b \in r.dirt
  <2>1. Carries(r, w, b)
    BY <1>0, <1>2, <1>3, <1>4, CarriesOn
  <2>2. ASSUME NEW i \in Nat, m_isProcessing, i \in DOMAIN r.dirty, r.dirty[i] = b, Queued(r, i)
        PROVE  Queued(w, i + 1)
    BY <1>2, <1>4, <2>2 DEF Follows
  <2> QED
    BY <1>1, <1>2, <1>3, <1>5, <2>1, <2>2 DEF u
<1>6. CASE b \notin r.dirt
  <2>1. ASSUME NEW i \in Nat, i \in DOMAIN r.dirty, r.dirty[i] = b, Queued(r, i)
        PROVE  Queued(r, i + 1)
    <3> SUFFICES ASSUME NEW c \in r.dirt, ~toSource(c), c \notin r.hidden,
                        c \notin Elements(r.pending)
                 PROVE  \E j \in DOMAIN r.dirty : r.dirty[j] = c /\ j >= i + 1
      BY DEF Queued
    <3>1. PICK j \in DOMAIN r.dirty : r.dirty[j] = c /\ j >= i
      BY <2>1 DEF Queued
    <3>2. j \in Nat /\ j # i
      <4>1. r.dirty \in Seq(Binds)
        BY DEF States
      <4> QED
        BY <1>6, <2>1, <3>1, <4>1
    <3>3. j >= i + 1
      BY <3>1, <3>2
    <3> QED
      BY <3>1, <3>3
  <2>2. Carries(r, r, b)
    BY <1>0, CarriesNothing
  <2> QED
    BY <1>1, <1>6, <2>1, <2>2 DEF u
<1> QED
  BY <1>5, <1>6

(* What a bind to a source knows after it was polled: it has no dirt and   *)
(* its two sides agree.                                                    *)
Agrees(r, b, O) ==
    kind[b] = "twoWay" => r.prop[b] = r.value[source[b]] \/ b \in O \ SourceFirst
HasSeen(r, b) == r.prop[b] = r.seen[b] /\ b \in r.valid
Polled(r, b, O) ==
    /\ b \notin r.dirt /\ Agrees(r, b, O)
    /\ b \in SourceFirst => HasSeen(r, b)

(* One that applies its property first and would do nothing when polled    *)
(* agrees already, or was overlooked.                                      *)
Noticed(r, b, O) ==
    toSource(b) /\ b \notin SourceFirst /\ NoNews(r, b) => Agrees(r, b, O)
Remains(r, b, O) == IF NoNews(r, b) THEN O ELSE O \ {b}

(* What one that applies its source first has seen is that source, unless  *)
(* it is dirty.                                                            *)
SawSource(r, b) ==
    kind[b] = "twoWay" /\ b \notin r.dirt => r.seen[b] = r.value[source[b]]

LEMMA TargetFirstDoes ==
    ASSUME NEW r \in States, NEW b \in Binds, toSource(b), b \notin SourceFirst,
           NEW O, Noticed(r, b, O)
    PROVE  LET u == updateDataBind(r, b, TRUE) IN
           Carries(r, u, b) /\ Polled(u, b, Remains(r, b, O))
<1> DEFINE r1 == updateSourceBinding(r, b)
           d == [r1 EXCEPT !.dirt = @ \ {b}]
           w == update(d, b)
           u == updateDataBind(r, b, TRUE)
<1>0. b \in Types
  BY DEF Types
<1>1. u = IF b \in r.dirt THEN w ELSE r1
  BY DEF updateDataBind
<1>2. /\ Carries(r, r1, b) /\ (b \in r1.dirt <=> b \in r.dirt)
      /\ r1.seen[b] = r1.prop[b]
      /\ IF r.prop[b] = r.seen[b] /\ b \in r.valid THEN r1 = r
         ELSE r1.value[source[b]] = r1.prop[b]
  BY UpdateSourceDoes
<1>3. r1 \in States
  BY <1>2 DEF Carries
<1> HIDE DEF r1
<1>4. CASE b \in r.dirt
  <2>1. d \in States /\ Carries(r1, d, b) /\ b \notin d.dirt
    BY <1>3, CleanDoes
  <2> HIDE DEF d
  <2>2. /\ Carries(d, w, b) /\ w.dirt = d.dirt
        /\ toTarget(b) => w.prop[b] = w.value[source[b]]
    BY <2>1, UpdateDoes
  <2>3. w \in States
    BY <2>2 DEF Carries
  <2> HIDE DEF w
  <2>4. Carries(r, w, b)
    <3>1. Carries(r1, w, b)
      BY <1>0, <1>3, <2>1, <2>2, <2>3, CarriesOn
    <3> QED
      BY <1>0, <1>2, <1>3, <2>3, <3>1, CarriesOn
  <2>5. Polled(w, b, Remains(r, b, O))
    BY <2>1, <2>2 DEF Polled, Agrees, toTarget
  <2> QED
    BY <1>1, <1>4, <2>4, <2>5
<1>5. CASE b \notin r.dirt
  <2>1. Agrees(r1, b, Remains(r, b, O))
    <3>1. CASE NoNews(r, b) /\ r1 = r
      BY <3>1 DEF Noticed, Remains
    <3>2. CASE r1.value[source[b]] = r1.prop[b]
      BY <3>2 DEF Agrees
    <3> QED
      BY <1>2, <1>5, <3>1, <3>2 DEF NoNews
  <2> QED
    BY <1>1, <1>2, <1>5, <2>1 DEF Polled
<1> QED
  BY <1>4, <1>5

(* A bind that applies its source first, and has seen its property, leaves *)
(* the values alone.                                                       *)
LEMMA SourceFirstDoes ==
    ASSUME NEW r \in States, NEW b \in SourceFirst, toSource(b), SawSource(r, b), NEW O
    PROVE  LET u == updateDataBind(r, b, TRUE) IN
           /\ Carries(r, u, b) /\ Polled(u, b, O)
           /\ HasSeen(r, b) => u.value = r.value
<1> DEFINE d == [r EXCEPT !.dirt = @ \ {b}]
           w == update(d, b)
           r2 == IF b \in r.dirt THEN w ELSE r
           u == updateDataBind(r, b, TRUE)
<1>0. b \in Binds /\ b \in Types
  BY BindAssumption DEF Types
<1>1. u = updateSourceBinding(r2, b)
  BY DEF updateDataBind
<1>2. /\ Carries(r, r2, b) /\ r2 \in States /\ b \notin r2.dirt /\ r2.value = r.value
      /\ r2.seen = r.seen /\ r2.valid = r.valid
      /\ IF b \in r.dirt /\ toTarget(b) THEN r2.prop[b] = r2.value[source[b]]
         ELSE r2.prop = r.prop
  <2>1. CASE b \in r.dirt
    <3>1. /\ d \in States /\ Carries(r, d, b) /\ b \notin d.dirt /\ d.value = r.value
          /\ d.seen = r.seen /\ d.valid = r.valid /\ d.prop = r.prop
      BY <1>0, CleanDoes
    <3> HIDE DEF d
    <3>2. /\ Carries(d, w, b) /\ w.dirt = d.dirt
          /\ w.value = d.value /\ w.seen = d.seen /\ w.valid = d.valid
          /\ IF toTarget(b) THEN w.prop[b] = w.value[source[b]] ELSE w = d
      BY <1>0, <3>1, UpdateDoes
    <3>3. w \in States
      BY <3>2 DEF Carries
    <3> HIDE DEF w
    <3>4. Carries(r, w, b)
      BY <1>0, <3>1, <3>2, <3>3, CarriesOn
    <3> QED
      BY <2>1, <3>1, <3>2, <3>3, <3>4
  <2>2. CASE b \notin r.dirt
    <3>1. Carries(r, r, b)
      BY <1>0, CarriesNothing
    <3> QED
      BY <2>2, <3>1
  <2> QED
    BY <2>1, <2>2
<1> HIDE DEF r2
<1>3. /\ Carries(r2, u, b) /\ u.prop = r2.prop /\ b \notin u.dirt /\ HasSeen(u, b)
      /\ IF HasSeen(r2, b) THEN u = r2 ELSE u.value[source[b]] = u.prop[b]
      /\ r2.value[source[b]] = r2.prop[b] => u.value = r2.value
  <2> DEFINE z == updateSourceBinding(r2, b)
  <2>1. /\ Carries(r2, z, b) /\ z.prop = r2.prop /\ (b \in z.dirt <=> b \in r2.dirt)
        /\ z.seen[b] = z.prop[b] /\ b \in z.valid
        /\ IF r2.prop[b] = r2.seen[b] /\ b \in r2.valid THEN z = r2
           ELSE z.value[source[b]] = z.prop[b]
        /\ r2.value[source[b]] = r2.prop[b] => z.value = r2.value
    BY <1>0, <1>2, UpdateSourceDoes
  <2> HIDE DEF z, u
  <2>2. u = z
    BY <1>1 DEF z
  <2> QED
    BY <1>2, <2>1, <2>2 DEF HasSeen
<1>4. u \in States
  BY <1>3 DEF Carries
<1> HIDE DEF u
<1>5. Carries(r, u, b)
  BY <1>0, <1>2, <1>3, <1>4, CarriesOn
<1>6. kind[b] = "twoWay" => u.prop[b] = u.value[source[b]]
  <2> SUFFICES ASSUME kind[b] = "twoWay", HasSeen(r2, b)
               PROVE  r2.prop[b] = r2.value[source[b]]
    BY <1>3
  <2>1. CASE b \in r.dirt
    BY <1>2, <2>1 DEF toTarget
  <2>2. CASE b \notin r.dirt
    BY <1>2, <2>2 DEF SawSource, HasSeen
  <2> QED
    BY <2>1, <2>2
<1>7. HasSeen(r, b) => u.value = r.value
  BY <1>2, <1>3 DEF HasSeen
<1>8. Polled(u, b, O)
  BY <1>3, <1>6 DEF Polled, Agrees
<1> QED
  BY <1>5, <1>7, <1>8 DEF u

-----------------------------------------------------------------------------
(* The invariant.                                                          *)

(* The binds whose turn to be polled is still to come in this pass.        *)
Due == {b \in Binds : pc = "persisting" /\ \E j \in DOMAIN Persisting :
                                               Persisting[j] = b /\ j >= k}

(* A bind to a target shows its value unless it is dirty.  A bind to a     *)
(* source that is dirty, or whose property was touched, or whose two sides *)
(* disagree, is hidden or will be polled, in this pass or in one that is   *)
(* asked for.  T are the touched binds, O the ones overlooked, D the ones  *)
(* still due.                                                              *)
Caught(r, b, T, O, D) ==
    /\ kind[b] = "toTarget" /\ b \notin r.dirt => r.prop[b] = r.value[source[b]]
    /\ toSource(b) /\ (b \in r.dirt \/ b \in T \/ ~Agrees(r, b, O)) =>
          b \in r.hidden \/ r.more \/ b \in D
    /\ Noticed(r, b, O)
    /\ b \in SourceFirst => /\ SawSource(r, b)
                            /\ toSource(b) /\ b \notin T => HasSeen(r, b)

From == IF pc = "dirty" THEN k ELSE 1

ListInv ==
    /\ OnlyTargets(q) /\ Queued(q, From)
    /\ ~m_isProcessing => q.pending = <<>>
    /\ ~q.more => IF m_isProcessing THEN q.pending = <<>> ELSE q.dirty = <<>>

BindInv ==
    /\ q \in States /\ touched \in SUBSET Binds /\ k \in Nat \ {0}
    /\ pc \in {"idle", "persisting", "dirty", "components"}
    /\ pc = "components" => k = 1
    /\ ListInv
    /\ \A b \in Binds : Caught(q, b, touched, overlooked, Due)

(* The binds to sources, each at one place.                                *)
LEMMA PersistingHolds ==
    /\ Len(Persisting) \in Nat /\ DOMAIN Persisting = 1..Len(Persisting)
    /\ \A j \in DOMAIN Persisting : Persisting[j] \in Binds /\ toSource(Persisting[j])
    /\ \A b \in Binds : toSource(b) => \E j \in DOMAIN Persisting : Persisting[j] = b
<1> DEFINE P == {b \in Binds : toSource(b)}
           n == Cardinality(P)
           a == InOrder(P)
<1>1. P \in SUBSET (1..Count) /\ Count \in Nat
  BY BindAssumption DEF Binds
<1>2. /\ n \in Nat /\ a \in [1..n -> P]
      /\ \A p \in P : \E i \in 1..n : a[i] = p
  <2> HIDE DEF P
  <2> QED
    BY <1>1, InOrderEnumerates
<1>3. Len(a) = n /\ DOMAIN a = 1..n
  <2> HIDE DEF P, n, a
  <2> QED
    BY <1>2
<1>4. \A b \in Binds : b \in P <=> toSource(b)
  OBVIOUS
<1>5. \A j \in 1..n : a[j] \in P /\ a[j] \in Binds
  <2>1. P \in SUBSET Binds
    OBVIOUS
  <2> HIDE DEF P, n, a
  <2> QED
    BY <1>2, <2>1
<1>6. Persisting = a
  BY DEF Persisting
<1> HIDE DEF P, n, a
<1> QED
  BY <1>2, <1>3, <1>4, <1>5, <1>6

(* What a call keeps: the lists, and the catch of every other bind.        *)
LEMMA CaughtOn ==
    ASSUME NEW r \in States, NEW u \in States, NEW b \in Types, NEW c \in Binds, c # b,
           NEW T, NEW O, NEW D, Carries(r, u, b), Caught(r, c, T, O, D)
    PROVE  Caught(u, c, T, O, D)
<1>1. /\ u.prop[c] = r.prop[c] /\ u.seen[c] = r.seen[c]
      /\ c \in r.valid => c \in u.valid
      /\ c \in r.dirt => c \in u.dirt
      /\ u.value[source[c]] # r.value[source[c]] => c \in u.dirt
      /\ toSource(c) /\ c \in u.dirt => c \in r.dirt \/ u.more
      /\ c \in r.hidden => c \in u.hidden \/ u.more
      /\ r.more => u.more
  BY DEF Carries, Follows, Spares
<1>2. kind[c] = "toTarget" /\ c \notin u.dirt => u.prop[c] = u.value[source[c]]
  BY <1>1 DEF Caught
<1>3. toSource(c) /\ (c \in u.dirt \/ c \in T \/ ~Agrees(u, c, O)) =>
          c \in u.hidden \/ u.more \/ c \in D
  <2> SUFFICES ASSUME toSource(c), c \in u.dirt \/ c \in T \/ ~Agrees(u, c, O), ~u.more
               PROVE  c \in u.hidden \/ c \in D
    OBVIOUS
  <2>1. c \in r.dirt \/ c \in T \/ ~Agrees(r, c, O)
    <3>1. CASE c \in u.dirt
      BY <1>1, <3>1
    <3>2. CASE c \in T
      BY <3>2
    <3>3. CASE c \notin u.dirt /\ ~Agrees(u, c, O)
      BY <1>1, <3>3 DEF Agrees
    <3> QED
      BY <3>1, <3>2, <3>3
  <2>2. c \in r.hidden \/ r.more \/ c \in D
    BY <2>1 DEF Caught
  <2> QED
    BY <1>1, <2>2
<1>4. c \in SourceFirst => SawSource(u, c)
  BY <1>1 DEF Caught, SawSource
<1>5. c \in SourceFirst /\ toSource(c) /\ c \notin T => HasSeen(u, c)
  BY <1>1 DEF Caught, HasSeen
<1>6. Noticed(u, c, O)
  BY <1>1 DEF Caught, Noticed, NoNews, Agrees
<1> QED
  BY <1>2, <1>3, <1>4, <1>5, <1>6 DEF Caught

(* The lists after a call of a step that stays where it is, when the place *)
(* in the list is the same.                                                *)
LEMMA ListsOn ==
    ASSUME NEW u \in States, NEW b \in Types, q \in States, k \in Nat,
           ListInv, Carries(q, u, b), q' = u, pc' = pc, pc # "dirty"
    PROVE  ListInv'
<1>1. (m_isProcessing)' <=> m_isProcessing
  BY DEF m_isProcessing
<1>2. From = 1 /\ From' = 1
  BY DEF From
<1>3. Follows(q, u)
  BY DEF Carries
<1>4. OnlyTargets(u) /\ Queued(u, 1)
  BY <1>2, <1>3 DEF ListInv, Follows
<1>5. OnlyTargets(q)' /\ Queued(q, From)'
  BY <1>2, <1>4 DEF OnlyTargets, Queued
<1>6. (~m_isProcessing => q.pending = <<>>)'
  BY <1>1, <1>3 DEF ListInv, Follows
<1>7. (~q.more => IF m_isProcessing THEN q.pending = <<>> ELSE q.dirty = <<>>)'
  BY <1>1, <1>3 DEF ListInv, Follows
<1> QED
  BY <1>5, <1>6, <1>7 DEF ListInv

LEMMA BindInit == Init => BindInv
<1> SUFFICES ASSUME Init  PROVE BindInv
  OBVIOUS
<1> DEFINE T == {b \in Binds : ~toSource(b)}
           n == Cardinality(T)
           a == InOrder(T)
<1>1. /\ n \in Nat /\ a \in [1..n -> T]
      /\ \A p \in T : \E i \in 1..n : a[i] = p
  <2>1. T \in SUBSET (1..Count) /\ Count \in Nat
    BY BindAssumption DEF Binds
  <2> HIDE DEF T
  <2> QED
    BY <2>1, InOrderEnumerates
<1>2. \A b \in Binds : b \in T <=> ~toSource(b)
  OBVIOUS
<1>3. T \in SUBSET Binds
  OBVIOUS
<1>4. PICK value \in [Sources -> Values], prop \in [Binds -> Values] :
          q = [value |-> value, prop |-> prop, seen |-> [b \in Binds |-> 0], valid |-> {},
               dirt |-> Binds,
               hidden |-> {h \in Binds : \E b \in Binds : Hides[b] = h /\ prop[b] # 0},
               dirty |-> a, pending |-> <<>>, more |-> TRUE]
  BY DEF Init
<1>5. /\ q.value = value /\ q.prop = prop /\ q.seen = [b \in Binds |-> 0] /\ q.valid = {}
      /\ q.dirt = Binds /\ q.dirty = a /\ q.pending = <<>> /\ q.more = TRUE
  BY <1>4
<1>6. q \in States
  <2>1. 0 \in Values
    BY ValueAssumption
  <2>2. a \in Seq(Binds)
    <3> HIDE DEF T, n, a
    <3>1. a \in [1..n -> Binds]
      BY <1>1, <1>3
    <3> QED
      BY <1>1, <3>1
  <2> HIDE DEF T, n, a
  <2> QED
    BY <1>4, <2>1, <2>2 DEF States
<1>7. pc = "idle" /\ k = 1 /\ touched = Binds /\ From = 1 /\ ~m_isProcessing
  BY DEF Init, From, m_isProcessing
<1>8. OnlyTargets(q) /\ Queued(q, 1)
  <2> HIDE DEF n, a, T
  <2>1. DOMAIN a = 1..n /\ \A i \in 1..n : a[i] \in T /\ i >= 1
    BY <1>1
  <2>2. OnlyTargets(q)
    BY <1>2, <1>3, <1>5, <2>1 DEF OnlyTargets, Elements
  <2>3. Queued(q, 1)
    BY <1>1, <1>2, <1>5, <2>1 DEF Queued
  <2> QED
    BY <2>2, <2>3
<1>9. \A b \in Binds : Caught(q, b, touched, overlooked, Due)
  BY <1>5, <1>7 DEF Caught, SawSource, Noticed, NoNews
<1> QED
  BY <1>5, <1>6, <1>7, <1>8, <1>9 DEF BindInv, ListInv

-----------------------------------------------------------------------------
(* The steps.                                                              *)

LEMMA SetSourceStep == BindInv /\ SetSource => BindInv'
<1> SUFFICES ASSUME BindInv, SetSource  PROVE BindInv'
  OBVIOUS
<1>1. PICK s \in Sources, v \in Values : q' = propertyValue(q, s, v, None)
  BY DEF SetSource
<1>2. pc = "idle" /\ pc' = "idle" /\ k' = k /\ touched' = touched /\ overlooked' = overlooked
  BY DEF SetSource, pass
<1> DEFINE u == propertyValue(q, s, v, None)
<1>3. Carries(q, u, None) /\ None \in Types /\ q \in States
  BY PropertyValueDoes DEF BindInv, Types
<1>4. u \in States
  BY <1>3 DEF Carries
<1> HIDE DEF u
<1>5. q' = u
  BY <1>1 DEF u
<1>6. ListInv'
  BY <1>2, <1>3, <1>4, <1>5, ListsOn DEF BindInv
<1>7. Due' = Due
  BY <1>2 DEF Due
<1>8. ASSUME NEW b \in Binds  PROVE Caught(q, b, touched, overlooked, Due)'
  <2>1. b # None
    BY BindAssumption
  <2>2. Caught(u, b, touched, overlooked, Due)
    BY <1>3, <1>4, <2>1, CaughtOn DEF BindInv
  <2> QED
    BY <1>2, <1>5, <1>7, <2>2
<1> QED
  BY <1>2, <1>4, <1>5, <1>6, <1>8 DEF BindInv

LEMMA SetTargetStep == BindInv /\ SetTarget => BindInv'
<1> SUFFICES ASSUME BindInv, SetTarget  PROVE BindInv'
  OBVIOUS
<1>1. PICK b \in Binds, v \in Values : /\ kind[b] = "twoWay" /\ q.prop[b] # v
                                       /\ q' = SetProperty(q, b, v)
                                       /\ touched' = touched \cup {b}
                                       /\ overlooked' = IF NoNews(q', b) /\ v # q'.value[source[b]]
                                                        THEN overlooked \cup {b}
                                                        ELSE overlooked \ {b}
  BY DEF SetTarget
<1>2. pc = "idle" /\ pc' = "idle" /\ k' = k
  BY DEF SetTarget, pass
<1> DEFINE u == SetProperty(q, b, v)
<1>3. /\ Carries(q, u, b) /\ b \in Types /\ q \in States
      /\ u.value = q.value /\ u.seen = q.seen /\ u.valid = q.valid /\ u.dirt = q.dirt
      /\ b \in u.hidden \/ u.more
      /\ u.prop[b] = v
  BY <1>1, SetPropertyDoes DEF BindInv, Types
<1>4. u \in States
  BY <1>3 DEF Carries
<1> HIDE DEF u
<1>5. q' = u
  BY <1>1 DEF u
<1>6. ListInv'
  BY <1>2, <1>3, <1>4, <1>5, ListsOn DEF BindInv
<1>7. Due' = Due
  BY <1>2 DEF Due
<1>8. ASSUME NEW c \in Binds, c # b  PROVE Caught(q, c, touched, overlooked, Due)'
  <2>1. Caught(u, c, touched, overlooked, Due)
    BY <1>3, <1>4, <1>8, CaughtOn DEF BindInv
  <2>2. (c \in touched' <=> c \in touched) /\ (c \in overlooked' <=> c \in overlooked)
    BY <1>1, <1>8
  <2> QED
    BY <1>5, <1>7, <2>1, <2>2 DEF Caught, SawSource, HasSeen, Agrees, Noticed, NoNews
<1>9. Caught(q, b, touched, overlooked, Due)'
  <2>1. Caught(q, b, touched, overlooked, Due)
    BY DEF BindInv
  <2>2. Noticed(q', b, overlooked')
    BY <1>1, <1>3, <1>5 DEF Noticed, Agrees
  <2> QED
    BY <1>1, <1>3, <1>5, <2>1, <2>2 DEF Caught, SawSource
<1> QED
  BY <1>1, <1>2, <1>4, <1>5, <1>6, <1>8, <1>9 DEF BindInv

LEMMA StartPassStep == BindInv /\ StartPass => BindInv'
<1> SUFFICES ASSUME BindInv, StartPass  PROVE BindInv'
  OBVIOUS
<1>1. /\ pc = "idle" /\ pc' = "persisting" /\ k' = 1 /\ q' = q /\ touched' = touched
      /\ overlooked' = overlooked
      /\ Due = {} /\ From = 1 /\ From' = 1 /\ ~m_isProcessing /\ m_isProcessing'
  BY DEF StartPass, Due, From, m_isProcessing
<1>2. ListInv'
  BY <1>1 DEF BindInv, ListInv, OnlyTargets, Queued
<1>3. ASSUME NEW b \in Binds  PROVE Caught(q, b, touched, overlooked, Due)'
  BY <1>1 DEF BindInv, Caught, SawSource, HasSeen, Agrees, Noticed, NoNews
<1> QED
  BY <1>1, <1>2, <1>3 DEF BindInv

(* A bind is polled: it is the one bind whose two sides may change, and    *)
(* then they agree.                                                        *)
LEMMA PollDoes ==
    ASSUME BindInv, Poll
    PROVE  /\ k \in DOMAIN Persisting /\ Persisting[k] \in Binds /\ toSource(Persisting[k])
           /\ pc = "persisting" /\ pc' = pc /\ k' = k + 1
           /\ \/ /\ Persisting[k] \in q.hidden
                 /\ q' = q /\ touched' = touched /\ overlooked' = overlooked
              \/ /\ Carries(q, q', Persisting[k]) /\ q' \in States
                 /\ Polled(q', Persisting[k], overlooked')
                 /\ touched' = touched \ {Persisting[k]}
                 /\ \A c \in Binds \ {Persisting[k]} : c \in overlooked' <=> c \in overlooked
           /\ Persisting[k] \in SourceFirst \ touched => q'.value = q.value
<1>1. k \in Nat \ {0} /\ q \in States
  BY DEF BindInv
<1>2. pc = "persisting" /\ k <= Len(Persisting) /\ pc' = pc /\ k' = k + 1
  BY DEF Poll
<1>3. k \in DOMAIN Persisting /\ Persisting[k] \in Binds /\ toSource(Persisting[k])
  BY <1>1, <1>2, PersistingHolds
<1> DEFINE b == Persisting[k]
           u == updateDataBind(q, b, TRUE)
<1>4. CASE b \in q.hidden
  <2>1. q' = q /\ touched' = touched /\ overlooked' = overlooked
    BY <1>4 DEF Poll, canSkip
  <2> QED
    BY <1>2, <1>3, <1>4, <2>1
<1>5. CASE b \notin q.hidden
  <2>1. q' = u /\ touched' = touched \ {b} /\ overlooked' = Remains(q, b, overlooked)
    BY <1>5 DEF Poll, canSkip, Remains
  <2>2. /\ b \in SourceFirst =>
               SawSource(q, b) /\ (b \notin touched => HasSeen(q, b))
        /\ Noticed(q, b, overlooked)
    BY <1>3 DEF BindInv, Caught
  <2> HIDE DEF b
  <2>3. b \in Binds /\ toSource(b)
    BY <1>3 DEF b
  <2> DEFINE O == Remains(q, b, overlooked)
  <2>4. /\ Carries(q, u, b) /\ Polled(u, b, O)
        /\ b \in SourceFirst \ touched => u.value = q.value
    <3>1. CASE b \in SourceFirst
      BY <1>1, <2>2, <2>3, <3>1, SourceFirstDoes
    <3>2. CASE b \notin SourceFirst
      <4>1. Noticed(q, b, overlooked)
        BY <2>2
      <4> HIDE DEF b
      <4> QED
        BY <1>1, <2>3, <3>2, <4>1, TargetFirstDoes
    <3> QED
      BY <3>1, <3>2
  <2>5. u \in States
    BY <2>4 DEF Carries
  <2>6. \A c \in Binds \ {b} : c \in O <=> c \in overlooked
    BY DEF Remains
  <2> HIDE DEF u, O
  <2>7. overlooked' = O
    BY <2>1 DEF O
  <2> QED
    BY <1>2, <1>3, <2>1, <2>4, <2>5, <2>6, <2>7 DEF b
<1> QED
  BY <1>4, <1>5

LEMMA PollStep == BindInv /\ Poll => BindInv'
<1> SUFFICES ASSUME BindInv, Poll  PROVE BindInv'
  OBVIOUS
<1> DEFINE b == Persisting[k]
           u == q'
<1>1. /\ k \in DOMAIN Persisting /\ b \in Binds /\ toSource(b)
      /\ pc = "persisting" /\ pc' = pc /\ k' = k + 1
      /\ \/ b \in q.hidden /\ q' = q /\ touched' = touched /\ overlooked' = overlooked
         \/ /\ Carries(q, u, b) /\ u \in States /\ Polled(u, b, overlooked')
            /\ touched' = touched \ {b}
            /\ \A c \in Binds \ {b} : c \in overlooked' <=> c \in overlooked
  BY PollDoes
<1>2. k \in Nat \ {0} /\ q \in States /\ b \in Types /\ touched \in SUBSET Binds
  BY <1>1 DEF BindInv, Types
<1>3. Persisting[k] = b
  OBVIOUS
<1>4. ASSUME NEW c \in Binds, c # b  PROVE c \in Due => c \in Due'
  <2> SUFFICES ASSUME NEW j \in DOMAIN Persisting, Persisting[j] = c, j >= k
               PROVE  c \in Due'
    BY DEF Due
  <2>1. j # k /\ j \in Nat
    BY <1>3, <1>4, PersistingHolds
  <2>2. j >= k'
    BY <1>1, <1>2, <2>1
  <2> QED
    BY <1>1, <2>2 DEF Due
<1> HIDE DEF b
<1>5. CASE b \in q.hidden /\ q' = q /\ touched' = touched /\ overlooked' = overlooked
  <2>1. ListInv'
    <3>1. From = 1 /\ From' = 1 /\ (m_isProcessing <=> m_isProcessing')
      BY <1>1 DEF From, m_isProcessing
    <3> QED
      BY <1>5, <3>1 DEF BindInv, ListInv, OnlyTargets, Queued
  <2>2. ASSUME NEW c \in Binds  PROVE Caught(q, c, touched, overlooked, Due)'
    <3>1. Caught(q, c, touched, overlooked, Due) /\ (c = b \/ (c \in Due => c \in Due'))
      BY <1>4 DEF BindInv
    <3> QED
      BY <1>5, <3>1 DEF Caught, SawSource, HasSeen, Agrees, Noticed, NoNews
  <2> QED
    BY <1>1, <1>2, <1>5, <2>1, <2>2 DEF BindInv
<1>6. CASE /\ Carries(q, u, b) /\ u \in States /\ Polled(u, b, overlooked')
           /\ touched' = touched \ {b}
           /\ \A c \in Binds \ {b} : c \in overlooked' <=> c \in overlooked
  <2>1. ListInv'
    BY <1>1, <1>2, <1>6, ListsOn DEF BindInv
  <2>2. ASSUME NEW c \in Binds, c # b  PROVE Caught(q', c, touched', overlooked', Due')
    <3>1. Caught(u, c, touched, overlooked, Due)
      BY <1>2, <1>6, <2>2, CaughtOn DEF BindInv
    <3>2. /\ c \in touched' <=> c \in touched
          /\ c \in overlooked' <=> c \in overlooked
          /\ c \in Due => c \in Due'
      BY <1>4, <1>6, <2>2
    <3> QED
      BY <3>1, <3>2 DEF Caught, SawSource, HasSeen, Agrees, Noticed, NoNews
  <2>3. Caught(q', b, touched', overlooked', Due')
    <3>1. /\ b \notin u.dirt /\ Agrees(u, b, overlooked') /\ (b \in SourceFirst => HasSeen(u, b))
          /\ b \notin touched' /\ kind[b] # "toTarget"
      BY <1>1, <1>6 DEF Polled, toSource
    <3>2. b \in SourceFirst => SawSource(u, b)
      BY <3>1 DEF SawSource, HasSeen, Agrees
    <3> QED
      BY <3>1, <3>2 DEF Caught, Noticed
  <2>4. \A c \in Binds : Caught(q', c, touched', overlooked', Due')
    BY <2>2, <2>3
  <2>5. k' \in Nat \ {0} /\ touched' \in SUBSET Binds
    BY <1>1, <1>2, <1>6
  <2> QED
    BY <1>1, <1>6, <2>1, <2>4, <2>5 DEF BindInv
<1> QED
  BY <1>1, <1>5, <1>6

LEMMA StartDirtyStep == BindInv /\ StartDirty => BindInv'
<1> SUFFICES ASSUME BindInv, StartDirty  PROVE BindInv'
  OBVIOUS
<1>1. /\ pc = "persisting" /\ pc' = "dirty" /\ k' = 1 /\ q' = q
      /\ touched' = touched /\ overlooked' = overlooked
      /\ k > Len(Persisting)
  BY DEF StartDirty
<1>2. Due = {} /\ Due' = {}
  <2>1. \A j \in DOMAIN Persisting : ~(j >= k)
    BY <1>1, PersistingHolds DEF BindInv
  <2> QED
    BY <1>1, <2>1 DEF Due
<1>3. From = 1 /\ From' = 1 /\ m_isProcessing /\ m_isProcessing'
  BY <1>1 DEF From, m_isProcessing
<1>4. ListInv'
  BY <1>1, <1>3 DEF BindInv, ListInv, OnlyTargets, Queued
<1>5. ASSUME NEW b \in Binds  PROVE Caught(q, b, touched, overlooked, Due)'
  BY <1>1, <1>2 DEF BindInv, Caught, SawSource, HasSeen, Agrees, Noticed, NoNews
<1> QED
  BY <1>1, <1>4, <1>5 DEF BindInv

LEMMA UpdateDirtyStep == BindInv /\ UpdateDirty => BindInv'
<1> SUFFICES ASSUME BindInv, UpdateDirty  PROVE BindInv'
  OBVIOUS
<1>0. /\ q \in States /\ k \in Nat \ {0} /\ touched \in SUBSET Binds
      /\ q.dirty \in Seq(Binds)
  BY DEF BindInv, States
<1>1. /\ pc = "dirty" /\ pc' = "dirty" /\ k' = k + 1
      /\ touched' = touched /\ overlooked' = overlooked
      /\ k <= Len(q.dirty) /\ q' = updateDataBind(q, q.dirty[k], FALSE)
  BY DEF UpdateDirty
<1>2. PICK b \in Binds : b = q.dirty[k]
  BY <1>0, <1>1
<1>3. k \in DOMAIN q.dirty /\ ~toSource(b)
  <2>1. k \in DOMAIN q.dirty
    BY <1>0, <1>1
  <2> QED
    BY <1>2, <2>1 DEF BindInv, ListInv, OnlyTargets, Elements
<1>4. b \in Types /\ m_isProcessing /\ m_isProcessing' /\ From = k /\ From' = k + 1
  BY <1>1 DEF Types, m_isProcessing, From
<1> DEFINE u == updateDataBind(q, b, FALSE)
<1>5. /\ Carries(q, u, b) /\ b \notin u.dirt
      /\ IF b \in q.dirt THEN u.prop[b] = u.value[source[b]] ELSE u = q
      /\ Queued(q, k) => Queued(u, k + 1)
  BY <1>0, <1>2, <1>3, <1>4, UpdateTargetDoes
<1>6. u \in States /\ Follows(q, u)
  BY <1>5 DEF Carries
<1> HIDE DEF u
<1>7. q' = u
  BY <1>1, <1>2 DEF u
<1>8. ListInv'
  <2>1. OnlyTargets(u) /\ Queued(u, k + 1)
    BY <1>4, <1>5, <1>6 DEF BindInv, ListInv, Follows
  <2>2. OnlyTargets(q)' /\ Queued(q, From)'
    BY <1>4, <1>7, <2>1 DEF OnlyTargets, Queued
  <2>3. ~u.more => u.pending = <<>>
    BY <1>4, <1>6 DEF BindInv, ListInv, Follows
  <2> QED
    BY <1>4, <1>7, <2>2, <2>3 DEF ListInv
<1>9. Due = {} /\ Due' = {}
  BY <1>1 DEF Due
<1>10. ASSUME NEW c \in Binds  PROVE Caught(u, c, touched, overlooked, {})
  <2>1. Caught(q, c, touched, overlooked, {})
    BY <1>9 DEF BindInv
  <2>2. CASE c # b
    BY <1>0, <1>4, <1>5, <1>6, <2>1, <2>2, CaughtOn
  <2>3. CASE c = b /\ b \in q.dirt
    <3>1. b \notin u.dirt /\ u.prop[b] = u.value[source[b]]
      BY <1>5, <2>3
    <3>2. kind[b] # "twoWay"
      BY <1>3 DEF toSource
    <3> QED
      BY <1>3, <2>3, <3>1, <3>2 DEF Caught, SawSource, Noticed
  <2>4. CASE c = b /\ b \notin q.dirt
    BY <1>5, <2>1, <2>4
  <2> QED
    BY <2>2, <2>3, <2>4
<1>11. \A c \in Binds : Caught(q', c, touched', overlooked', Due')
  BY <1>1, <1>7, <1>9, <1>10
<1>12. k' \in Nat \ {0} /\ q' \in States /\ touched' \in SUBSET Binds
  <2>1. k' = k + 1 /\ touched' = touched /\ overlooked' = overlooked
    BY DEF UpdateDirty
  <2> QED
    BY <1>0, <1>6, <1>7, <2>1
<1> QED
  BY <1>1, <1>8, <1>11, <1>12 DEF BindInv

LEMMA EndBindsStep == BindInv /\ EndBinds => BindInv'
<1> SUFFICES ASSUME BindInv, EndBinds  PROVE BindInv'
  OBVIOUS
<1>0. /\ q \in States /\ k \in Nat \ {0} /\ touched \in SUBSET Binds
      /\ q.dirty \in Seq(Binds) /\ q.pending \in Seq(Binds)
  BY DEF BindInv, States
<1>1. /\ pc = "dirty" /\ pc' \in {"idle", "components"} /\ k' = 1
      /\ touched' = touched /\ overlooked' = overlooked
      /\ k > Len(q.dirty) /\ q' = [q EXCEPT !.dirty = q.pending, !.pending = <<>>]
  BY DEF EndBinds
<1> DEFINE u == [q EXCEPT !.dirty = q.pending, !.pending = <<>>]
<1>2. <<>> \in Seq(Binds)
  BY EmptySeq
<1>3. /\ u \in States
      /\ u.value = q.value /\ u.prop = q.prop /\ u.seen = q.seen /\ u.valid = q.valid
      /\ u.dirt = q.dirt /\ u.hidden = q.hidden /\ u.more = q.more
      /\ u.dirty = q.pending /\ u.pending = <<>>
  BY <1>0, <1>2 DEF States
<1> HIDE DEF u
<1>4. /\ m_isProcessing /\ ~(m_isProcessing)' /\ From = k /\ From' = 1
      /\ Due = {} /\ Due' = {} /\ q' = u
  BY <1>1 DEF m_isProcessing, From, Due, u
<1>5. ListInv'
  <2>1. Elements(u.pending) = {}
    BY <1>3 DEF Elements
  <2>2. OnlyTargets(u)
    BY <1>3, <2>1 DEF BindInv, ListInv, OnlyTargets
  <2>3. Queued(u, 1)
    <3> SUFFICES ASSUME NEW b \in q.dirt, ~toSource(b), b \notin q.hidden
                 PROVE  \E j \in DOMAIN q.pending : q.pending[j] = b /\ j >= 1
      BY <1>3 DEF Queued
    <3>1. \A j \in DOMAIN q.dirty : ~(j >= k)
      BY <1>0, <1>1
    <3>2. b \in Elements(q.pending)
      BY <1>4, <3>1 DEF BindInv, ListInv, Queued
    <3>3. PICK j \in DOMAIN q.pending : q.pending[j] = b
      BY <3>2 DEF Elements
    <3>4. j >= 1
      BY <1>0
    <3> QED
      BY <3>3, <3>4
  <2>4. ~u.more => u.dirty = <<>>
    BY <1>3, <1>4 DEF BindInv, ListInv
  <2>5. OnlyTargets(q') /\ Queued(q', From')
    BY <1>4, <2>2, <2>3
  <2> QED
    BY <1>3, <1>4, <2>4, <2>5 DEF ListInv, OnlyTargets, Queued
<1>6. \A b \in Binds : Caught(q', b, touched', overlooked', Due')
  <2> SUFFICES ASSUME NEW b \in Binds  PROVE Caught(u, b, touched, overlooked, {})
    BY <1>1, <1>4
  <2>1. Caught(q, b, touched, overlooked, {})
    BY <1>4 DEF BindInv
  <2> QED
    BY <1>3, <2>1 DEF Caught, SawSource, HasSeen, Agrees, Noticed, NoNews
<1> QED
  BY <1>0, <1>1, <1>3, <1>4, <1>5, <1>6 DEF BindInv

LEMMA UpdateComponentsStep == BindInv /\ UpdateComponents => BindInv'
<1> SUFFICES ASSUME BindInv, UpdateComponents  PROVE BindInv'
  OBVIOUS
<1>0. /\ q \in States /\ touched \in SUBSET Binds /\ pc = "components" /\ k = 1 /\ k' = 1
      /\ ~m_isProcessing /\ From = 1 /\ Due = {} /\ overlooked' = overlooked
  BY DEF BindInv, UpdateComponents, m_isProcessing, From, Due
<1>1. CASE ~q.more
  <2>1. pc' = "idle" /\ q' = q /\ touched' = touched
    BY <1>1 DEF UpdateComponents
  <2>2. ~(m_isProcessing)' /\ From' = 1 /\ Due' = {}
    BY <2>1 DEF m_isProcessing, From, Due
  <2>3. ListInv'
    BY <1>0, <2>1, <2>2 DEF BindInv, ListInv, OnlyTargets, Queued
  <2>4. \A b \in Binds : Caught(q', b, touched', overlooked', Due')
    BY <1>0, <2>1, <2>2 DEF BindInv
  <2> QED
    BY <1>0, <2>1, <2>3, <2>4 DEF BindInv
<1>2. CASE q.more
  <2>1. pc' = "persisting" /\ (m_isProcessing)' /\ From' = 1
    BY <1>2 DEF UpdateComponents, m_isProcessing, From
  <2>2. \A b \in Binds : toSource(b) => b \in Due'
    <3> SUFFICES ASSUME NEW b \in Binds, toSource(b)  PROVE b \in Due'
      OBVIOUS
    <3>1. PICK j \in DOMAIN Persisting : Persisting[j] = b
      BY PersistingHolds
    <3>2. j >= 1
      BY PersistingHolds
    <3> QED
      BY <1>0, <2>1, <3>1, <3>2 DEF Due
  <2>3. \E u \in States :
            /\ q' = u /\ ~u.more
            /\ u.value = q.value /\ u.seen = q.seen /\ u.valid = q.valid /\ u.dirt = q.dirt
            /\ u.hidden = q.hidden /\ u.dirty = q.dirty /\ u.pending = q.pending
            /\ touched' \in SUBSET Binds /\ \A c \in Binds : c \in touched => c \in touched'
            /\ \A c \in Binds : u.prop[c] # q.prop[c] => kind[c] = "toSource" /\ c \in touched'
    <3>1. CASE q' = [q EXCEPT !.more = FALSE] /\ UNCHANGED <<changes, touched>>
      <4> DEFINE u == [q EXCEPT !.more = FALSE]
      <4>1. /\ u \in States /\ ~u.more /\ u.prop = q.prop
            /\ u.value = q.value /\ u.seen = q.seen /\ u.valid = q.valid /\ u.dirt = q.dirt
            /\ u.hidden = q.hidden /\ u.dirty = q.dirty /\ u.pending = q.pending
        BY <1>0 DEF States
      <4>2. q' = u /\ touched' = touched
        BY <3>1
      <4> HIDE DEF u
      <4> QED
        BY <1>0, <4>1, <4>2
    <3>2. CASE \E b \in Binds, v \in Values :
                   /\ kind[b] = "toSource" /\ q.prop[b] # v
                   /\ q' = [q EXCEPT !.more = FALSE, !.prop[b] = v]
                   /\ touched' = touched \cup {b}
      <4>1. PICK b \in Binds, v \in Values :
                /\ kind[b] = "toSource" /\ q.prop[b] # v
                /\ q' = [q EXCEPT !.more = FALSE, !.prop[b] = v]
                /\ touched' = touched \cup {b}
        BY <3>2
      <4> DEFINE u == [q EXCEPT !.more = FALSE, !.prop[b] = v]
      <4>2. /\ u \in States /\ ~u.more /\ \A c \in Binds : c # b => u.prop[c] = q.prop[c]
            /\ u.value = q.value /\ u.seen = q.seen /\ u.valid = q.valid /\ u.dirt = q.dirt
            /\ u.hidden = q.hidden /\ u.dirty = q.dirty /\ u.pending = q.pending
        BY <1>0 DEF States
      <4>3. q' = u /\ kind[b] = "toSource" /\ touched' = touched \cup {b}
        BY <4>1
      <4> HIDE DEF u
      <4> QED
        BY <1>0, <4>2, <4>3
    <3> QED
      BY <1>2, <3>1, <3>2 DEF UpdateComponents
  <2>4. PICK u \in States :
            /\ q' = u /\ ~u.more
            /\ u.value = q.value /\ u.seen = q.seen /\ u.valid = q.valid /\ u.dirt = q.dirt
            /\ u.hidden = q.hidden /\ u.dirty = q.dirty /\ u.pending = q.pending
            /\ touched' \in SUBSET Binds /\ \A c \in Binds : c \in touched => c \in touched'
            /\ \A c \in Binds : u.prop[c] # q.prop[c] => kind[c] = "toSource" /\ c \in touched'
    BY <2>3
  <2>5. ListInv'
    <3>1. OnlyTargets(u) /\ Queued(u, 1) /\ u.pending = <<>>
      BY <1>0, <2>4 DEF BindInv, ListInv, OnlyTargets, Queued
    <3> QED
      BY <2>1, <2>4, <3>1 DEF ListInv, OnlyTargets, Queued
  <2>6. ASSUME NEW b \in Binds  PROVE Caught(u, b, touched', overlooked, Due')
    <3>1. Caught(q, b, touched, overlooked, Due)
      BY DEF BindInv
    <3>2. kind[b] # "toSource" => u.prop[b] = q.prop[b]
      BY <2>4
    <3>3. b \in SourceFirst => SawSource(u, b)
      BY <2>4, <3>1 DEF Caught, SawSource
    <3>4. b \in SourceFirst /\ toSource(b) /\ b \notin touched' => HasSeen(u, b)
      BY <2>4, <3>1 DEF Caught, HasSeen
    <3>5. kind[b] = "toTarget" /\ b \notin u.dirt => u.prop[b] = u.value[source[b]]
      BY <2>4, <3>1, <3>2 DEF Caught
    <3>6. Noticed(u, b, overlooked)
      BY <2>4, <3>1, <3>2 DEF Caught, Noticed, NoNews, Agrees
    <3> QED
      BY <2>2, <3>3, <3>4, <3>5, <3>6 DEF Caught
  <2>7. \A b \in Binds : Caught(q', b, touched', overlooked', Due')
    BY <1>0, <2>4, <2>6
  <2> QED
    BY <1>0, <2>1, <2>4, <2>5, <2>7 DEF BindInv
<1> QED
  BY <1>1, <1>2

LEMMA BindStutters == BindInv /\ UNCHANGED vars => BindInv'
<1> SUFFICES ASSUME BindInv, UNCHANGED vars  PROVE BindInv'
  OBVIOUS
<1>1. q' = q /\ pc' = pc /\ k' = k /\ touched' = touched /\ overlooked' = overlooked
  BY DEF vars, pass
<1>2. From' = From /\ Due' = Due /\ (m_isProcessing <=> m_isProcessing')
  BY <1>1 DEF From, Due, m_isProcessing
<1>3. ListInv'
  BY <1>1, <1>2 DEF BindInv, ListInv, OnlyTargets, Queued
<1>4. \A b \in Binds : Caught(q', b, touched', overlooked', Due')
  BY <1>1, <1>2 DEF BindInv
<1> QED
  BY <1>1, <1>3, <1>4 DEF BindInv

LEMMA BindInvariance == Spec => []BindInv
<1>1. BindInv /\ [Next]_vars => BindInv'
  BY SetSourceStep, SetTargetStep, StartPassStep, PollStep, StartDirtyStep, UpdateDirtyStep,
     EndBindsStep, UpdateComponentsStep, BindStutters DEF Next, Frame
<1> QED
  BY <1>1, BindInit, PTL DEF Spec

-----------------------------------------------------------------------------
(* The theorems.                                                           *)

(* A dirty bind that is shown waits in the list that is being worked       *)
(* through, at a place not yet passed, or in the next one: the lists of    *)
(* DataBindContainer lose no bind, whatever a step makes dirty or shows.   *)
THEOREM DirtyBindsAreQueued == Spec => []DirtyIsQueued
<1>1. BindInv => DirtyIsQueued
  <2> SUFFICES ASSUME BindInv, NEW b \in q.dirt, ~toSource(b), ~isCollapsed(q, b)
               PROVE  \/ b \in Elements(q.pending)
                      \/ \E j \in DOMAIN q.dirty : q.dirty[j] = b /\ (pc = "dirty" => j >= k)
    BY DEF DirtyIsQueued
  <2>1. b \notin q.hidden
    BY DEF isCollapsed
  <2>2. b \in Elements(q.pending) \/ \E j \in DOMAIN q.dirty : q.dirty[j] = b /\ j >= From
    BY <2>1 DEF BindInv, ListInv, Queued
  <2> QED
    BY <2>2 DEF From
<1> QED
  BY <1>1, BindInvariance, PTL

(* When a pass ends and asks for no other, every shown bind that goes to   *)
(* its target shows what the view model holds, two-way ones too, and none  *)
(* has a property that was not polled.  The one exception is a bind that   *)
(* was overlooked (calculateValueAndApply): it applies its property first, *)
(* and that was set back to what the bind saw last.                        *)
THEOREM RestAgrees == Spec => []RestMeansAgreement
<1>1. BindInv => RestMeansAgreement
  <2> SUFFICES ASSUME BindInv, pc = "idle", ~q.more, NEW b \in Binds \ q.hidden
               PROVE  /\ toTarget(b) => \/ q.prop[b] = q.value[source[b]]
                                        \/ b \in overlooked \ SourceFirst
                      /\ toSource(b) => b \notin touched
    BY DEF RestMeansAgreement
  <2>1. Due = {} /\ From = 1 /\ ~m_isProcessing
    BY DEF Due, From, m_isProcessing
  <2>2. q.pending = <<>> /\ q.dirty = <<>>
    BY <2>1 DEF BindInv, ListInv
  <2>3. b \in q.dirt => toSource(b)
    <3>1. Elements(q.pending) = {} /\ DOMAIN q.dirty = {}
      BY <2>2 DEF Elements
    <3> QED
      BY <2>1, <3>1 DEF BindInv, ListInv, Queued
  <2>4. Caught(q, b, touched, overlooked, {})
    BY <2>1 DEF BindInv
  <2>5. kind[b] \in Kinds
    BY BindAssumption
  <2>6. CASE toSource(b)
    BY <2>4, <2>5, <2>6 DEF Caught, Agrees, toSource, toTarget, Kinds
  <2>7. CASE ~toSource(b)
    BY <2>3, <2>4, <2>5, <2>7 DEF Caught, toSource, toTarget, Kinds
  <2> QED
    BY <2>6, <2>7
<1> QED
  BY <1>1, BindInvariance, PTL

(* A bind that applies its source first writes its source only when        *)
(* something else set its property since it was polled last.               *)
THEOREM NoEchoes == Spec => NoEcho
<1>1. BindInv /\ [Next]_vars =>
          [pc = "persisting" /\ k <= Len(Persisting) /\ Persisting[k] \in SourceFirst \ touched
           => UNCHANGED q.value]_vars
  <2> SUFFICES ASSUME BindInv, Next, pc = "persisting", k <= Len(Persisting),
                      Persisting[k] \in SourceFirst \ touched
               PROVE  q'.value = q.value
    OBVIOUS
  <2>1. CASE Poll
    BY <2>1, PollDoes
  <2>2. CASE ~Poll
    <3>1. ~(k > Len(Persisting))
      BY PersistingHolds DEF BindInv
    <3> QED
      BY <2>2, <3>1 DEF Next, Frame, SetSource, SetTarget, StartPass, StartDirty, UpdateDirty,
         EndBinds, UpdateComponents
  <2> QED
    BY <2>1, <2>2
<1> QED
  BY <1>1, BindInvariance, PTL DEF Spec, NoEcho

=============================================================================
