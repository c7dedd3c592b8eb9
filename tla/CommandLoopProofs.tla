------------------------- MODULE CommandLoopProofs -------------------------
(***************************************************************************)
(* Proofs about CommandLoop, for any set of draw keys and any number of    *)
(* commands: every callback gets its own payload and runs at most once, a  *)
(* frame is bounded by the commands pushed before it, the server never     *)
(* sleeps on work, and a draw runs only as the last word on its key.       *)
(***************************************************************************)
EXTENDS CommandLoop, TLAPS

Breaks(c) == c.op = "commandLoopBreak"

(* Ids in a stream are those of commands pushed, in the order of pushes.   *)
WellFormed(s) ==
    \A i \in DOMAIN s : /\ ~Breaks(s[i]) => s[i].id \in 1..Len(issued)
                        /\ Breaks(s[i]) => s[i].id = 0
Sorted(s) ==
    \A i, j \in DOMAIN s : i < j /\ ~Breaks(s[i]) /\ ~Breaks(s[j]) => s[i].id < s[j].id

(* The side stream q holds the payloads of the commands op of stream s.    *)
Matches(q, op, s) ==
    /\ \A i, j \in DOMAIN q : i < j => q[i] < q[j]
    /\ \A i \in DOMAIN q : \E j \in DOMAIN s : s[j].op = op /\ s[j].id = q[i]
    /\ \A j \in DOMAIN s : s[j].op = op => \E i \in DOMAIN q : q[i] = s[j].id

(* Nothing has run or stored the callback of a command in the stream s.    *)
Untouched(i) == runs[i] = 0 /\ \A k \in Keys : m_uniqueDraws[k] # i
Fresh(s) == \A i \in DOMAIN s : ~Breaks(s[i]) => Untouched(s[i].id)

(* One break is in the stream, and all that comes before it was pushed     *)
(* before the frame began.                                                 *)
NoBreak(s) == \A i \in DOMAIN s : ~Breaks(s[i])
BoundedBy(s) ==
    \E p \in DOMAIN s :
        /\ Breaks(s[p]) /\ \A i \in DOMAIN s \ {p} : ~Breaks(s[i])
        /\ \A i \in DOMAIN s : i < p => s[i].id <= frameEnd

StreamInv ==
    /\ WellFormed(m_commandStream) /\ Sorted(m_commandStream) /\ Fresh(m_commandStream)
    /\ Matches(m_callbacks, "runOnce", m_commandStream)
    /\ Matches(m_drawCallbacks, "draw", m_commandStream)

ExecInv ==
    serverPc = "execute" =>
        /\ ~Breaks(command) => command.id \in 1..Len(issued)
        /\ command.op \in {"runOnce", "draw"} => callback = command.id /\ Untouched(callback)
        /\ \A i \in DOMAIN m_commandStream :
              ~Breaks(command) /\ ~Breaks(m_commandStream[i]) => m_commandStream[i].id # command.id

DrawInv ==
    /\ \A k \in Keys : m_uniqueDraws[k] # 0 =>
          /\ m_uniqueDraws[k] <= Len(issued)
          /\ serverPc # "draws" \/ k \in toDraw => runs[m_uniqueDraws[k]] = 0
          /\ \A l \in Keys \ {k} : m_uniqueDraws[l] # m_uniqueDraws[k]
    /\ serverPc \notin {"execute", "next", "draws", "stopped"} => Drawn = {}
    /\ toDraw \subseteq Drawn
    /\ toDraw # {} => serverPc = "draws"
    /\ \A i \in 1..MaxCommands : i > Len(issued) => runs[i] = 0
    /\ Len(issued) <= MaxCommands

InFrame == (serverPc = "execute" /\ ~Breaks(command)) \/ (serverPc = "next" /\ shouldProcessCommands)
FrameInv ==
    /\ serverPc = "execute" => shouldProcessCommands /\ command.id <= frameEnd
    /\ InFrame => BoundedBy(m_commandStream)
    /\ ~InFrame /\ serverPc # "stopped" => NoBreak(m_commandStream)

IInv ==
    /\ TypeOK /\ StreamInv /\ ExecInv /\ DrawInv /\ FrameInv
    /\ serverPc = "waiting" => m_commandStream = <<>>

-----------------------------------------------------------------------------
(* Sequences.                                                              *)

(* An id is a number.                                                      *)
LEMMA IdIsInt == /\ \A c \in Command : c.id \in Int
                 /\ \A i \in Ids : i \in Int
BY BoundAssumption DEF Command, Ids

(* The tail of a sequence is the sequence, shifted by one.                 *)
LEMMA TailShifts ==
    ASSUME NEW S, NEW s \in Seq(S), s # <<>>
    PROVE  /\ Head(s) = s[1] /\ 1 \in DOMAIN s /\ Tail(s) \in Seq(S)
           /\ \A i \in DOMAIN Tail(s) : i \in Nat /\ i + 1 \in DOMAIN s /\ 1 < i + 1 /\ Tail(s)[i] = s[i + 1]
           /\ \A i \in DOMAIN s : i = 1 \/ (i - 1 \in DOMAIN Tail(s) /\ Tail(s)[i - 1] = s[i])
<1>1. /\ Head(s) = s[1] /\ 1 \in DOMAIN s /\ Tail(s) \in Seq(S)
      /\ \A i \in DOMAIN Tail(s) : i \in Nat /\ i + 1 \in DOMAIN s /\ 1 < i + 1 /\ Tail(s)[i] = s[i + 1]
      /\ DOMAIN s = 1..Len(s) /\ Len(s) \in Nat /\ DOMAIN Tail(s) = 1..(Len(s) - 1)
  OBVIOUS
<1>2. ASSUME NEW i \in DOMAIN s, i # 1
      PROVE  i - 1 \in DOMAIN Tail(s) /\ Tail(s)[i - 1] = s[i]
  <2>1. i - 1 \in DOMAIN Tail(s) /\ (i - 1) + 1 = i
    BY <1>1, <1>2
  <2> QED BY <1>1, <2>1
<1>3. \A i \in DOMAIN s : i = 1 \/ (i - 1 \in DOMAIN Tail(s) /\ Tail(s)[i - 1] = s[i])
  BY <1>2, Zenon
<1> QED BY <1>1, <1>3, Zenon

(* Taking the first command leaves the others well formed and in order.    *)
LEMMA PopKeepsOrder ==
    ASSUME NEW s \in Seq(Command), s # <<>>, WellFormed(s), Sorted(s)
    PROVE  /\ Tail(s) \in Seq(Command) /\ Head(s) \in Command
           /\ WellFormed(Tail(s)) /\ Sorted(Tail(s))
           /\ ~Breaks(Head(s)) => Head(s).id \in 1..Len(issued)
           /\ \A i \in DOMAIN Tail(s) :
                 /\ i + 1 \in DOMAIN s /\ Tail(s)[i] = s[i + 1]
                 /\ ~Breaks(Head(s)) /\ ~Breaks(Tail(s)[i]) => Tail(s)[i].id # Head(s).id
<1>1. /\ Tail(s) \in Seq(Command) /\ Head(s) \in Command /\ Head(s) = s[1] /\ 1 \in DOMAIN s
      /\ \A i \in DOMAIN Tail(s) : i \in Nat /\ i + 1 \in DOMAIN s /\ 1 < i + 1 /\ Tail(s)[i] = s[i + 1]
  OBVIOUS
<1>2. WellFormed(Tail(s)) /\ (~Breaks(Head(s)) => Head(s).id \in 1..Len(issued))
  BY <1>1 DEF WellFormed
<1>3. Sorted(Tail(s))
  <2>1. \A i, j \in DOMAIN Tail(s) : i < j => i + 1 < j + 1
    BY <1>1
  <2> QED BY <1>1, <2>1 DEF Sorted
<1>4. ASSUME NEW i \in DOMAIN Tail(s), ~Breaks(Head(s)), ~Breaks(Tail(s)[i])
      PROVE  Tail(s)[i].id # Head(s).id
  <2>1. s[1].id < s[i + 1].id
    BY <1>1, <1>4 DEF Sorted
  <2>2. s[1] \in Command /\ s[i + 1] \in Command
    BY <1>1
  <2>3. s[1].id \in Int /\ s[i + 1].id \in Int
    BY <2>2, IdIsInt
  <2> QED BY <1>1, <2>1, <2>3
<1> QED BY <1>1, <1>2, <1>3, <1>4

(* A command finds its payload at the front of its side stream.            *)
LEMMA PopFindsPayload ==
    ASSUME NEW s \in Seq(Command), s # <<>>, WellFormed(s), Sorted(s),
           NEW q \in Seq(Ids), NEW op \in {"runOnce", "draw"}, Matches(q, op, s),
           Head(s).op = op
    PROVE  q # <<>> /\ Head(q) = Head(s).id /\ Tail(q) \in Seq(Ids) /\ Matches(Tail(q), op, Tail(s))
<1>1. /\ Head(s) = s[1] /\ 1 \in DOMAIN s /\ DOMAIN s = 1..Len(s) /\ Len(s) \in Nat
      /\ \A i \in DOMAIN s : i = 1 \/ i - 1 \in DOMAIN Tail(s)
      /\ \A i \in DOMAIN Tail(s) : i \in Nat /\ i + 1 \in DOMAIN s /\ 1 < i + 1 /\ Tail(s)[i] = s[i + 1]
  OBVIOUS
<1>2. \A i \in DOMAIN s : s[i].id \in Int
  <2>1. \A i \in DOMAIN s : s[i] \in Command
    OBVIOUS
  <2> QED BY <2>1, IdIsInt
<1>3. PICK i \in DOMAIN q : q[i] = s[1].id
  BY <1>1 DEF Matches
<1>4. q # <<>> /\ Head(q) = q[1] /\ 1 \in DOMAIN q /\ Tail(q) \in Seq(Ids) /\ DOMAIN q = 1..Len(q)
  OBVIOUS
<1>5. \A n \in DOMAIN q : n \in Nat /\ q[n] \in Int
  <2>1. \A n \in DOMAIN q : n \in Nat /\ q[n] \in Ids
    OBVIOUS
  <2> QED BY <2>1, IdIsInt
<1>6. PICK j \in DOMAIN s : s[j].op = op /\ s[j].id = q[1]
  BY <1>4 DEF Matches
<1>7. q[1] = s[1].id
  <2>1. CASE i = 1
    BY <1>3, <2>1
  <2>2. CASE i # 1 /\ j = 1
    BY <1>6, <2>2
  <2>3. CASE i # 1 /\ j # 1
    <3>1. 1 < i /\ 1 < j
      BY <1>1, <1>4, <2>3
    <3>2. q[1] < q[i]
      BY <1>4, <3>1 DEF Matches
    <3>3. s[1].id < s[j].id
      BY <1>1, <1>6, <3>1 DEF Sorted, Breaks
    <3> QED BY <1>1, <1>2, <1>3, <1>4, <1>5, <1>6, <3>2, <3>3
  <2> QED BY <2>1, <2>2, <2>3
<1>8. /\ \A n \in DOMAIN Tail(q) : n \in Nat /\ n + 1 \in DOMAIN q /\ 1 < n + 1 /\ Tail(q)[n] = q[n + 1]
      /\ \A n \in DOMAIN q : n = 1 \/ (n - 1 \in DOMAIN Tail(q) /\ Tail(q)[n - 1] = q[n])
  BY <1>4, TailShifts
<1>9. \A m, n \in DOMAIN Tail(q) : m < n => Tail(q)[m] < Tail(q)[n]
  <2>1. \A m, n \in DOMAIN Tail(q) : m < n => m + 1 < n + 1
    BY <1>8
  <2> QED BY <1>8, <2>1 DEF Matches
<1>10. ASSUME NEW n \in DOMAIN Tail(q)
       PROVE  \E m \in DOMAIN Tail(s) : Tail(s)[m].op = op /\ Tail(s)[m].id = Tail(q)[n]
  <2>1. q[1] < q[n + 1]
    BY <1>4, <1>8 DEF Matches
  <2>2. PICK m \in DOMAIN s : s[m].op = op /\ s[m].id = q[n + 1]
    BY <1>8 DEF Matches
  <2>3. m # 1
    BY <1>5, <1>7, <1>8, <1>4, <2>1, <2>2
  <2>4. m - 1 \in DOMAIN Tail(s) /\ Tail(s)[m - 1] = s[m]
    BY <1>1, <2>2, <2>3
  <2> QED BY <1>8, <2>2, <2>4
<1>11. ASSUME NEW m \in DOMAIN Tail(s), Tail(s)[m].op = op
       PROVE  \E n \in DOMAIN Tail(q) : Tail(q)[n] = Tail(s)[m].id
  <2>1. s[1].id < s[m + 1].id
    BY <1>1, <1>11 DEF Sorted, Breaks
  <2>2. PICK n \in DOMAIN q : q[n] = s[m + 1].id
    BY <1>1, <1>11 DEF Matches
  <2>3. n # 1
    BY <1>1, <1>2, <1>7, <2>1, <2>2
  <2>4. n - 1 \in DOMAIN Tail(q) /\ Tail(q)[n - 1] = q[n]
    BY <1>8, <2>2, <2>3
  <2> QED BY <1>1, <2>2, <2>4
<1> HIDE DEF Matches
<1>12. Matches(Tail(q), op, Tail(s))
  BY <1>9, <1>10, <1>11 DEF Matches
<1> QED BY <1>4, <1>7, <1>12

(* A command of another kind leaves a side stream as it is.                *)
LEMMA PopSkipsOthers ==
    ASSUME NEW s \in Seq(Command), s # <<>>, NEW q \in Seq(Ids), NEW op,
           Matches(q, op, s), Head(s).op # op
    PROVE  Matches(q, op, Tail(s))
<1>1. /\ Head(s) = s[1]
      /\ \A i \in DOMAIN s : i = 1 \/ (i - 1 \in DOMAIN Tail(s) /\ Tail(s)[i - 1] = s[i])
      /\ \A i \in DOMAIN Tail(s) : i + 1 \in DOMAIN s /\ Tail(s)[i] = s[i + 1]
  BY TailShifts
<1>2. \A i \in DOMAIN q : \E j \in DOMAIN Tail(s) : Tail(s)[j].op = op /\ Tail(s)[j].id = q[i]
  <2> SUFFICES ASSUME NEW i \in DOMAIN q
               PROVE  \E j \in DOMAIN Tail(s) : Tail(s)[j].op = op /\ Tail(s)[j].id = q[i]
    OBVIOUS
  <2>1. PICK j \in DOMAIN s : s[j].op = op /\ s[j].id = q[i]
    BY DEF Matches
  <2> QED BY <1>1, <2>1
<1> QED BY <1>1, <1>2 DEF Matches

(* Appending leaves what was there where it was.                           *)
LEMMA AppendExtends ==
    ASSUME NEW S, NEW s \in Seq(S), NEW c \in S
    PROVE  /\ Append(s, c) \in Seq(S) /\ Append(s, c) # <<>>
           /\ \A i \in DOMAIN s : i \in DOMAIN Append(s, c) /\ Append(s, c)[i] = s[i] /\ i < Len(s) + 1
           /\ Len(s) + 1 \in DOMAIN Append(s, c) /\ Append(s, c)[Len(s) + 1] = c
           /\ \A i \in DOMAIN Append(s, c) : i \in Nat /\ (i \in DOMAIN s \/ i = Len(s) + 1)
           /\ Len(s) \in Nat /\ \A i, j \in DOMAIN Append(s, c) : i < j => i \in DOMAIN s
OBVIOUS

(* A side stream still matches when a command, and its payload if it has   *)
(* one there, are appended.                                                *)
LEMMA AppendMatches ==
    ASSUME NEW s \in Seq(Command), NEW c \in Command, NEW q \in Seq(Ids), NEW op,
           Matches(q, op, s)
    PROVE  /\ c.op # op => Matches(q, op, Append(s, c))
           /\ c.op = op /\ (\A i \in DOMAIN q : q[i] < c.id) => Matches(Append(q, c.id), op, Append(s, c))
<1>1. /\ \A i \in DOMAIN s : i \in DOMAIN Append(s, c) /\ Append(s, c)[i] = s[i]
      /\ Len(s) + 1 \in DOMAIN Append(s, c) /\ Append(s, c)[Len(s) + 1] = c
      /\ \A i \in DOMAIN Append(s, c) : i \in DOMAIN s \/ i = Len(s) + 1
  BY AppendExtends
<1>2. ASSUME c.op # op PROVE Matches(q, op, Append(s, c))
  <2>1. \A i \in DOMAIN q : \E j \in DOMAIN Append(s, c) : Append(s, c)[j].op = op /\ Append(s, c)[j].id = q[i]
    <3> SUFFICES ASSUME NEW i \in DOMAIN q
                 PROVE  \E j \in DOMAIN Append(s, c) : Append(s, c)[j].op = op /\ Append(s, c)[j].id = q[i]
      OBVIOUS
    <3>1. PICK j \in DOMAIN s : s[j].op = op /\ s[j].id = q[i]
      BY DEF Matches
    <3> QED BY <1>1, <3>1
  <2>2. \A j \in DOMAIN Append(s, c) : Append(s, c)[j].op = op => \E i \in DOMAIN q : q[i] = Append(s, c)[j].id
    <3>1. \A j \in DOMAIN Append(s, c) : Append(s, c)[j].op = op => j \in DOMAIN s
      BY <1>1, <1>2
    <3> QED BY <1>1, <3>1 DEF Matches
  <2> QED BY <2>1, <2>2 DEF Matches
<1>3. ASSUME c.op = op, \A i \in DOMAIN q : q[i] < c.id
      PROVE  Matches(Append(q, c.id), op, Append(s, c))
  <2> DEFINE r == Append(q, c.id)
  <2>1. c.id \in Ids
    BY DEF Command
  <2>2. /\ \A i \in DOMAIN q : i \in DOMAIN r /\ r[i] = q[i]
        /\ Len(q) + 1 \in DOMAIN r /\ r[Len(q) + 1] = c.id
        /\ \A i \in DOMAIN r : i \in DOMAIN q \/ i = Len(q) + 1
        /\ \A i, j \in DOMAIN r : i < j => i \in DOMAIN q
    BY <2>1, AppendExtends
  <2> HIDE DEF r
  <2>3. \A i, j \in DOMAIN r : i < j => r[i] < r[j]
    <3> SUFFICES ASSUME NEW i \in DOMAIN r, NEW j \in DOMAIN r, i < j PROVE r[i] < r[j]
      OBVIOUS
    <3>1. CASE j \in DOMAIN q
      BY <2>2, <3>1 DEF Matches
    <3>2. CASE j = Len(q) + 1
      BY <1>3, <2>2, <3>2
    <3> QED BY <2>2, <3>1, <3>2
  <2>4. \A i \in DOMAIN r : \E j \in DOMAIN Append(s, c) : Append(s, c)[j].op = op /\ Append(s, c)[j].id = r[i]
    <3> SUFFICES ASSUME NEW i \in DOMAIN r
                 PROVE  \E j \in DOMAIN Append(s, c) : Append(s, c)[j].op = op /\ Append(s, c)[j].id = r[i]
      OBVIOUS
    <3>1. CASE i \in DOMAIN q
      <4>1. PICK j \in DOMAIN s : s[j].op = op /\ s[j].id = q[i]
        BY <3>1 DEF Matches
      <4> QED BY <1>1, <2>2, <3>1, <4>1
    <3>2. CASE i = Len(q) + 1
      BY <1>1, <1>3, <2>2, <3>2
    <3> QED BY <2>2, <3>1, <3>2
  <2>5. \A j \in DOMAIN Append(s, c) : Append(s, c)[j].op = op => \E i \in DOMAIN r : r[i] = Append(s, c)[j].id
    <3> SUFFICES ASSUME NEW j \in DOMAIN Append(s, c), Append(s, c)[j].op = op
                 PROVE  \E i \in DOMAIN r : r[i] = Append(s, c)[j].id
      OBVIOUS
    <3>1. CASE j \in DOMAIN s
      <4>1. PICK i \in DOMAIN q : q[i] = s[j].id
        BY <1>1, <3>1 DEF Matches
      <4> QED BY <1>1, <2>2, <3>1, <4>1
    <3>2. CASE j = Len(s) + 1
      BY <1>1, <2>2, <3>2
    <3> QED BY <1>1, <3>1, <3>2
  <2> QED BY <2>3, <2>4, <2>5 DEF Matches, r
<1> QED BY <1>2, <1>3

-----------------------------------------------------------------------------
(* Steps that several actions share.                                       *)

StreamsTyped ==
    m_commandStream \in Seq(Command) /\ m_callbacks \in Seq(Ids) /\ m_drawCallbacks \in Seq(Ids)

(* Popping a command, from the stream or from the stream with the break.   *)
LEMMA PopStep ==
    ASSUME NEW s \in Seq(Command), s # <<>>, WellFormed(s), Sorted(s), Fresh(s),
           Matches(m_callbacks, "runOnce", s), Matches(m_drawCallbacks, "draw", s),
           StreamsTyped, PopCommand(s), UNCHANGED <<m_uniqueDraws, runs, issued>>
    PROVE  StreamInv' /\ ExecInv' /\ StreamsTyped' /\ command' \in Command /\ callback' \in Ids
<1>1. /\ Tail(s) \in Seq(Command) /\ Head(s) \in Command
      /\ WellFormed(Tail(s)) /\ Sorted(Tail(s))
      /\ ~Breaks(Head(s)) => Head(s).id \in 1..Len(issued)
      /\ \A i \in DOMAIN Tail(s) :
            /\ i + 1 \in DOMAIN s /\ Tail(s)[i] = s[i + 1]
            /\ ~Breaks(Head(s)) /\ ~Breaks(Tail(s)[i]) => Tail(s)[i].id # Head(s).id
  BY PopKeepsOrder
<1>2. m_commandStream' = Tail(s) /\ command' = Head(s) /\ serverPc' = "execute"
  BY DEF PopCommand
<1>3. WellFormed(m_commandStream)' /\ Sorted(m_commandStream)' /\ Fresh(m_commandStream)'
  <2>1. Fresh(Tail(s))
    BY <1>1 DEF Fresh
  <2> QED BY <1>1, <1>2, <2>1 DEF WellFormed, Sorted, Fresh, Untouched
<1>4. CASE Head(s).op = "runOnce"
  <2>1. callback' = Head(m_callbacks) /\ m_callbacks' = Tail(m_callbacks) /\ m_drawCallbacks' = m_drawCallbacks
    BY <1>4 DEF PopCommand
  <2>2. m_callbacks # <<>> /\ Head(m_callbacks) = Head(s).id /\ Tail(m_callbacks) \in Seq(Ids) /\ Matches(Tail(m_callbacks), "runOnce", Tail(s))
    BY <1>4, PopFindsPayload DEF StreamsTyped
  <2>3. Matches(m_drawCallbacks, "draw", Tail(s))
    BY <1>4, PopSkipsOthers DEF StreamsTyped
  <2>4. Matches(m_callbacks, "runOnce", m_commandStream)' /\ Matches(m_drawCallbacks, "draw", m_commandStream)'
    BY <1>2, <2>1, <2>2, <2>3 DEF Matches
  <2>5. callback' = Head(s).id /\ callback' \in Ids /\ StreamsTyped'
    BY <1>1, <1>2, <2>1, <2>2 DEF StreamsTyped, Command
  <2>6. Untouched(Head(s).id)
    BY <1>4, TailShifts DEF Fresh, Breaks
  <2> QED BY <1>1, <1>2, <1>3, <1>4, <2>4, <2>5, <2>6 DEF StreamInv, ExecInv, Untouched, Breaks
<1>5. CASE Head(s).op = "draw"
  <2>1. callback' = Head(m_drawCallbacks) /\ m_drawCallbacks' = Tail(m_drawCallbacks) /\ m_callbacks' = m_callbacks
    BY <1>5 DEF PopCommand
  <2>2. m_drawCallbacks # <<>> /\ Head(m_drawCallbacks) = Head(s).id /\ Tail(m_drawCallbacks) \in Seq(Ids) /\ Matches(Tail(m_drawCallbacks), "draw", Tail(s))
    BY <1>5, PopFindsPayload DEF StreamsTyped
  <2>3. Matches(m_callbacks, "runOnce", Tail(s))
    BY <1>5, PopSkipsOthers DEF StreamsTyped
  <2>4. Matches(m_callbacks, "runOnce", m_commandStream)' /\ Matches(m_drawCallbacks, "draw", m_commandStream)'
    BY <1>2, <2>1, <2>2, <2>3 DEF Matches
  <2>5. callback' = Head(s).id /\ callback' \in Ids /\ StreamsTyped'
    BY <1>1, <1>2, <2>1, <2>2 DEF StreamsTyped, Command
  <2>6. Untouched(Head(s).id)
    BY <1>5, TailShifts DEF Fresh, Breaks
  <2> QED BY <1>1, <1>2, <1>3, <1>5, <2>4, <2>5, <2>6 DEF StreamInv, ExecInv, Untouched, Breaks
<1>6. CASE Head(s).op \notin {"runOnce", "draw"}
  <2>1. callback' = 0 /\ m_callbacks' = m_callbacks /\ m_drawCallbacks' = m_drawCallbacks
    BY <1>6 DEF PopCommand
  <2>2. Matches(m_callbacks, "runOnce", Tail(s)) /\ Matches(m_drawCallbacks, "draw", Tail(s))
    BY <1>6, PopSkipsOthers DEF StreamsTyped
  <2>3. Matches(m_callbacks, "runOnce", m_commandStream)' /\ Matches(m_drawCallbacks, "draw", m_commandStream)'
    BY <1>2, <2>1, <2>2 DEF Matches
  <2>4. callback' \in Ids /\ StreamsTyped'
    BY <1>1, <1>2, <2>1, BoundAssumption DEF StreamsTyped, Ids
  <2> QED BY <1>1, <1>2, <1>3, <1>6, <2>3, <2>4 DEF StreamInv, ExecInv, Breaks
<1> QED BY <1>4, <1>5, <1>6
(* The stream with the break at its end.                                   *)
LEMMA BreakAtTheEnd ==
    ASSUME TypeOK, StreamInv, Len(issued) <= MaxCommands
    PROVE  LET s == Append(m_commandStream, LoopBreak) IN
           /\ s \in Seq(Command) /\ s # <<>> /\ WellFormed(s) /\ Sorted(s) /\ Fresh(s)
           /\ Matches(m_callbacks, "runOnce", s) /\ Matches(m_drawCallbacks, "draw", s)
           /\ \A i \in DOMAIN m_commandStream : s[i] = m_commandStream[i]
           /\ Len(m_commandStream) + 1 \in DOMAIN s /\ s[Len(m_commandStream) + 1] = LoopBreak
<1> DEFINE s == Append(m_commandStream, LoopBreak)
<1>1. LoopBreak \in Command /\ LoopBreak.op = "commandLoopBreak"
  BY BoundAssumption DEF LoopBreak, Command, Ops, Ids
<1>2. m_commandStream \in Seq(Command) /\ m_callbacks \in Seq(Ids) /\ m_drawCallbacks \in Seq(Ids)
  BY DEF TypeOK
<1>3. /\ s \in Seq(Command) /\ s # <<>>
      /\ \A i \in DOMAIN m_commandStream : s[i] = m_commandStream[i]
      /\ Len(m_commandStream) + 1 \in DOMAIN s /\ s[Len(m_commandStream) + 1] = LoopBreak
      /\ \A i \in DOMAIN s : i \in DOMAIN m_commandStream \/ i = Len(m_commandStream) + 1
  BY <1>1, <1>2, AppendExtends
<1>4. Matches(m_callbacks, "runOnce", s) /\ Matches(m_drawCallbacks, "draw", s)
  BY <1>1, <1>2, AppendMatches DEF StreamInv
<1> HIDE DEF s
<1>5. \A i \in DOMAIN s : ~Breaks(s[i]) => i \in DOMAIN m_commandStream /\ s[i] = m_commandStream[i]
  BY <1>1, <1>3 DEF Breaks
<1>6. WellFormed(s) /\ Sorted(s) /\ Fresh(s)
  <2>1. \A i \in DOMAIN s : Breaks(s[i]) => s[i].id = 0
    BY <1>3 DEF StreamInv, WellFormed, LoopBreak
  <2> QED BY <1>5, <2>1 DEF StreamInv, WellFormed, Sorted, Fresh
<1> QED BY <1>3, <1>4, <1>6 DEF s

(* A push goes to the end of the streams, under an id above all others.    *)
LEMMA PushStep ==
    ASSUME IInv, NEW op \in {"runOnce", "draw", "cancelDraw", "disconnect"}, NEW key \in Keys \cup {NoKey},
           Push(op, key)
    PROVE  StreamInv' /\ StreamsTyped' /\ issued' \in Seq(Command) /\ Len(issued') = Len(issued) + 1
<1> DEFINE id == Len(issued) + 1
           c == [op |-> op, key |-> key, id |-> id]
           s == m_commandStream
<1>1. /\ id \in 1..MaxCommands /\ Len(issued) \in Nat /\ issued \in Seq(Command)
      /\ s \in Seq(Command) /\ m_callbacks \in Seq(Ids) /\ m_drawCallbacks \in Seq(Ids)
  BY BoundAssumption DEF IInv, TypeOK, Push
<1>2. c \in Command /\ c.op = op /\ c.id = id /\ ~Breaks(c)
  BY <1>1 DEF Command, Ops, Ids, Breaks
<1>3. /\ m_commandStream' = Append(s, c) /\ issued' = Append(issued, c)
      /\ m_callbacks' = IF op = "runOnce" THEN Append(m_callbacks, id) ELSE m_callbacks
      /\ m_drawCallbacks' = IF op = "draw" THEN Append(m_drawCallbacks, id) ELSE m_drawCallbacks
      /\ UNCHANGED <<m_uniqueDraws, runs>>
  BY DEF Push
<1> HIDE DEF c, id
<1>4. issued' \in Seq(Command) /\ Len(issued') = Len(issued) + 1 /\ id = Len(issued) + 1
  BY <1>1, <1>2, <1>3 DEF id
<1>5. /\ \A i \in DOMAIN s : i \in DOMAIN Append(s, c) /\ Append(s, c)[i] = s[i]
      /\ \A i \in DOMAIN Append(s, c) : i \in DOMAIN s \/ Append(s, c)[i] = c
      /\ \A i, j \in DOMAIN Append(s, c) : i < j => i \in DOMAIN s
  BY <1>1, <1>2, AppendExtends
<1>6. \A i \in DOMAIN s : ~Breaks(s[i]) => s[i].id \in 1..Len(issued) /\ s[i].id < id
  BY <1>1, <1>4 DEF IInv, StreamInv, WellFormed
<1>7. WellFormed(m_commandStream)'
  <2>1. \A i \in DOMAIN s : Breaks(s[i]) => s[i].id = 0
    BY DEF IInv, StreamInv, WellFormed
  <2> QED BY <1>1, <1>2, <1>3, <1>4, <1>5, <1>6, <2>1 DEF WellFormed
<1>8. Sorted(m_commandStream)'
  <2>1. \A i, j \in DOMAIN s : i < j /\ ~Breaks(s[i]) /\ ~Breaks(s[j]) => s[i].id < s[j].id
    BY DEF IInv, StreamInv, Sorted
  <2> QED BY <1>2, <1>3, <1>5, <1>6, <2>1 DEF Sorted
<1>9. Fresh(m_commandStream)'
  <2>1. Untouched(id)
    <3>1. runs[id] = 0
      BY <1>1, <1>4 DEF IInv, DrawInv
    <3>2. \A k \in Keys : m_uniqueDraws[k] # id
      <4>1. \A k \in Keys : m_uniqueDraws[k] # 0 => m_uniqueDraws[k] <= Len(issued)
        BY DEF IInv, DrawInv
      <4> QED BY <1>1, <1>4, <4>1
    <3> QED BY <3>1, <3>2 DEF Untouched
  <2>2. \A i \in DOMAIN s : ~Breaks(s[i]) => Untouched(s[i].id)
    BY DEF IInv, StreamInv, Fresh
  <2> QED BY <1>2, <1>3, <1>5, <2>1, <2>2 DEF Fresh, Untouched
<1>10. ASSUME NEW q \in Seq(Ids), NEW o \in {"runOnce", "draw"}, Matches(q, o, s)
       PROVE  Matches(IF op = o THEN Append(q, id) ELSE q, o, Append(s, c))
  <2>1. \A i \in DOMAIN q : q[i] < id
    <3>1. \A i \in DOMAIN q : \E j \in DOMAIN s : s[j].op = o /\ s[j].id = q[i]
      BY <1>10 DEF Matches
    <3> QED BY <1>6, <3>1 DEF Breaks
  <2> QED BY <1>1, <1>2, <1>10, <2>1, AppendMatches
<1>11. Matches(m_callbacks, "runOnce", m_commandStream)' /\ Matches(m_drawCallbacks, "draw", m_commandStream)'
  <2>1. /\ Matches(IF op = "runOnce" THEN Append(m_callbacks, id) ELSE m_callbacks, "runOnce", Append(s, c))
        /\ Matches(IF op = "draw" THEN Append(m_drawCallbacks, id) ELSE m_drawCallbacks, "draw", Append(s, c))
    BY <1>1, <1>10 DEF IInv, StreamInv
  <2> QED BY <1>3, <2>1 DEF Matches
<1>12. StreamsTyped'
  <2>1. id \in Ids /\ s \in Seq(Command) /\ Append(s, c) \in Seq(Command)
    BY <1>1, <1>2 DEF Ids
  <2>2. Append(m_callbacks, id) \in Seq(Ids) /\ Append(m_drawCallbacks, id) \in Seq(Ids)
    BY <1>1, <2>1
  <2> QED BY <1>1, <1>3, <2>1, <2>2 DEF StreamsTyped
<1> QED BY <1>4, <1>7, <1>8, <1>9, <1>11, <1>12 DEF StreamInv
(* Steps that touch neither the streams nor the callbacks.                 *)
LEMMA QuietStep ==
    ASSUME StreamInv, UNCHANGED <<streams, m_uniqueDraws, runs, issued>>
    PROVE  StreamInv'
BY DEF StreamInv, WellFormed, Sorted, Fresh, Untouched, Matches, streams

-----------------------------------------------------------------------------
(* The invariant.                                                          *)

LEMMA InitOK == Init => IInv
<1> SUFFICES ASSUME Init PROVE IInv
  OBVIOUS
<1>1. TypeOK
  <2>1. LoopBreak \in Command /\ 0 \in Ids
    BY BoundAssumption DEF Command, LoopBreak, Ops, Ids
  <2>2. m_commandStream \in Seq(Command) /\ m_callbacks \in Seq(Ids) /\ m_drawCallbacks \in Seq(Ids) /\ issued \in Seq(Command)
    BY DEF Init
  <2>3. m_uniqueDraws \in [Keys -> Ids] /\ runs \in [1..MaxCommands -> {0, 1}] /\ toDraw \in SUBSET Keys
    BY <2>1 DEF Init
  <2> QED BY <2>1, <2>2, <2>3 DEF Init, TypeOK, ServerPcs
<1>2. m_commandStream = <<>> /\ m_callbacks = <<>> /\ m_drawCallbacks = <<>>
  BY DEF Init
<1>3. StreamInv
  BY <1>2 DEF StreamInv, WellFormed, Sorted, Fresh, Matches
<1>4. DrawInv
  BY BoundAssumption DEF Init, DrawInv, Drawn
<1> QED BY <1>1, <1>2, <1>3, <1>4 DEF Init, IInv, ExecInv, FrameInv, InFrame, NoBreak

LEMMA StepOK == IInv /\ [Next]_vars => IInv'
<1> SUFFICES ASSUME IInv, [Next]_vars PROVE IInv'
  OBVIOUS
<1> USE DEF IInv
<1>1. ASSUME NEW op \in {"runOnce", "draw", "cancelDraw", "disconnect"}, NEW key \in Keys \cup {NoKey},
             Push(op, key)
      PROVE  IInv'
  <2>1. StreamInv' /\ StreamsTyped' /\ issued' \in Seq(Command) /\ Len(issued') = Len(issued) + 1
    BY <1>1, PushStep
  <2>2. UNCHANGED <<m_uniqueDraws, m_wasDisconnectReceived, locals, toDraw, frameEnd, runs>>
    BY <1>1 DEF Push
  <2>3. /\ serverPc # "waiting" => serverPc' = serverPc
        /\ serverPc = "waiting" => serverPc' = "waitLock"
    BY <1>1 DEF Push, Notify
  <2>4. Len(issued) \in Nat /\ Len(issued') <= MaxCommands
    BY <1>1, <2>1 DEF Push, TypeOK
  <2>5. TypeOK'
    BY <2>1, <2>2, <2>3 DEF TypeOK, StreamsTyped, locals, ServerPcs
  <2>6. ExecInv'
    <3> SUFFICES ASSUME serverPc' = "execute" PROVE ExecInv'
      BY DEF ExecInv
    <3>1. serverPc = "execute"
      BY <2>3
    <3>2. ASSUME NEW i \in DOMAIN m_commandStream', ~Breaks(command), ~Breaks(m_commandStream'[i])
          PROVE  m_commandStream'[i].id # command.id
      <4>1. m_commandStream \in Seq(Command) /\ command.id \in 1..Len(issued)
        BY <3>1, <3>2 DEF ExecInv, TypeOK
      <4>2. CASE i \in DOMAIN m_commandStream
        BY <1>1, <3>1, <3>2, <4>1, <4>2 DEF ExecInv, Push
      <4>3. CASE i \notin DOMAIN m_commandStream
        <5>1. m_commandStream'[i].id = Len(issued) + 1
          BY <1>1, <4>1, <4>3 DEF Push
        <5> QED BY <2>4, <4>1, <5>1
      <4> QED BY <4>2, <4>3
    <3> QED BY <2>1, <2>2, <2>4, <3>1, <3>2 DEF ExecInv, Untouched, locals, Breaks
  <2>7. DrawInv'
    BY <2>1, <2>2, <2>3, <2>4 DEF DrawInv, Drawn, TypeOK, Ids
  <2>8. FrameInv'
    <3>1. /\ m_commandStream \in Seq(Command) /\ DOMAIN m_commandStream = 1..Len(m_commandStream)
          /\ \A i \in DOMAIN m_commandStream : i \in DOMAIN m_commandStream' /\ m_commandStream'[i] = m_commandStream[i]
          /\ \A i \in DOMAIN m_commandStream' :
                i \in DOMAIN m_commandStream \/ (i = Len(m_commandStream) + 1 /\ ~Breaks(m_commandStream'[i]))
      BY <1>1 DEF Push, TypeOK, Breaks
    <3>2. ASSUME BoundedBy(m_commandStream) PROVE BoundedBy(m_commandStream)'
      <4>1. PICK p \in DOMAIN m_commandStream :
               /\ Breaks(m_commandStream[p]) /\ \A i \in DOMAIN m_commandStream \ {p} : ~Breaks(m_commandStream[i])
               /\ \A i \in DOMAIN m_commandStream : i < p => m_commandStream[i].id <= frameEnd
        BY <3>2 DEF BoundedBy
      <4>2. \A i \in DOMAIN m_commandStream' : i < p => i \in DOMAIN m_commandStream
        BY <3>1
      <4> QED BY <2>2, <3>1, <4>1, <4>2 DEF BoundedBy, Breaks
    <3>3. ASSUME NoBreak(m_commandStream) PROVE NoBreak(m_commandStream)'
      BY <3>1, <3>3 DEF NoBreak, Breaks
    <3> QED BY <2>2, <2>3, <3>2, <3>3 DEF FrameInv, InFrame, locals, Breaks
  <2> QED BY <2>1, <2>3, <2>5, <2>6, <2>7, <2>8
<1>2. ASSUME UNCHANGED <<streams, m_uniqueDraws, m_wasDisconnectReceived, locals, toDraw, frameEnd, runs, issued>>,
             serverPc \in {"serve", "waitLock", "waiting", "process"},
             serverPc' \in {"serve", "waitLock", "waiting", "process"},
             serverPc' = "waiting" => m_commandStream = <<>>
      PROVE  IInv'
  <2>1. TypeOK'
    BY <1>2 DEF TypeOK, streams, locals, ServerPcs
  <2>2. StreamInv'
    BY <1>2, QuietStep
  <2>3. ExecInv' /\ FrameInv'
    BY <1>2 DEF ExecInv, FrameInv, InFrame, NoBreak, streams
  <2>4. DrawInv'
    BY <1>2 DEF DrawInv, Drawn
  <2> QED BY <1>2, <2>1, <2>2, <2>3, <2>4 DEF streams
<1>3. CASE CreateDrawKey
  BY <1>2, <1>3 DEF CreateDrawKey, Notify
<1>4. CASE WaitCommands
  BY <1>2, <1>4 DEF WaitCommands, ServerGoto
<1>5. CASE WaitUnderLock
  BY <1>2, <1>5 DEF WaitUnderLock, ServerGoto
<1>6. CASE EarlyOut
  BY <1>2, <1>6 DEF EarlyOut, ServerGoto
<1>7. CASE ProcessCommands
  <2> DEFINE s == Append(m_commandStream, LoopBreak)
  <2>1. /\ s \in Seq(Command) /\ s # <<>> /\ WellFormed(s) /\ Sorted(s) /\ Fresh(s)
        /\ Matches(m_callbacks, "runOnce", s) /\ Matches(m_drawCallbacks, "draw", s)
        /\ \A i \in DOMAIN m_commandStream : s[i] = m_commandStream[i]
        /\ Len(m_commandStream) + 1 \in DOMAIN s /\ s[Len(m_commandStream) + 1] = LoopBreak
    BY BreakAtTheEnd DEF DrawInv
  <2>2. m_commandStream # <<>> /\ m_commandStream \in Seq(Command)
    BY <1>7 DEF ProcessCommands, TypeOK
  <2> HIDE DEF s
  <2>3. /\ PopCommand(s) /\ shouldProcessCommands' = TRUE /\ frameEnd' = Len(issued)
        /\ UNCHANGED <<m_uniqueDraws, m_wasDisconnectReceived, toDraw, runs, issued>>
    BY <1>7 DEF ProcessCommands, s
  <2>4. StreamInv' /\ ExecInv' /\ StreamsTyped' /\ command' \in Command /\ callback' \in Ids
    BY <2>1, <2>3, PopStep DEF TypeOK, StreamsTyped
  <2>5. serverPc' = "execute" /\ m_commandStream' = Tail(s) /\ command' = Head(s)
    BY <2>3 DEF PopCommand
  <2>6. TypeOK'
    BY <2>3, <2>4, <2>5 DEF TypeOK, StreamsTyped, ServerPcs, DrawInv, Ids
  <2>7. DrawInv'
    BY <1>7, <2>3, <2>5 DEF DrawInv, Drawn, ProcessCommands
  <2>8. FrameInv'
    <3>1. /\ command' = m_commandStream[1] /\ 1 \in DOMAIN m_commandStream
          /\ Len(m_commandStream) \in DOMAIN Tail(s) /\ Tail(s)[Len(m_commandStream)] = LoopBreak
          /\ \A i \in 1..(Len(m_commandStream) - 1) :
                Tail(s)[i] = m_commandStream[i + 1] /\ i + 1 \in DOMAIN m_commandStream
      BY <2>1, <2>2, <2>5 DEF s
    <3>2. \A i \in DOMAIN m_commandStream :
             ~Breaks(m_commandStream[i]) /\ m_commandStream[i].id <= Len(issued)
      <4>1. \A i \in DOMAIN m_commandStream : ~Breaks(m_commandStream[i])
        BY <1>7 DEF ProcessCommands, FrameInv, InFrame, NoBreak
      <4> QED BY <4>1 DEF StreamInv, WellFormed, TypeOK
    <3>3. BoundedBy(m_commandStream)'
      <4>1. /\ Breaks(LoopBreak)
            /\ \A i \in DOMAIN Tail(s) : i # Len(m_commandStream) =>
                  /\ i \in 1..(Len(m_commandStream) - 1)
        BY <2>1, <2>2 DEF s, Breaks, LoopBreak
      <4>2. Len(m_commandStream) \in DOMAIN m_commandStream' /\ Breaks(m_commandStream'[Len(m_commandStream)])
        BY <2>5, <3>1, <4>1
      <4>3. \A i \in DOMAIN m_commandStream' : i # Len(m_commandStream) =>
               ~Breaks(m_commandStream'[i]) /\ m_commandStream'[i].id <= frameEnd'
        BY <2>3, <2>5, <3>1, <3>2, <4>1
      <4>4. \A i \in DOMAIN m_commandStream' : i < Len(m_commandStream) => i # Len(m_commandStream)
        BY <2>2
      <4> QED BY <4>2, <4>3, <4>4 DEF BoundedBy, Breaks
    <3> QED BY <2>3, <2>5, <3>1, <3>2, <3>3 DEF FrameInv, InFrame, Breaks
  <2> QED BY <2>4, <2>5, <2>6, <2>7, <2>8
<1>8. CASE NextCommand
  <2>1. /\ m_commandStream # <<>> /\ m_commandStream \in Seq(Command) /\ shouldProcessCommands
        /\ PopCommand(m_commandStream) /\ serverPc = "next"
        /\ UNCHANGED <<m_uniqueDraws, m_wasDisconnectReceived, shouldProcessCommands, toDraw, frameEnd, runs, issued>>
    BY <1>8 DEF NextCommand, TypeOK
  <2>2. StreamInv' /\ ExecInv' /\ StreamsTyped' /\ command' \in Command /\ callback' \in Ids
    <3>1. StreamsTyped
      BY DEF TypeOK, StreamsTyped
    <3> QED BY <2>1, <3>1, PopStep DEF StreamInv
  <2>3. serverPc' = "execute" /\ m_commandStream' = Tail(m_commandStream) /\ command' = Head(m_commandStream)
    BY <2>1 DEF PopCommand
  <2>4. TypeOK'
    BY <2>1, <2>2, <2>3 DEF TypeOK, StreamsTyped, ServerPcs
  <2>5. DrawInv'
    BY <2>1, <2>3 DEF DrawInv, Drawn
  <2>6. FrameInv'
    <3>1. PICK p \in DOMAIN m_commandStream :
             /\ Breaks(m_commandStream[p]) /\ \A i \in DOMAIN m_commandStream \ {p} : ~Breaks(m_commandStream[i])
             /\ \A i \in DOMAIN m_commandStream : i < p => m_commandStream[i].id <= frameEnd
      BY <2>1 DEF FrameInv, InFrame, BoundedBy
    <3>2. /\ command' = m_commandStream[1] /\ 1 \in DOMAIN m_commandStream /\ p \in Nat /\ (p = 1 \/ 1 < p)
          /\ \A i \in DOMAIN m_commandStream' :
                i \in Nat /\ i + 1 \in DOMAIN m_commandStream /\ 1 < i + 1 /\ m_commandStream'[i] = m_commandStream[i + 1]
          /\ \A i \in DOMAIN m_commandStream :
                i = 1 \/ (i - 1 \in DOMAIN m_commandStream' /\ m_commandStream'[i - 1] = m_commandStream[i])
      <4>1. p \in Nat /\ (p = 1 \/ 1 < p)
        BY <2>1
      <4> QED BY <2>1, <2>3, <4>1, TailShifts
    <3>3. CASE p = 1
      <4>1. Breaks(command') /\ NoBreak(m_commandStream)'
        BY <3>1, <3>2, <3>3 DEF NoBreak, Breaks
      <4>2. command'.id <= frameEnd'
        <5>1. command'.id = 0
          BY <3>1, <3>2, <3>3 DEF StreamInv, WellFormed
        <5> QED BY <5>1, <2>1 DEF TypeOK, Ids
      <4> QED BY <2>1, <2>3, <4>1, <4>2 DEF FrameInv, InFrame, Breaks
    <3>4. CASE 1 < p
      <4>1. ~Breaks(command') /\ command'.id <= frameEnd'
        BY <2>1, <3>1, <3>2, <3>4
      <4>2. BoundedBy(m_commandStream)'
        <5>1. p - 1 \in DOMAIN m_commandStream' /\ Breaks(m_commandStream'[p - 1])
          BY <3>1, <3>2, <3>4
        <5>2. \A i \in DOMAIN m_commandStream' \ {p - 1} : ~Breaks(m_commandStream'[i])
          <6>1. \A i \in DOMAIN m_commandStream' \ {p - 1} : i + 1 \in DOMAIN m_commandStream \ {p}
            BY <3>2
          <6> QED BY <3>1, <3>2, <6>1
        <5>3. \A i \in DOMAIN m_commandStream' : i < p - 1 => m_commandStream'[i].id <= frameEnd'
          <6>1. \A i \in DOMAIN m_commandStream' : i < p - 1 => i + 1 < p
            BY <3>2
          <6> QED BY <2>1, <3>1, <3>2, <6>1
        <5> QED BY <5>1, <5>2, <5>3 DEF BoundedBy, Breaks
      <4> QED BY <2>1, <2>3, <4>1, <4>2 DEF FrameInv, InFrame, Breaks
    <3> QED BY <3>2, <3>3, <3>4
  <2> QED BY <2>2, <2>3, <2>4, <2>5, <2>6
<1>9. ASSUME UNCHANGED <<streams, command, callback, m_wasDisconnectReceived, toDraw, frameEnd, issued>>,
             serverPc = "execute", serverPc' = "next",
             ~Breaks(command) => shouldProcessCommands' = shouldProcessCommands,
             Breaks(command) => shouldProcessCommands' = FALSE,
             StreamInv', DrawInv', m_uniqueDraws' \in [Keys -> Ids], runs' \in [1..MaxCommands -> {0, 1}]
      PROVE  IInv'
  <2>1. TypeOK'
    BY <1>9 DEF TypeOK, streams, ServerPcs, FrameInv
  <2>2. ExecInv'
    BY <1>9 DEF ExecInv
  <2>3. FrameInv'
    <3>1. m_commandStream' = m_commandStream /\ frameEnd' = frameEnd
      BY <1>9 DEF streams
    <3>2. CASE Breaks(command)
      <4>1. NoBreak(m_commandStream)'
        BY <1>9, <3>1, <3>2 DEF FrameInv, InFrame, NoBreak, Breaks
      <4> QED BY <1>9, <3>2, <4>1 DEF FrameInv, InFrame
    <3>3. CASE ~Breaks(command)
      <4>1. shouldProcessCommands' /\ BoundedBy(m_commandStream)
        BY <1>9, <3>3 DEF FrameInv, InFrame
      <4>2. BoundedBy(m_commandStream)'
        BY <3>1, <4>1 DEF BoundedBy, Breaks
      <4> QED BY <1>9, <4>1, <4>2 DEF FrameInv, InFrame
    <3> QED BY <3>2, <3>3
  <2> QED BY <1>9, <2>1, <2>2, <2>3
<1>10. CASE RunOnce
  <2>1. /\ serverPc = "execute" /\ serverPc' = "next" /\ command.op = "runOnce"
        /\ UNCHANGED <<streams, m_uniqueDraws, m_wasDisconnectReceived, locals, toDraw, frameEnd, issued>>
        /\ runs' = [runs EXCEPT ![callback] = @ + 1]
    BY <1>10 DEF RunOnce, ServerGoto
  <2>2. callback = command.id /\ callback \in 1..Len(issued) /\ Untouched(callback) /\ ~Breaks(command)
    BY <2>1 DEF ExecInv, Breaks
  <2>3. callback \in 1..MaxCommands /\ runs \in [1..MaxCommands -> {0, 1}] /\ runs[callback] = 0
    BY <2>2, BoundAssumption DEF DrawInv, Untouched, TypeOK
  <2>4. runs' \in [1..MaxCommands -> {0, 1}] /\ \A i \in 1..MaxCommands : i # callback => runs'[i] = runs[i]
    BY <2>1, <2>3
  <2>5. StreamInv'
    <3>1. Fresh(m_commandStream)'
      BY <2>1, <2>2, <2>4 DEF StreamInv, Fresh, Untouched, WellFormed, ExecInv, streams, DrawInv, TypeOK
    <3> QED BY <2>1, <3>1 DEF StreamInv, WellFormed, Sorted, Matches, streams
  <2>6. DrawInv'
    <3>1. \A k \in Keys : m_uniqueDraws[k] # 0 => runs'[m_uniqueDraws[k]] = runs[m_uniqueDraws[k]]
      BY <2>2, <2>4, BoundAssumption DEF Untouched, TypeOK, Ids
    <3> QED BY <2>1, <2>2, <2>4, <3>1 DEF DrawInv, Drawn, TypeOK
  <2> QED BY <1>9, <2>1, <2>2, <2>4, <2>5, <2>6 DEF locals, TypeOK
<1>11. CASE Draw
  <2>1. /\ serverPc = "execute" /\ serverPc' = "next" /\ command.op = "draw"
        /\ UNCHANGED <<streams, m_wasDisconnectReceived, locals, toDraw, frameEnd, runs, issued>>
        /\ m_uniqueDraws' = [m_uniqueDraws EXCEPT ![command.key] = callback]
    BY <1>11 DEF Draw, ServerGoto
  <2>2. callback = command.id /\ callback \in 1..Len(issued) /\ Untouched(callback) /\ ~Breaks(command)
    BY <2>1 DEF ExecInv, Breaks
  <2>3. m_uniqueDraws \in [Keys -> Ids] /\ callback \in Ids
    BY DEF TypeOK
  <2>4. /\ m_uniqueDraws' \in [Keys -> Ids]
        /\ \A k \in Keys : m_uniqueDraws'[k] = m_uniqueDraws[k] \/ (k = command.key /\ m_uniqueDraws'[k] = callback)
    BY <2>1, <2>3
  <2>5. StreamInv'
    <3>1. Fresh(m_commandStream)'
      BY <2>1, <2>2, <2>4 DEF StreamInv, Fresh, Untouched, ExecInv, streams
    <3> QED BY <2>1, <3>1 DEF StreamInv, WellFormed, Sorted, Matches, streams
  <2>6. DrawInv'
    <3>1. toDraw = {}
      BY <2>1 DEF DrawInv
    <3>2. \A k \in Keys : m_uniqueDraws'[k] # 0 => runs[m_uniqueDraws'[k]] = 0 /\ m_uniqueDraws'[k] <= Len(issued)
      BY <2>1, <2>2, <2>4 DEF DrawInv, Untouched
    <3>3. \A k \in Keys : m_uniqueDraws'[k] # 0 => \A l \in Keys \ {k} : m_uniqueDraws'[l] # m_uniqueDraws'[k]
      BY <2>2, <2>4 DEF DrawInv, Untouched
    <3> QED BY <2>1, <3>1, <3>2, <3>3 DEF DrawInv, Drawn
  <2> QED BY <1>9, <2>1, <2>2, <2>4, <2>5, <2>6 DEF locals, TypeOK
<1>12. CASE CancelDraw
  <2>1. /\ serverPc = "execute" /\ serverPc' = "next" /\ command.op = "cancelDraw"
        /\ UNCHANGED <<streams, m_wasDisconnectReceived, locals, toDraw, frameEnd, runs, issued>>
        /\ m_uniqueDraws' = [m_uniqueDraws EXCEPT ![command.key] = 0]
    BY <1>12 DEF CancelDraw, ServerGoto
  <2>2. /\ m_uniqueDraws \in [Keys -> Ids] /\ m_uniqueDraws' \in [Keys -> Ids]
        /\ \A k \in Keys : m_uniqueDraws'[k] = m_uniqueDraws[k] \/ m_uniqueDraws'[k] = 0
    <3>1. m_uniqueDraws \in [Keys -> Ids] /\ 0 \in Ids
      BY BoundAssumption DEF TypeOK, Ids
    <3> QED BY <2>1, <3>1
  <2>3. StreamInv'
    <3>1. \A i \in DOMAIN m_commandStream : ~Breaks(m_commandStream[i]) => m_commandStream[i].id # 0
      BY DEF StreamInv, WellFormed
    <3>2. Fresh(m_commandStream)'
      BY <2>1, <2>2, <3>1 DEF StreamInv, Fresh, Untouched, streams
    <3> QED BY <2>1, <3>2 DEF StreamInv, WellFormed, Sorted, Matches, streams
  <2>4. DrawInv'
    <3>1. toDraw = {}
      BY <2>1 DEF DrawInv
    <3> QED BY <2>1, <2>2, <3>1 DEF DrawInv, Drawn
  <2> QED BY <1>9, <2>1, <2>2, <2>3, <2>4 DEF locals, TypeOK, Breaks
<1>13. CASE CommandLoopBreak
  <2>1. /\ serverPc = "execute" /\ serverPc' = "next" /\ Breaks(command) /\ shouldProcessCommands' = FALSE
        /\ UNCHANGED <<streams, m_uniqueDraws, m_wasDisconnectReceived, command, callback, toDraw, frameEnd, runs, issued>>
    BY <1>13 DEF CommandLoopBreak, ServerGoto, Breaks
  <2>2. StreamInv'
    BY <2>1, QuietStep
  <2>3. DrawInv'
    BY <2>1 DEF DrawInv, Drawn
  <2> QED BY <1>9, <2>1, <2>2, <2>3 DEF TypeOK
<1>14. CASE Disconnect
  <2>1. /\ serverPc = "execute" /\ serverPc' = "stopped" /\ m_wasDisconnectReceived' = TRUE
        /\ UNCHANGED <<streams, m_uniqueDraws, locals, toDraw, frameEnd, runs, issued>>
    BY <1>14 DEF Disconnect, ServerGoto
  <2>2. StreamInv'
    BY <2>1, QuietStep
  <2>3. TypeOK' /\ DrawInv'
    BY <2>1 DEF TypeOK, DrawInv, Drawn, streams, locals, ServerPcs
  <2> QED BY <2>1, <2>2, <2>3 DEF ExecInv, FrameInv, InFrame
<1>15. CASE EndOfCommands
  <2>1. /\ serverPc = "next" /\ serverPc' = "draws" /\ toDraw' = Drawn
        /\ UNCHANGED <<streams, m_uniqueDraws, m_wasDisconnectReceived, locals, frameEnd, runs, issued>>
    BY <1>15 DEF EndOfCommands, ServerGoto
  <2>2. StreamInv'
    BY <2>1, QuietStep
  <2>3. TypeOK'
    BY <2>1 DEF TypeOK, Drawn, streams, locals, ServerPcs
  <2>4. DrawInv'
    BY <2>1 DEF DrawInv, Drawn
  <2>5. NoBreak(m_commandStream)
    BY <1>15, <2>1 DEF EndOfCommands, FrameInv, InFrame, NoBreak
  <2> QED BY <2>1, <2>2, <2>3, <2>4, <2>5 DEF ExecInv, FrameInv, InFrame, NoBreak, streams
<1>16. ASSUME NEW k \in Keys, RunDraw(k) PROVE IInv'
  <2>1. /\ serverPc = "draws" /\ k \in toDraw /\ toDraw' = toDraw \ {k} /\ serverPc' = "draws"
        /\ runs' = [runs EXCEPT ![m_uniqueDraws[k]] = @ + 1]
        /\ UNCHANGED <<streams, m_uniqueDraws, m_wasDisconnectReceived, locals, frameEnd, issued>>
    BY <1>16 DEF RunDraw
  <2> DEFINE d == m_uniqueDraws[k]
  <2>2. d # 0 /\ d \in 1..MaxCommands /\ runs[d] = 0
    BY <2>1, BoundAssumption DEF DrawInv, Drawn, TypeOK, Ids
  <2>3. /\ runs' \in [1..MaxCommands -> {0, 1}] /\ runs'[d] = 1
        /\ \A i : i # d => runs'[i] = runs[i]
    BY <2>1, <2>2 DEF TypeOK
  <2>4. TypeOK'
    BY <2>1, <2>3 DEF TypeOK, streams, locals
  <2>5. StreamInv'
    <3>1. Fresh(m_commandStream)'
      BY <2>1, <2>3 DEF StreamInv, Fresh, Untouched, streams
    <3> QED BY <2>1, <3>1 DEF StreamInv, WellFormed, Sorted, Matches, streams
  <2>6. DrawInv'
    <3>1. d <= Len(issued) /\ \A l \in Keys \ {k} : m_uniqueDraws[l] # d
      BY <2>2 DEF DrawInv
    <3> HIDE DEF d
    <3>2. \A i \in 1..MaxCommands : i > Len(issued) => runs'[i] = 0
      BY <2>2, <2>3, <3>1 DEF DrawInv, TypeOK
    <3> QED BY <2>1, <2>2, <2>3, <3>1, <3>2 DEF DrawInv, Drawn
  <2>7. FrameInv'
    BY <2>1 DEF FrameInv, InFrame, NoBreak, streams
  <2> QED BY <2>1, <2>4, <2>5, <2>6, <2>7 DEF ExecInv
<1>17. CASE EndOfDraws
  <2>1. /\ serverPc = "draws" /\ serverPc' = "serve" /\ toDraw = {} /\ m_uniqueDraws' = [k \in Keys |-> 0]
        /\ UNCHANGED <<streams, m_wasDisconnectReceived, locals, toDraw, frameEnd, runs, issued>>
    BY <1>17 DEF EndOfDraws, ServerGoto
  <2>2. TypeOK'
    BY <2>1, BoundAssumption DEF TypeOK, streams, locals, ServerPcs, Ids
  <2>3. StreamInv'
    <3>1. \A i \in DOMAIN m_commandStream : ~Breaks(m_commandStream[i]) => m_commandStream[i].id # 0
      BY DEF StreamInv, WellFormed
    <3>2. Fresh(m_commandStream)'
      BY <2>1, <3>1 DEF StreamInv, Fresh, Untouched, streams
    <3> QED BY <2>1, <3>2 DEF StreamInv, WellFormed, Sorted, Matches, streams
  <2>4. DrawInv'
    BY <2>1 DEF DrawInv, Drawn
  <2>5. FrameInv'
    BY <2>1 DEF FrameInv, InFrame, NoBreak, streams
  <2> QED BY <2>1, <2>2, <2>3, <2>4, <2>5 DEF ExecInv
<1>18. CASE UNCHANGED vars
  <2>1. StreamInv'
    BY <1>18, QuietStep DEF vars, server, locals
  <2>2. TypeOK' /\ DrawInv'
    BY <1>18 DEF vars, server, locals, streams, TypeOK, DrawInv, Drawn
  <2>3. ExecInv' /\ FrameInv'
    BY <1>18 DEF vars, server, locals, streams, ExecInv, Untouched, FrameInv, InFrame, BoundedBy, NoBreak, Breaks
  <2> QED BY <1>18, <2>1, <2>2, <2>3 DEF vars, server, streams
<1> HIDE DEF IInv
<1> QED
  BY <1>1, <1>3, <1>4, <1>5, <1>6, <1>7, <1>8, <1>10, <1>11, <1>12, <1>13, <1>14, <1>15, <1>16, <1>17, <1>18
  DEF Next, ClientStep, ServerStep

(* Every variable keeps its type, and no callback runs twice.              *)
THEOREM TypeCorrect == Safety => []TypeOK
<1>1. IInv => TypeOK
  BY DEF IInv
<1> QED BY InitOK, StepOK, <1>1, PTL DEF Safety

(* The server never sleeps on work, nor on a payload left behind.          *)
THEOREM NeverSleepsOnWork == Safety => []NoSleepOnWork
<1>1. IInv => NoSleepOnWork
  <2> SUFFICES ASSUME IInv PROVE NoSleepOnWork
    OBVIOUS
  <2>1. ASSUME m_commandStream = <<>>, NEW q \in Seq(Ids), NEW op, Matches(q, op, m_commandStream)
        PROVE  q = <<>>
    <3>1. DOMAIN q = {}
      BY <2>1 DEF Matches
    <3> QED BY <3>1
  <2>2. m_commandStream = <<>> => m_callbacks = <<>> /\ m_drawCallbacks = <<>>
    BY <2>1 DEF IInv, StreamInv, TypeOK
  <2> QED BY <2>2 DEF NoSleepOnWork, IInv
<1> QED BY InitOK, StepOK, <1>1, PTL DEF Safety

(* Every command that carries a callback is executed with its own.         *)
THEOREM PayloadsBelong == Safety => []PayloadBelongs
<1>1. IInv => PayloadBelongs
  BY DEF IInv, ExecInv, PayloadBelongs
<1> QED BY InitOK, StepOK, <1>1, PTL DEF Safety

(* A frame executes only what was pushed before it began.                  *)
THEOREM FramesAreBounded == Safety => []FrameIsBounded
<1>1. IInv => FrameIsBounded
  BY DEF IInv, FrameInv, FrameIsBounded
<1> QED BY InitOK, StepOK, <1>1, PTL DEF Safety

(* A frame starts with no draws left over.                                 *)
THEOREM FramesStartClean == Safety => []FrameStartsClean
<1>1. IInv => FrameStartsClean
  BY DEF IInv, DrawInv, FrameStartsClean
<1> QED BY InitOK, StepOK, <1>1, PTL DEF Safety

-----------------------------------------------------------------------------
(* Draws.                                                                  *)

(* What waits in a stream: the commands pushed, all those from some id on. *)
OnStream(s, i) == \E j \in DOMAIN s : s[j].id = i
IsIssued(s) == \A j \in DOMAIN s : ~Breaks(s[j]) => s[j] = issued[s[j].id]
IsClosed(s) ==
    \A j \in DOMAIN s : \A i \in 1..Len(issued) :
        ~Breaks(s[j]) /\ i > s[j].id => OnStream(s, i)

(* A draw in the map is the last executed on its key, unless the command   *)
(* that supersedes it is the one in execution.                             *)
Latest(k, d) ==
    /\ issued[d].op = "draw" /\ issued[d].key = k
    /\ \A i \in 1..Len(issued) :
          ~OnStream(m_commandStream, i) /\ Supersedes(i, d) =>
              serverPc = "execute" /\ ~Breaks(command) /\ command.id = i

InExecution ==
    serverPc = "execute" /\ ~Breaks(command) =>
        /\ command = issued[command.id]
        /\ \A i \in 1..Len(issued) : i > command.id => OnStream(m_commandStream, i)

LatestInv ==
    /\ IsIssued(m_commandStream) /\ IsClosed(m_commandStream)
    /\ InExecution
    /\ \A k \in Keys : m_uniqueDraws[k] # 0 => Latest(k, m_uniqueDraws[k])

(* An entry of the map is the number of a command pushed.                  *)
LEMMA DrawIsIssued ==
    ASSUME IInv, NEW k \in Keys, m_uniqueDraws[k] # 0
    PROVE  m_uniqueDraws[k] \in 1..Len(issued)
<1>1. m_uniqueDraws[k] \in Ids /\ Len(issued) \in Nat
  BY DEF IInv, TypeOK
<1>2. m_uniqueDraws[k] <= Len(issued)
  BY DEF IInv, DrawInv
<1> QED BY <1>1, <1>2, BoundAssumption DEF Ids

(* A push goes behind what is there, under the next number.                *)
LEMMA PushKeepsLatest ==
    ASSUME IInv, LatestInv,
           NEW op \in {"runOnce", "draw", "cancelDraw", "disconnect"}, NEW key \in Keys \cup {NoKey},
           Push(op, key)
    PROVE  LatestInv'
<1> DEFINE n == Len(issued) + 1
           s == m_commandStream
           c == [op |-> op, key |-> key, id |-> n]
<1>1. s \in Seq(Command) /\ issued \in Seq(Command) /\ Len(issued) \in Nat
  BY DEF IInv, TypeOK
<1>2. c \in Command /\ c.id = n /\ ~Breaks(c)
  <2>1. n \in Ids
    BY <1>1, BoundAssumption DEF Push, Ids
  <2> QED BY <2>1 DEF Command, Ops, Breaks
<1>3. /\ m_commandStream' = Append(s, c) /\ issued' = Append(issued, c)
      /\ UNCHANGED <<m_uniqueDraws, command>>
      /\ serverPc = "execute" \/ serverPc' = "execute" => serverPc' = serverPc
  BY DEF Push, Notify, locals
<1>4. /\ \A j \in DOMAIN s : j \in DOMAIN m_commandStream' /\ m_commandStream'[j] = s[j]
      /\ \A j \in DOMAIN m_commandStream' : j \in DOMAIN s \/ m_commandStream'[j] = c
      /\ \E j \in DOMAIN m_commandStream' : m_commandStream'[j] = c
  BY <1>1, <1>2, <1>3, AppendExtends
<1>5. /\ Len(issued') = n /\ issued'[n] = c
      /\ \A i \in 1..Len(issued) : issued'[i] = issued[i]
      /\ \A i \in 1..n : i \in 1..Len(issued) \/ i = n
  BY <1>1, <1>2, <1>3
<1> HIDE DEF c
<1>6. /\ \A i \in 1..Len(issued) : OnStream(s, i) => OnStream(m_commandStream', i)
      /\ OnStream(m_commandStream', n)
  BY <1>2, <1>4 DEF OnStream
<1>7. \A j \in DOMAIN s : ~Breaks(s[j]) => s[j].id \in 1..Len(issued)
  BY DEF IInv, StreamInv, WellFormed
<1>8. IsIssued(m_commandStream)'
  <2>1. \A j \in DOMAIN m_commandStream' : ~Breaks(m_commandStream'[j]) => m_commandStream'[j] = issued'[m_commandStream'[j].id]
    BY <1>2, <1>4, <1>5, <1>7 DEF LatestInv, IsIssued
  <2> QED BY <2>1 DEF IsIssued, Breaks
<1>9. IsClosed(m_commandStream)'
  <2> SUFFICES ASSUME NEW j \in DOMAIN m_commandStream', NEW i \in 1..Len(issued'),
                      ~Breaks(m_commandStream'[j]), i > m_commandStream'[j].id
               PROVE  OnStream(m_commandStream', i)
    BY DEF IsClosed, OnStream, Breaks
  <2>1. CASE i = n
    BY <2>1, <1>6
  <2>2. CASE i # n /\ j \in DOMAIN s
    <3>1. i \in 1..Len(issued) /\ OnStream(s, i)
      BY <2>2, <1>4, <1>5 DEF LatestInv, IsClosed
    <3> QED BY <3>1, <1>6
  <2>3. CASE i # n /\ j \notin DOMAIN s
    BY <2>3, <1>1, <1>2, <1>4, <1>5
  <2> QED BY <2>1, <2>2, <2>3
<1>10. InExecution'
  <2> SUFFICES ASSUME serverPc' = "execute", ~Breaks(command')
               PROVE  /\ command' = issued'[command'.id]
                      /\ \A i \in 1..Len(issued') : i > command'.id => OnStream(m_commandStream', i)
    BY DEF InExecution, OnStream, Breaks
  <2>1. serverPc = "execute" /\ ~Breaks(command) /\ command' = command
    BY <1>3
  <2>2. command.id \in 1..Len(issued)
    BY <2>1 DEF IInv, ExecInv
  <2>3. command = issued[command.id] /\ \A i \in 1..Len(issued) : i > command.id => OnStream(s, i)
    BY <2>1 DEF LatestInv, InExecution
  <2> QED BY <2>1, <2>2, <2>3, <1>5, <1>6
<1>11. ASSUME NEW k \in Keys, m_uniqueDraws'[k] # 0 PROVE Latest(k, m_uniqueDraws[k])'
  <2>1. PICK d \in 1..Len(issued) : d = m_uniqueDraws[k] /\ d = m_uniqueDraws'[k]
    BY <1>3, <1>11, DrawIsIssued
  <2>2. Latest(k, d)
    BY <1>3, <1>11, <2>1 DEF LatestInv
  <2>3. issued'[d].op = "draw" /\ issued'[d].key = k
    BY <1>5, <2>2 DEF Latest
  <2>4. ASSUME NEW i \in 1..Len(issued'), ~OnStream(m_commandStream', i), i > d,
               issued'[i].op \in {"draw", "cancelDraw"}, issued'[i].key = issued'[d].key
        PROVE  serverPc' = "execute" /\ ~Breaks(command') /\ command'.id = i
    <3>1. i \in 1..Len(issued) /\ ~OnStream(s, i)
      BY <2>4, <1>5, <1>6
    <3>2. Supersedes(i, d)
      BY <2>4, <3>1, <1>5 DEF Supersedes
    <3> QED BY <2>2, <3>1, <3>2, <1>3 DEF Latest
  <2> QED BY <2>1, <2>3, <2>4 DEF Latest, Supersedes, OnStream, Breaks
<1> QED BY <1>8, <1>9, <1>10, <1>11 DEF LatestInv

(* Taking the first command of a stream s, with or without a break.        *)
LEMMA PopKeepsLatest ==
    ASSUME IInv, LatestInv, NEW s \in Seq(Command), s # <<>>, WellFormed(s), Sorted(s),
           IsIssued(s), IsClosed(s),
           \A i \in 1..Len(issued) : OnStream(m_commandStream, i) => OnStream(s, i),
           serverPc # "execute", PopCommand(s), UNCHANGED <<m_uniqueDraws, issued>>
    PROVE  LatestInv'
<1>1. /\ Head(s) = s[1] /\ 1 \in DOMAIN s
      /\ \A i \in DOMAIN Tail(s) : i \in Nat /\ i + 1 \in DOMAIN s /\ 1 < i + 1 /\ Tail(s)[i] = s[i + 1]
      /\ \A i \in DOMAIN s : i = 1 \/ (i - 1 \in DOMAIN Tail(s) /\ Tail(s)[i - 1] = s[i])
  BY TailShifts
<1>2. m_commandStream' = Tail(s) /\ command' = s[1] /\ serverPc' = "execute"
  BY <1>1 DEF PopCommand
<1>3. \A j \in DOMAIN s : s[j].id \in Int
  <2>1. \A j \in DOMAIN s : s[j] \in Command
    OBVIOUS
  <2> QED BY <2>1, IdIsInt
<1>4. \A i \in 1..Len(issued) : OnStream(s, i) /\ i # s[1].id => OnStream(Tail(s), i)
  <2> SUFFICES ASSUME NEW i \in 1..Len(issued), OnStream(s, i), i # s[1].id
               PROVE  OnStream(Tail(s), i)
    OBVIOUS
  <2>1. PICK j \in DOMAIN s : s[j].id = i
    BY DEF OnStream
  <2>2. j - 1 \in DOMAIN Tail(s) /\ Tail(s)[j - 1].id = i
    BY <1>1, <2>1
  <2> QED BY <2>2 DEF OnStream
<1>5. IsIssued(m_commandStream)'
  <2>1. \A j \in DOMAIN Tail(s) : ~Breaks(Tail(s)[j]) => Tail(s)[j] = issued[Tail(s)[j].id]
    BY <1>1 DEF IsIssued
  <2> QED BY <1>2, <2>1 DEF IsIssued, Breaks
<1>6. IsClosed(m_commandStream)'
  <2> SUFFICES ASSUME NEW j \in DOMAIN Tail(s), NEW i \in 1..Len(issued),
                      ~Breaks(Tail(s)[j]), i > Tail(s)[j].id
               PROVE  OnStream(Tail(s), i)
    BY <1>2 DEF IsClosed, OnStream, Breaks
  <2>1. j + 1 \in DOMAIN s /\ Tail(s)[j] = s[j + 1] /\ 1 < j + 1
    BY <1>1
  <2>2. OnStream(s, i)
    BY <2>1 DEF IsClosed
  <2>3. i # s[1].id
    <3>1. CASE Breaks(s[1])
      BY <1>1, <3>1 DEF WellFormed
    <3>2. CASE ~Breaks(s[1])
      <4>1. s[1].id < s[j + 1].id
        BY <1>1, <2>1, <3>2 DEF Sorted
      <4>2. s[1].id \in Int /\ s[j + 1].id \in Int
        BY <1>1, <1>3, <2>1
      <4> QED BY <2>1, <4>1, <4>2
    <3> QED BY <3>1, <3>2
  <2> QED BY <1>4, <2>2, <2>3
<1>7. InExecution'
  <2> SUFFICES ASSUME ~Breaks(s[1])
               PROVE  s[1] = issued[s[1].id] /\ \A i \in 1..Len(issued) : i > s[1].id => OnStream(Tail(s), i)
    BY <1>2 DEF InExecution, OnStream, Breaks
  <2>1. s[1] = issued[s[1].id]
    BY <1>1 DEF IsIssued
  <2>2. ASSUME NEW i \in 1..Len(issued), i > s[1].id PROVE OnStream(Tail(s), i)
    <3>1. OnStream(s, i)
      BY <1>1, <2>2 DEF IsClosed
    <3>2. i # s[1].id
      BY <1>1, <1>3, <2>2
    <3> QED BY <1>4, <3>1, <3>2
  <2> QED BY <2>1, <2>2
<1>8. ASSUME NEW k \in Keys, m_uniqueDraws'[k] # 0 PROVE Latest(k, m_uniqueDraws[k])'
  <2>1. PICK d : d = m_uniqueDraws[k] /\ d = m_uniqueDraws'[k] /\ d # 0
    BY <1>8
  <2>2. Latest(k, d)
    BY <2>1 DEF LatestInv
  <2>3. ASSUME NEW i \in 1..Len(issued), ~OnStream(Tail(s), i), Supersedes(i, d)
        PROVE  ~Breaks(s[1]) /\ s[1].id = i
    <3>1. OnStream(s, i)
      BY <2>2, <2>3 DEF Latest
    <3>2. s[1].id = i
      BY <1>4, <2>3, <3>1
    <3> QED BY <1>1, <3>2 DEF WellFormed
  <2> QED BY <1>2, <2>1, <2>2, <2>3 DEF Latest, Supersedes, OnStream, Breaks
<1> QED BY <1>5, <1>6, <1>7, <1>8 DEF LatestInv

(* The streams and the map stay, and no execution ends.                    *)
LEMMA StillStep ==
    ASSUME LatestInv, UNCHANGED <<m_commandStream, issued, m_uniqueDraws, command>>,
           serverPc = "execute" \/ serverPc' = "execute" => serverPc' = serverPc
    PROVE  LatestInv'
<1>1. IsIssued(m_commandStream)' /\ IsClosed(m_commandStream)' /\ InExecution'
  BY DEF LatestInv, IsIssued, IsClosed, InExecution, OnStream, Breaks
<1>2. \A k \in Keys : m_uniqueDraws'[k] # 0 => Latest(k, m_uniqueDraws[k])'
  BY DEF LatestInv, Latest, Supersedes, OnStream, Breaks
<1> QED BY <1>1, <1>2 DEF LatestInv

(* An execution ends; a draw or a cancelDraw has changed its key's entry.  *)
LEMMA ExecutedStep ==
    ASSUME IInv, LatestInv, UNCHANGED <<m_commandStream, issued, command>>,
           serverPc = "execute", serverPc' # "execute",
           \A k \in Keys :
              \/ /\ m_uniqueDraws'[k] = m_uniqueDraws[k]
                 /\ command.op \in {"draw", "cancelDraw"} => command.key # k
              \/ m_uniqueDraws'[k] = 0
              \/ m_uniqueDraws'[k] = command.id /\ command.op = "draw" /\ command.key = k
    PROVE  LatestInv'
<1>1. IsIssued(m_commandStream)' /\ IsClosed(m_commandStream)' /\ InExecution'
  BY DEF LatestInv, IsIssued, IsClosed, InExecution, OnStream, Breaks
<1>2. ASSUME NEW k \in Keys, m_uniqueDraws'[k] # 0 PROVE Latest(k, m_uniqueDraws[k])'
  <2>1. PICK d : d = m_uniqueDraws'[k]
    OBVIOUS
  <2>2. issued[d].op = "draw" /\ issued[d].key = k
    BY <1>2, <2>1 DEF LatestInv, Latest, InExecution, Breaks
  <2>3. ASSUME NEW i \in 1..Len(issued), ~OnStream(m_commandStream, i), Supersedes(i, d) PROVE FALSE
    <3>1. CASE d = command.id /\ command.op = "draw"
      BY <2>3, <3>1 DEF LatestInv, InExecution, Supersedes, Breaks
    <3>2. CASE d = m_uniqueDraws[k] /\ (command.op \in {"draw", "cancelDraw"} => command.key # k)
      <4>1. ~Breaks(command) /\ command.id = i
        BY <1>2, <2>1, <2>3, <3>2 DEF LatestInv, Latest
      <4>2. command = issued[i]
        BY <4>1 DEF LatestInv, InExecution
      <4> QED BY <2>2, <2>3, <3>2, <4>2 DEF Supersedes
    <3> QED BY <1>2, <2>1, <3>1, <3>2
  <2> QED BY <2>1, <2>2, <2>3 DEF Latest, Supersedes, OnStream
<1> QED BY <1>1, <1>2 DEF LatestInv

LEMMA LatestInit == Init => LatestInv
BY DEF Init, LatestInv, IsIssued, IsClosed, InExecution, Latest

LEMMA LatestStep == IInv /\ LatestInv /\ [Next]_vars => LatestInv'
<1> SUFFICES ASSUME IInv, LatestInv, [Next]_vars PROVE LatestInv'
  OBVIOUS
<1>1. ASSUME NEW op \in {"runOnce", "draw", "cancelDraw", "disconnect"}, NEW key \in Keys \cup {NoKey},
             Push(op, key)
      PROVE  LatestInv'
  BY <1>1, PushKeepsLatest
<1>2. CASE CreateDrawKey \/ WaitCommands \/ WaitUnderLock \/ EarlyOut \/ EndOfCommands \/ UNCHANGED vars
  <2>1. UNCHANGED <<m_commandStream, issued, m_uniqueDraws, command>>
    BY <1>2 DEF CreateDrawKey, WaitCommands, WaitUnderLock, EarlyOut, EndOfCommands, vars, streams, server, locals
  <2>2. serverPc = "execute" \/ serverPc' = "execute" => serverPc' = serverPc
    BY <1>2 DEF CreateDrawKey, WaitCommands, WaitUnderLock, EarlyOut, EndOfCommands, Notify, ServerGoto, vars, server
  <2> QED BY <2>1, <2>2, StillStep
<1>3. CASE \E k \in Keys : RunDraw(k)
  <2>1. UNCHANGED <<m_commandStream, issued, m_uniqueDraws, command, serverPc>>
    BY <1>3 DEF RunDraw, streams, locals
  <2> QED BY <2>1, StillStep
<1>4. CASE EndOfDraws
  <2>1. /\ UNCHANGED <<m_commandStream, issued, command>> /\ serverPc = "draws" /\ serverPc' = "serve"
        /\ \A k \in Keys : m_uniqueDraws'[k] = 0
    BY <1>4 DEF EndOfDraws, ServerGoto, streams, locals
  <2>2. IsIssued(m_commandStream)' /\ IsClosed(m_commandStream)' /\ InExecution'
    BY <2>1 DEF LatestInv, IsIssued, IsClosed, InExecution, OnStream, Breaks
  <2> QED BY <2>1, <2>2 DEF LatestInv
<1>5. CASE RunOnce \/ CommandLoopBreak \/ Disconnect
  <2>1. UNCHANGED <<m_commandStream, issued, command, m_uniqueDraws>>
    BY <1>5 DEF RunOnce, CommandLoopBreak, Disconnect, streams, locals
  <2>2. serverPc = "execute" /\ serverPc' # "execute" /\ command.op \notin {"draw", "cancelDraw"}
    BY <1>5 DEF RunOnce, CommandLoopBreak, Disconnect, ServerGoto
  <2> QED BY <2>1, <2>2, ExecutedStep
<1>6. CASE Draw
  <2>1. /\ UNCHANGED <<m_commandStream, issued, command>> /\ serverPc = "execute" /\ serverPc' = "next"
        /\ command.op = "draw" /\ m_uniqueDraws' = [m_uniqueDraws EXCEPT ![command.key] = callback]
    BY <1>6 DEF Draw, ServerGoto, streams, locals
  <2>2. callback = command.id /\ m_uniqueDraws \in [Keys -> Ids]
    BY <2>1 DEF IInv, ExecInv, TypeOK
  <2>3. \A k \in Keys : m_uniqueDraws'[k] = IF k = command.key THEN command.id ELSE m_uniqueDraws[k]
    BY <2>1, <2>2
  <2> QED BY <2>1, <2>3, ExecutedStep
<1>7. CASE CancelDraw
  <2>1. /\ UNCHANGED <<m_commandStream, issued, command>> /\ serverPc = "execute" /\ serverPc' = "next"
        /\ m_uniqueDraws' = [m_uniqueDraws EXCEPT ![command.key] = 0]
    BY <1>7 DEF CancelDraw, ServerGoto, streams, locals
  <2>2. m_uniqueDraws \in [Keys -> Ids]
    BY DEF IInv, TypeOK
  <2>3. \A k \in Keys : m_uniqueDraws'[k] = IF k = command.key THEN 0 ELSE m_uniqueDraws[k]
    BY <2>1, <2>2
  <2> QED BY <2>1, <2>3, ExecutedStep
<1>8. CASE NextCommand
  <2>1. /\ m_commandStream # <<>> /\ serverPc = "next" /\ PopCommand(m_commandStream)
        /\ UNCHANGED <<m_uniqueDraws, issued>>
    BY <1>8 DEF NextCommand
  <2>2. m_commandStream \in Seq(Command) /\ WellFormed(m_commandStream) /\ Sorted(m_commandStream)
    BY DEF IInv, TypeOK, StreamInv
  <2>3. IsIssued(m_commandStream) /\ IsClosed(m_commandStream)
    BY DEF LatestInv
  <2> QED BY <2>1, <2>2, <2>3, PopKeepsLatest
<1>9. CASE ProcessCommands
  <2> DEFINE s == Append(m_commandStream, LoopBreak)
  <2>1. /\ s \in Seq(Command) /\ s # <<>> /\ WellFormed(s) /\ Sorted(s)
        /\ \A i \in DOMAIN m_commandStream : s[i] = m_commandStream[i]
    BY BreakAtTheEnd DEF IInv, DrawInv
  <2>2. /\ \A i \in DOMAIN m_commandStream : i \in DOMAIN s
        /\ \A i \in DOMAIN s : i \in DOMAIN m_commandStream \/ Breaks(s[i])
    <3>1. m_commandStream \in Seq(Command) /\ LoopBreak \in Command
      BY BoundAssumption DEF IInv, TypeOK, LoopBreak, Command, Ops, Ids
    <3> QED BY <3>1, AppendExtends DEF Breaks, LoopBreak
  <2>3. serverPc = "process" /\ PopCommand(s) /\ UNCHANGED <<m_uniqueDraws, issued>>
    BY <1>9 DEF ProcessCommands
  <2> HIDE DEF s
  <2>4. \A i \in 1..Len(issued) : OnStream(m_commandStream, i) => OnStream(s, i)
    BY <2>1, <2>2 DEF OnStream
  <2>5. IsIssued(s)
    BY <2>1, <2>2 DEF LatestInv, IsIssued
  <2>6. IsClosed(s)
    BY <2>1, <2>2, <2>4 DEF LatestInv, IsClosed
  <2> QED BY <2>1, <2>3, <2>4, <2>5, <2>6, PopKeepsLatest
<1> QED
  BY <1>1, <1>2, <1>3, <1>4, <1>5, <1>6, <1>7, <1>8, <1>9 DEF Next, ClientStep, ServerStep

(* A callback runs once; a draw runs only if nothing executed after it has *)
(* touched its key, neither a later draw nor a cancelDraw.                 *)
THEOREM DrawsAreTheLatest == Safety => DrawsAreLatest
<1> DEFINE OnlyLatest(d) ==
        runs'[d] # runs[d] =>
            /\ runs[d] = 0
            /\ issued[d].op = "draw" => ~\E i \in 1..Len(issued) : Executed(i) /\ Supersedes(i, d)
<1>1. ASSUME IInv, LatestInv, [Next]_vars, NEW d \in 1..Len(issued), runs'[d] # runs[d]
      PROVE  OnlyLatest(d)
  <2>1. RunOnce \/ \E k \in Keys : RunDraw(k)
    BY <1>1 DEF Next, ClientStep, ServerStep, Push, CreateDrawKey, WaitCommands, WaitUnderLock, EarlyOut,
             ProcessCommands, Draw, CancelDraw, CommandLoopBreak, Disconnect, NextCommand, EndOfCommands,
             EndOfDraws, vars, server
  <2>2. CASE RunOnce
    <3>1. serverPc = "execute" /\ command.op = "runOnce" /\ runs' = [runs EXCEPT ![callback] = @ + 1]
      BY <2>2 DEF RunOnce, ServerGoto
    <3>2. callback = command.id /\ runs[callback] = 0 /\ runs \in [1..MaxCommands -> {0, 1}]
      BY <1>1, <3>1 DEF IInv, ExecInv, Untouched, TypeOK
    <3>3. d = callback
      BY <1>1, <3>1, <3>2
    <3>4. issued[d].op = "runOnce"
      BY <1>1, <3>1, <3>2, <3>3 DEF LatestInv, InExecution, Breaks
    <3> QED BY <3>2, <3>3, <3>4
  <2>3. ASSUME NEW k \in Keys, RunDraw(k) PROVE OnlyLatest(d)
    <3>1. /\ serverPc = "draws" /\ k \in toDraw
          /\ runs' = [runs EXCEPT ![m_uniqueDraws[k]] = @ + 1]
      BY <2>3 DEF RunDraw
    <3>2. m_uniqueDraws[k] # 0 /\ runs[m_uniqueDraws[k]] = 0 /\ runs \in [1..MaxCommands -> {0, 1}]
      BY <1>1, <3>1 DEF IInv, DrawInv, Drawn, TypeOK
    <3>3. d = m_uniqueDraws[k]
      BY <1>1, <3>1, <3>2
    <3>4. Latest(k, d)
      BY <1>1, <3>2, <3>3 DEF LatestInv
    <3> QED BY <3>1, <3>2, <3>3, <3>4 DEF Latest, Executed, OnStream
  <2> QED BY <2>1, <2>2, <2>3
<1>2. IInv /\ LatestInv /\ [Next]_vars => [\A d \in 1..Len(issued) : OnlyLatest(d)]_vars
  BY <1>1
<1> QED BY <1>2, InitOK, StepOK, LatestInit, LatestStep, PTL DEF Safety, DrawsAreLatest
=============================================================================
