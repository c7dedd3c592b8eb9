---------------------------- MODULE CommandLoop ----------------------------
(***************************************************************************)
(* How a CommandServer takes commands off its CommandQueue                 *)
(* (runtime/src/command_queue.cpp, runtime/src/command_server.cpp): client *)
(* threads append under m_commandMutex and notify; the server waits,       *)
(* processes one frame of commands, up to a break that it appends itself,  *)
(* and then runs the draws the frame has left.                             *)
(*                                                                         *)
(* Commands are numbered in the order of their pushes.  Of the sixty       *)
(* commands this module keeps the ones that steer the loop; runOnce stands *)
(* for any command with a payload in a side stream.                        *)
(***************************************************************************)
EXTENDS Integers, Sequences, FiniteSets

CONSTANTS
    Keys,         \* draw keys
    MaxCommands   \* model bound: commands pushed

ASSUME BoundAssumption == MaxCommands \in Nat

VARIABLES
    m_commandStream,   \* PODStream: the commands, in order
    m_callbacks,       \* ObjectStream: the payloads of runOnce
    m_drawCallbacks,   \* ObjectStream: the payloads of draw
    m_uniqueDraws,     \* draw key -> callback, 0 if the map has no entry
    m_wasDisconnectReceived,
    serverPc,
    command, callback, \* locals of processCommands: what was popped last
    toDraw,            \* keys the draw loop has yet to visit
    shouldProcessCommands,
    issued,            \* history: every command pushed, in order
    frameEnd,          \* history: how many were pushed when this frame began
    runs               \* history: how often each callback ran

streams == <<m_commandStream, m_callbacks, m_drawCallbacks>>
locals  == <<command, callback, shouldProcessCommands>>
server  == <<m_uniqueDraws, m_wasDisconnectReceived, serverPc, locals, toDraw, frameEnd, runs>>
vars == <<streams, server, issued>>

NoKey == "none"
Ids == 0..MaxCommands
Ops == {"runOnce", "draw", "cancelDraw", "disconnect", "commandLoopBreak"}
Command == [op : Ops, key : Keys \cup {NoKey}, id : Ids]
LoopBreak == [op |-> "commandLoopBreak", key |-> NoKey, id |-> 0]
ServerPcs == {"serve", "waitLock", "waiting", "process", "execute", "next", "draws",
              "stopped"}

Init ==
    /\ m_commandStream = <<>> /\ m_callbacks = <<>> /\ m_drawCallbacks = <<>>
    /\ m_uniqueDraws = [k \in Keys |-> 0]
    /\ m_wasDisconnectReceived = FALSE
    /\ serverPc = "serve"
    /\ command = LoopBreak /\ callback = 0 /\ toDraw = {}
    /\ shouldProcessCommands = TRUE
    /\ issued = <<>> /\ frameEnd = 0 /\ runs = [i \in 1..MaxCommands |-> 0]

-----------------------------------------------------------------------------
(* Client threads.  AutoLockAndNotify holds the lock over the whole push   *)
(* and notifies before it releases it.                                     *)

Notify == serverPc' = IF serverPc = "waiting" THEN "waitLock" ELSE serverPc

(* MUTANT: the push forgets to notify.                                     *)
PushSilently(op, key) ==
    LET id == Len(issued) + 1
        c == [op |-> op, key |-> key, id |-> id]
    IN
    /\ id <= MaxCommands
    /\ issued' = Append(issued, c)
    /\ m_commandStream' = Append(m_commandStream, c)
    /\ m_callbacks' = IF op = "runOnce" THEN Append(m_callbacks, id) ELSE m_callbacks
    /\ m_drawCallbacks' = IF op = "draw" THEN Append(m_drawCallbacks, id) ELSE m_drawCallbacks
    /\ UNCHANGED server

Push(op, key) ==
    LET id == Len(issued) + 1
        c == [op |-> op, key |-> key, id |-> id]
    IN
    /\ id <= MaxCommands
    /\ issued' = Append(issued, c)
    /\ m_commandStream' = Append(m_commandStream, c)
    /\ m_callbacks' = IF op = "runOnce" THEN Append(m_callbacks, id) ELSE m_callbacks
    /\ m_drawCallbacks' = IF op = "draw" THEN Append(m_drawCallbacks, id) ELSE m_drawCallbacks
    /\ Notify
    /\ UNCHANGED <<m_uniqueDraws, m_wasDisconnectReceived, locals, toDraw, frameEnd, runs>>

(* createDrawKey takes the same lock, so it wakes the server for nothing.  *)
CreateDrawKey ==
    /\ serverPc = "waiting"
    /\ Notify
    /\ UNCHANGED <<streams, m_uniqueDraws, m_wasDisconnectReceived, locals, toDraw,
                   frameEnd, runs, issued>>

ClientStep ==
    \/ Push("runOnce", NoKey)
    \/ \E k \in Keys : Push("draw", k) \/ Push("cancelDraw", k)
    \/ Push("disconnect", NoKey)
    \/ CreateDrawKey

-----------------------------------------------------------------------------
(* The server thread: serveUntilDisconnect calls waitCommands for ever.    *)

ServerGoto(from, to) == serverPc = from /\ serverPc' = to

(* A host calls waitCommands, or processCommands when it polls.  The first *)
(* test of waitCommands is made without the lock: while a client pushes it *)
(* may still read "empty".                                                 *)
WaitCommands ==
    /\ ServerGoto("serve", "waitLock") \/ ServerGoto("serve", "process")
    /\ UNCHANGED <<streams, m_uniqueDraws, m_wasDisconnectReceived, locals, toDraw,
                   frameEnd, runs, issued>>

(* MUTANT: having locked, the server waits without testing again.          *)
WaitUncheckedUnderLock ==
    /\ ServerGoto("waitLock", "waiting")
    /\ UNCHANGED <<streams, m_uniqueDraws, m_wasDisconnectReceived, locals, toDraw,
                   frameEnd, runs, issued>>

(* Under the lock: wait while the stream is empty.                         *)
WaitUnderLock ==
    /\ ServerGoto("waitLock", IF m_commandStream = <<>> THEN "waiting" ELSE "process")
    /\ UNCHANGED <<streams, m_uniqueDraws, m_wasDisconnectReceived, locals, toDraw,
                   frameEnd, runs, issued>>

(* processCommands returns at once when there is nothing to process.       *)
EarlyOut ==
    /\ m_commandStream = <<>>
    /\ ServerGoto("process", "serve")
    /\ UNCHANGED <<streams, m_uniqueDraws, m_wasDisconnectReceived, locals, toDraw,
                   frameEnd, runs, issued>>

(* MUTANT: the handler of draw leaves its payload in the side stream.      *)
PopCommandKeepsDraw(stream) ==
    LET c == Head(stream) IN
    /\ command' = c
    /\ m_commandStream' = Tail(stream)
    /\ callback' = CASE c.op = "runOnce" -> Head(m_callbacks)
                     [] c.op = "draw" -> Head(m_drawCallbacks)
                     [] OTHER -> 0
    /\ m_callbacks' = IF c.op = "runOnce" THEN Tail(m_callbacks) ELSE m_callbacks
    /\ m_drawCallbacks' = m_drawCallbacks
    /\ serverPc' = "execute"

(* Take the next command and its payload off the streams, under one hold   *)
(* of the lock.                                                            *)
PopCommand(stream) ==
    LET c == Head(stream) IN
    /\ command' = c
    /\ m_commandStream' = Tail(stream)
    /\ callback' = CASE c.op = "runOnce" -> Head(m_callbacks)
                     [] c.op = "draw" -> Head(m_drawCallbacks)
                     [] OTHER -> 0
    /\ m_callbacks' = IF c.op = "runOnce" THEN Tail(m_callbacks) ELSE m_callbacks
    /\ m_drawCallbacks' = IF c.op = "draw" THEN Tail(m_drawCallbacks) ELSE m_drawCallbacks
    /\ serverPc' = "execute"

(* MUTANT: processCommands appends no break.                               *)
ProcessWithoutBreak ==
    /\ serverPc = "process" /\ m_commandStream # <<>>
    /\ shouldProcessCommands' = TRUE
    /\ frameEnd' = Len(issued)
    /\ PopCommand(m_commandStream)
    /\ UNCHANGED <<m_uniqueDraws, m_wasDisconnectReceived, toDraw, runs, issued>>

(* processCommands marks the end of the frame and pops the first command   *)
(* under the same lock.                                                    *)
ProcessCommands ==
    /\ serverPc = "process" /\ m_commandStream # <<>>
    /\ shouldProcessCommands' = TRUE
    /\ frameEnd' = Len(issued)
    /\ PopCommand(Append(m_commandStream, LoopBreak))
    /\ UNCHANGED <<m_uniqueDraws, m_wasDisconnectReceived, toDraw, runs, issued>>

RunOnce ==
    /\ command.op = "runOnce"
    /\ ServerGoto("execute", "next")
    /\ runs' = [runs EXCEPT ![callback] = @ + 1]
    /\ UNCHANGED <<streams, m_uniqueDraws, m_wasDisconnectReceived, locals, toDraw,
                   frameEnd, issued>>

Draw ==
    /\ command.op = "draw"
    /\ ServerGoto("execute", "next")
    /\ m_uniqueDraws' = [m_uniqueDraws EXCEPT ![command.key] = callback]
    /\ UNCHANGED <<streams, m_wasDisconnectReceived, locals, toDraw, frameEnd, runs, issued>>

(* MUTANT: cancelDraw does nothing.                                        *)
CancelDrawIgnored ==
    /\ command.op = "cancelDraw"
    /\ ServerGoto("execute", "next")
    /\ UNCHANGED <<streams, m_uniqueDraws, m_wasDisconnectReceived, locals, toDraw,
                   frameEnd, runs, issued>>

CancelDraw ==
    /\ command.op = "cancelDraw"
    /\ ServerGoto("execute", "next")
    /\ m_uniqueDraws' = [m_uniqueDraws EXCEPT ![command.key] = 0]
    /\ UNCHANGED <<streams, m_wasDisconnectReceived, locals, toDraw, frameEnd, runs, issued>>

CommandLoopBreak ==
    /\ command.op = "commandLoopBreak"
    /\ ServerGoto("execute", "next")
    /\ shouldProcessCommands' = FALSE
    /\ UNCHANGED <<streams, m_uniqueDraws, m_wasDisconnectReceived, command, callback,
                   toDraw, frameEnd, runs, issued>>

(* disconnect returns false at once: serveUntilDisconnect ends.            *)
Disconnect ==
    /\ command.op = "disconnect"
    /\ ServerGoto("execute", "stopped")
    /\ m_wasDisconnectReceived' = TRUE
    /\ UNCHANGED <<streams, m_uniqueDraws, locals, toDraw, frameEnd, runs, issued>>

(* Relock: the next command of the frame, or the draws.                    *)
NextCommand ==
    /\ serverPc = "next" /\ m_commandStream # <<>> /\ shouldProcessCommands
    /\ PopCommand(m_commandStream)
    /\ UNCHANGED <<m_uniqueDraws, m_wasDisconnectReceived, shouldProcessCommands, toDraw,
                   frameEnd, runs, issued>>

Drawn == {k \in Keys : m_uniqueDraws[k] # 0}

EndOfCommands ==
    /\ m_commandStream = <<>> \/ ~shouldProcessCommands
    /\ ServerGoto("next", "draws")
    /\ toDraw' = Drawn
    /\ UNCHANGED <<streams, m_uniqueDraws, m_wasDisconnectReceived, locals, frameEnd,
                   runs, issued>>

RunDraw(k) ==
    /\ serverPc = "draws" /\ k \in toDraw
    /\ runs' = [runs EXCEPT ![m_uniqueDraws[k]] = @ + 1]
    /\ toDraw' = toDraw \ {k}
    /\ UNCHANGED <<streams, m_uniqueDraws, m_wasDisconnectReceived, serverPc, locals,
                   frameEnd, issued>>

(* MUTANT: the draws of a frame are kept for the next one.                 *)
EndOfDrawsKeepsMap ==
    /\ toDraw = {}
    /\ ServerGoto("draws", "serve")
    /\ UNCHANGED <<streams, m_uniqueDraws, m_wasDisconnectReceived, locals, toDraw,
                   frameEnd, runs, issued>>

EndOfDraws ==
    /\ toDraw = {}
    /\ ServerGoto("draws", "serve")
    /\ m_uniqueDraws' = [k \in Keys |-> 0]
    /\ UNCHANGED <<streams, m_wasDisconnectReceived, locals, toDraw, frameEnd, runs, issued>>

ServerStep ==
    \/ WaitCommands \/ WaitUnderLock \/ EarlyOut \/ ProcessCommands
    \/ RunOnce \/ Draw \/ CancelDraw \/ CommandLoopBreak \/ Disconnect
    \/ NextCommand \/ EndOfCommands \/ (\E k \in Keys : RunDraw(k)) \/ EndOfDraws

Next == ClientStep \/ ServerStep

(* The server thread is scheduled; clients push when they like.            *)
Safety == Init /\ [][Next]_vars
Spec == Safety /\ WF_vars(ServerStep)

-----------------------------------------------------------------------------
(* Types; a callback, drawn or run once, never runs twice.                 *)
TypeOK ==
    /\ m_commandStream \in Seq(Command)
    /\ m_callbacks \in Seq(Ids) /\ m_drawCallbacks \in Seq(Ids)
    /\ m_uniqueDraws \in [Keys -> Ids]
    /\ m_wasDisconnectReceived \in BOOLEAN /\ serverPc \in ServerPcs
    /\ command \in Command /\ callback \in Ids /\ shouldProcessCommands \in BOOLEAN
    /\ toDraw \in SUBSET Keys
    /\ issued \in Seq(Command) /\ frameEnd \in Ids
    /\ runs \in [1..MaxCommands -> {0, 1}]

(* The server never sleeps on work: in the wait the stream is empty, and   *)
(* with it every side stream, as waitCommands asserts (lines 584-586).     *)
NoSleepOnWork ==
    /\ serverPc = "waiting" => m_commandStream = <<>>
    /\ m_commandStream = <<>> => m_callbacks = <<>> /\ m_drawCallbacks = <<>>

(* A command gets its own payload, however pushes and pops interleave.     *)
PayloadBelongs ==
    serverPc = "execute" /\ command.op \in {"runOnce", "draw"} => callback = command.id

(* A frame ends: it executes only commands that were pushed before it      *)
(* began, so a client that never stops pushing cannot starve the draws.    *)
FrameIsBounded == serverPc = "execute" => command.id <= frameEnd

(* processCommands' assert at line 612: a frame starts with no draws left. *)
FrameStartsClean == serverPc \in {"serve", "process"} => Drawn = {}

(* Executed so far: the commands before the next one in the stream.        *)
Executed(i) == ~\E j \in DOMAIN m_commandStream : m_commandStream[j].id = i

(* A draw runs at most once, and only if it is the last word on its key    *)
(* among everything executed: no later draw and no cancelDraw.             *)
Supersedes(i, d) == i > d /\ issued[i].op \in {"draw", "cancelDraw"} /\ issued[i].key = issued[d].key
DrawsAreLatest ==
    [][\A d \in 1..Len(issued) : runs'[d] # runs[d] =>
          /\ runs[d] = 0
          /\ issued[d].op = "draw" => ~\E i \in 1..Len(issued) : Executed(i) /\ Supersedes(i, d)]_vars

(* Every draw is run, or overtaken by a later command on its key, or the   *)
(* server was disconnected.                                                *)
DrawsAreSettled ==
    \A d \in 1..MaxCommands :
        (d <= Len(issued) /\ issued[d].op = "draw") ~>
            \/ runs[d] = 1 \/ serverPc = "stopped"
            \/ \E i \in 1..Len(issued) : Supersedes(i, d)
=============================================================================
