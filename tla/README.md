# TLA+ verification of rive-native

rive-native is the Rive animation runtime (`runtime/`, C++), its native bindings
(`native/`) and a Dart package over them (`lib/`). Most of the runtime is
sequential and numeric: it evaluates curves, lays out boxes, tessellates paths.
The parts where an order of events decides whether the program is right are the
ones that run in more than one thread, call back into their user, or work
through lists that their own work changes:

* the **async work pool**, which runs decodes for scripts on other threads;
* the **command queue** and **command server**, through which an application
  thread drives the runtime in a server thread;
* the **listeners** of the command queue, whose callbacks change the registry
  that is being walked;
* the **synchronized pointer events**, which bypass the queue;
* the **promises** of the scripting layer, whose every operation may run a
  script that performs any other;
* the **update pass** of an artboard: the dependency order, dirt, and solos;
* the **data binds** that run around it.

This directory models those, checks them with TLC and proves with TLAPS what is
in its reach. All paths below are relative to the repository.

## Contents

| module | models | checked by | proved in |
|---|---|---|---|
| `AsyncDelivery` | what the pool promises: the abstract specification | `pool`, `pool_inline` | |
| `WorkPool` | `work_pool.cpp`, the threaded build | `MCWorkPool`, 2 runs | `WorkPoolProofs` |
| `InlineWorkPool` | `work_pool.cpp`, the build without threads | `MCInlineWorkPool`, 1 run | `WorkPoolProofs` |
| `WorkTasks` | what both builds share: tasks, nested polls, the promise | by both | |
| `CommandLoop` | pushing, waiting, frames and draws | `MCCommandLoop`, 1 run | `CommandLoopProofs` |
| `CommandServer` | handle tables and the commands on them | `MCCommandServer`, 1 run | `CommandServerProofs` |
| `FileAssets` | global assets by handle and by name | `MCCommandServer`, the same run | `CommandServerProofs` |
| `SyncPointer` | pointer events from other threads | `MCSyncPointer`, 1 run | `SyncPointerProofs` |
| `MessageLoop` | `processMessages` and listeners | `MCMessageLoop`, 1 run | `MessageLoopProofs` |
| `Promises` | `lua_promise.cpp` | `MCPromises`, 2 runs | `PromisesProofs` |
| `UpdatePass` | dependency order, dirt, solos, `updateComponents` | `MCUpdatePass`, 2 runs | `UpdatePassProofs` |
| `DataBinds` | the container of data binds and `updatePass` | `MCDataBinds`, 1 run | `DataBindsProofs` |

`PROJECT.json` has, for every definition that models code, the lines it models;
for every property a mutation of the code that breaks it; the hazards that the
properties are for; and the components that are not modelled.

## Inventory

### Modelled

**Async work pool** (`runtime/src/async/work_pool.cpp`, `work_task.hpp`).
*State*: a work queue and a completed queue, each under its own mutex; the
number of tasks in workers (atomic); a map from owner to the generation of its
last cancel; per task its status, a cancel flag (atomic) and the generation at
its submission. *Operations*: `submit`, `cancel`, `cancelAllForOwner`,
`hasPendingWork`, `pollCompletedWork`, the worker loop, the destructor.
*Interaction*: scripts submit decodes; `Artboard::advance` polls once a frame,
and callbacks, which run inside the poll, settle promises whose scripts may
submit, cancel and advance an artboard, which polls again. A build without
threads has one queue and executes tasks in the poll. *Hard*: a task
moves between two queues and a worker under different locks, so every reader of
several of them sees a mixture. *Correct when*: every task has one holder and
one answer; a cancelled task never completes; shutdown returns.

**Command loop** (`command_queue.cpp`, `command_server.cpp`,
`object_stream.hpp`). *State*: a stream of commands with side streams for their
payloads, under one mutex with a condition variable; the draws admitted to the
current frame by key. *Operations*: `runOnce`, `draw`, `cancelDraw`,
`disconnect` on the client's side; `serveUntilDisconnect`, `waitCommands`,
`processCommands` on the server's. *Hard*: the server unlocks around each
command, clients push in between; the stream is first tested without the lock.
*Correct when*: the server never sleeps on work, a command meets its own
payload, a frame ends, and the draws run are the last on their keys.

**Handle tables** (`command_server.cpp`, `command_server.hpp`). *State*: maps
from handles to files, artboards, state machines and view models; vectors of
what hangs on what. *Operations*: one handler per command. *Interaction*: the
client chooses handles before the objects exist, and learns of their fate by
messages only. *Correct when*: no machine outlives its artboard, a failed
command changes nothing, and what the client was told is what is in the maps.

**File assets** (`CommandFileAssetLoader`). *State*: decoded images, audio
sources and fonts by handle; names by kind that point to handles. *Hard*: an
object may have several names and is deleted by handle. *Correct when*: a file
never gets a dead object and always gets the last one registered.

**Synchronized pointer events** (`pointerDownSynchronized`, `...Move...`,
`...Up...`). *State*: the mutex of the machine map, a mutex and a reference
count per machine's wrapper. *Hard*: the server advances and deletes machines while
other threads deliver events to them; whoever drops the last reference runs the
destructor, which takes the machine's mutex, in the server perhaps while it
holds the map's. *Correct when*: a wrapper is alive while used, its destructor
never waits, and every event returns.

**Messages and listeners** (`command_queue.cpp`, `command_queue.hpp`). *State*:
the message stream; a map from handle to listener; the handle each listener
remembers; the calls of `processMessages` in progress. *Hard*: callbacks
destroy, move and register listeners, and call `processMessages` again.
*Correct when*: a listener is in the map exactly while it lives, and every call
returns.

**Promises** (`lua/lua_promise.cpp`, `ScriptedPromise` in `rive_lua_libs.hpp`).
*State*: per promise its state, its parent and consumers, the callbacks of
andThen, catch, await and finally, a cancellation hook; per `Promise.all` a
count, a flag and a table of registry numbers that its closures share.
*Operations*: new, resolve, reject, all, andThen, catch, finally, cancel,
onCancel, async, await. *Interaction*: each calls handlers, hooks and
coroutines, and these call any operation again, on the same promises too.
*Hard*: a loop over callbacks is left in the middle for a script that settles,
chains or cancels what the loop is about. *Correct when*: states are one-way, no
answer is lost, no handler runs twice, a cancellation goes down to all consumers
and up to a parent that has no other, and links of settled promises are gone.

**Update pass** (`dependency_sorter.cpp`, `component.cpp`,
`transform_component.cpp`, `solo.cpp`, `Artboard::updateComponents`). *State*:
the graph of parents and constraints; the dependency order; the dirt of each
component, its collapse, its transforms; the artboard's own flag. *Operations*:
sort, property changes, switching a solo, one step of the update loop. *Hard*:
an update may dirty a component before it, so that the loop starts again, a
hundred times at most; a collapsed component keeps its dirt; a cycle of
constraints ends the sort early. *Correct when*: nothing is updated
before what it depends on, no dirt is forgotten, and the transforms that are
left are those of the properties.

**Data binds** (`data_bind/data_bind_container.cpp`, `data_bind/data_bind.cpp`,
`context_value.hpp`, `Artboard::updatePass`). *State*: a list of dirty binds and
one of those that become dirty meanwhile; a list of binds that must be polled;
per bind its dirt and the value it last saw. *Operations*: setting a value or a
property, `updateDataBinds` before and after the components. *Hard*: binds
in both directions on one value, delegates that set other values while the
lists are worked through, targets that hide other binds. *Correct when*: a dirty
bind is in a list, a bind does not hear its own echo, and once the artboard
asks for no more, both sides agree.

### Not modelled, and why

| component | reason |
|---|---|
| property subscriptions, wire format of commands | planned next (see Plan) |
| browser's image decodes, audio decode worker, frame ring | planned: small, concurrent or with wrap-around |
| artboard lists and nested artboards | their update is that of the update pass, inside of the host component's |
| state machines, focus and semantics, raw text input | planned as far as the control goes; values are numeric |
| view models and data contexts | look-ups by path; what binds see of them is in `DataBinds` |
| layout, text shaping, shapes, math, renderer | numeric; what could go wrong is in the numbers and in GPU drivers |
| file, importers, assets, decoders, audio engine | byte formats and vendored libraries |
| native bindings, platform plugins, Dart package | conversions around calls, and host toolkits that are not in the repository |
| generated and vendored code, tests, build scripts | no logic of the program's own |

Two modelled components are modelled in part. `UpdatePass` has nodes, solos and
constraints; joysticks, layout, render opacity and nested artboards are
left out. `DataBinds` has no converters, no change of context, and no bind that
is added or removed after the first frame.

## How the models correspond to the code

Names are the code's. A step is what one thread does between two points where
another can interfere: what a lock protects is one action, and a thread's
position between locks is a `pc`. Each action contains the whole handler.

**WorkPool.** `Submit` is `submit` up to the unlock, `NotifyOne` what follows.
A worker locks and waits (`Block`, `SpuriousWakeup`, `Take`, `Exit`), then
`CountInFlight` (line 192, after the unlock), `CheckCancelled`, `Execute`,
`Push` or `PushCancelled`, `Decrement`. The main thread has one pc for
`cancelAllForOwner` (two locks, two steps), `hasPendingWork` (three reads,
three steps), `pollCompletedWork` (`PollPop`, `Deliver`, `CallbackReturns`,
`PollReturn`) and the destructor (`Shutdown`, `NotifyAll`, `Drain`). User steps
are possible inside a callback too, a poll included: `depth` counts the calls of
`pollCompletedWork` on the stack, and `processed` has the local of each.
`InlineWorkPool` is the other half of the file: `InlineTake` and
`InlineExecute` are one turn of its loop, before and after `execute()`. What
the builds have in common is in `WorkTasks`, so that both are shown to
implement `AsyncDelivery` under the same mapping. `outcome` and `cancelRequested` are
observers: what the submitter has been told and what it asked for.

**CommandLoop.** `ClientStep` appends a command and its payload under the lock
and notifies. The server goes through `serve`, `waitLock`, `waiting`,
`process`, `execute`, `next`, `draws`, `stopped`. A payload is the number of its command,
so a mismatch shows. `issued` is the history of pushes, `frameEnd` its length
when the frame began. All other commands have the shape of `runOnce`: they
take what they need from side streams under the lock, then run unlocked; what
they do is `CommandServer`.

**CommandServer.** One action per handler, commands of one shape sharing an
operator (`FileQuery`, `ViewModelCommand`, `SetViewModelInstanceValue`). `parent` records the object a
handle was made from, as the code's raw pointers do; `messages` what the last
command wrote; `told` what the client can conclude. Look-ups that depend on the
content of a file (an artboard's name, a property's path) may fail or succeed.

**FileAssets.** `Decode`, `DeleteAsset`, `AddFileAsset`, `RemoveFileAsset` for
all three kinds; deleting erases the first name that the map's iteration finds,
hence any one. `LoadContents` is the loader's answer, `expected` the intent: the
last object registered under a name and neither removed nor deleted since.

**SyncPointer.** An event is `StartLookup`, `Acquire` and `Lookup` (under the access
mutex), `Position`, `Lock`, `Unlock` and `Drop`. `Position` is
`cursorPosForPointerEvent`, which reads the artboard's bounds outside of the
machine's mutex: so the model lets it overlap with anything, and no
property says that an instance has one user at a time. The server goes through the same steps for its
own commands (`GetWrapper`: a pointer command begins with the position, others
lock at once). `Unref` is the release of a reference; with the last one its thread
runs `~SynchronizedStateMachine` (`Destroy`, which waits for the mutex, then `Disposed`),
be it an event's thread or the server, in `DeleteStateMachine` with the access
mutex held. `CleanupMachine` erases from the map *without* the access
mutex, which is undefined if a look-up runs at the time: the model lets such a
look-up see the machine or not, and remembers the thread in `raced`.

**MessageLoop.** `frames` is the stack of calls of `processMessages` and of the
callback each of them is in. `Deliver` is a message's case: the global callback,
then the look-up of the handle's own listener (`AfterGlobal`), as the code
orders them. `Destroy` and `Move` are `~ListenerBase` and its move constructor.
`misfiled` holds the handles touched by `referenceListViewModelInstance`, whose
listener gets the root's handle instead of its own (`command_queue.cpp:326`).

**Promises.** Everything runs on one thread, so the state of the program is its
call stack: `stack` holds a frame for each call under way, and one step is what
the innermost frame does up to its next call. A script is a frame too, and may
perform any operation on the promises it can know (`Known`). `notify` and
`renotify` are `promise_notifyCallbacks`, called by a settlement and by a
chaining to a promise already settled; `cancel`, `cancelled`, `down` and `drop`
are the parts of `cancel` between its calls; `all`, `allFulfilled`, `allRejected`,
`allRelease` and `allCancel` the loop of `Promise.all`, its closures and its hook.
A promise may be chained from while a frame walks its lists. If it has settled, a
second walk starts at once (`renotify`) and, as the code's does, from the first
entry: the one whose call is under way is called again. `Disturb` notes in
`dangling` how high in the stack the first walk is. That walk finds its list
changed only when what it called returns to it, so everything until then is
defined, and is modelled; then the model stops (`undefined`). It also stops where
a registry number is used after its release: by `Promise.all`'s closures and hook, by a
second walk over entries that the first is done with, and where a coroutine that is
running is resumed. An element of `Promise.all` that is no promise ends the loop
with an error and leaves the earlier inputs wired to a result that nobody has
(`bad`). `lua_await` yields and `handleCoroutineCompletion` hangs the
coroutine on the promise: one action. The errors for a yield without a promise
(`lua_promise.cpp:1157-1168`) are not reachable: `lua_await` is the only function
that yields, since `rive_lua_libs.cpp:256-276` does not open the coroutine library.

**UpdatePass.** The initial states are all trees, solos and constraints.
`onAddedClean` takes the components one by one. The recursive visit of the sorter
is a machine of its own: `visiting` is the visit under way, `caller` who made
it, `m_Temp` who has been visited; `VisitDependent` goes one call deeper or finds
a cycle, which ends all of them, and `EndVisit` places a component and returns.
`Reached` and `Mark` are `addDirt` with recursion: the least set that
contains what a dirty component tells. `collapse` says of every component, from
the artboard down, whether it is hidden afterwards (`isCollapsed`: what
`Component` and `Solo` do of it), and `CollapseChanged` is the override of
`TransformComponent`. A world transform is the record of what it was
computed from. An update can itself change something, which in this code is a
scroll constraint that sets the offset of an ancestor. A component outside the
order keeps an unset `m_GraphOrder`: comparisons with it may go either way.

**DataBinds.** `q` is everything that a call can change, so that nested calls
compose as operators: `SetProperty`, `propertyValue` with its delegate,
`addDirt`, `addDirtyDataBind`. The set of dirty binds that a change leaves is
stated by what is in it, and `InOrder` is a set listed in the container's order,
so that no call is a recursion over a list. The steps are those of `updateDataBinds`, one
bind each, then `UpdateComponents`, then the binds again. A bind to the display
of a layout is exempt from `canSkip` and `collapse` in the code; here it is a
bind that no other hides. Delegates are one level deep: that a value set by a
delegate has none itself is an assumption (`ValueAssumption`). `touched` and
`overlooked` are observers: the properties that something other than their bind
has set since the last poll, and those set back to what the bind saw last.

## What the runs check

Each is one `.cfg`; all finish in at most a few minutes.

| run | instance | shows |
|---|---|---|
| `pool` | 2 tasks of 2 owners, 2 workers, 1 owner cancel, polls of 2 nested to 2 | `OneHolder`; `InFlightCounted`; the pool implements `AsyncDelivery`; `EventuallyAnswered`; `DestructorReturns` |
| `pool_inline` | no threads, 4 tasks of 2 owners, any cancels, polls of 2 nested to 2 | `HasPendingWorkSeesAll`, `AnsweredInOrder`; the pool implements `AsyncDelivery` |
| `pool_has_pending` | the same without cancels | *violated*: `hasPendingWork` is false while a task is pending |
| `command_loop` | 4 commands, 2 keys | `NoSleepOnWork`, `PayloadBelongs`, `FrameIsBounded`, `FrameStartsClean`, `DrawsAreLatest`, and that every draw is settled |
| `server` | 1 file, 2 artboards, 2 machines, 2 view models; and 2 images, 1 font, 3 names | `MachinesHaveArtboards`, `KnownIsLive`, `FailureIsClean`, `DeletionsAreTold`; `ResolvesLast` |
| `pointer_safety` | 2 threads, 2 machines of 2 artboards | `HeldIsAlive`, `DestructorNeverWaits`, `EventsReturn` |
| `message_loop` | 2 handles, 3 listeners, 2 waiting messages, 1 nested call | `ListenersAreBound`, `MarksMatchCalls`, `ProcessReturns` |
| `promises` | 5 promises, lists of 2 inputs, 7 promises and operations together | `AnswerIsComing`, `CancelGoesUp`, `OnlyRechainingRepeats`, `AllOrNothing`, `OneFramePerPromise`, `LinksReleased`, `StatesAreOneWay` |
| `promises_rechained` | 3 promises | *violated*: a handler runs at most once |
| `update_pass` | all trees of 5 components, 1 constraint, 2 passes, 2 changes | `OrderRespectsDependents`, `DirtIsAnnounced`, `WorldsAreRight`, `SoloShowsOne` |
| `update_solo_target` | a tree with a solo inside a solo, 1 change | *violated*: a constrained component follows the collapse of its target |
| `data_binds` | 5 binds on 2 values, 3 numbers, 3 changes | `DirtyIsQueued`, `RestMeansAgreement`, `NoEcho`, `Settles` |

The two parts of `server` share no variable and no command, so the run takes each
while the other has not begun.

The three violations are disagreements between the code and its own comments:

1. `work_pool.hpp:45` promises that `hasPendingWork` is true if any task is
   queued, running or unpolled. A worker pops under the lock and counts itself
   after it (`work_pool.cpp:192`); in between the task is nowhere. Polls go on
   regardless, so tasks are still answered (`pool`).
2. `transform_component.cpp:35` says that a constrained component is marked
   dirty because a target of its constraints has changed its collapse status.
   `Solo::collapse` (`solo.cpp:34`) calls `Component::collapse` and passes over
   the override that does it. When a solo is the target and a solo above it
   switches, the constrained component keeps its old world transform.
3. `lua_promise.cpp:13` calls `ScriptedPromise` a Promise/A+, in which a handler is
   called at most once (2.2.2.3). A handler that chains from the promise
   it is called for starts a second walk of the lists
   (`lua_promise.cpp:503`, `533`, `562`), which calls that handler again: its reference
   is released only after its call (377). `OnlyRechainingRepeats` says that nothing
   else makes a handler run twice, and `OneFramePerPromise` that two walks of one
   promise come from this only.

Other disagreements, met while modelling, shape the models and have no run:

* `work_task.hpp:48` says that `onCancel` is called when a task is cancelled.
  `cancelAllForOwner` does not flag running tasks, and the destructor looks at
  flags only: such a task gets no callback at all.
* `command_server.hpp:226` says that deleting a file invalidates its artboards.
  The vector that would do it is never filled (`command_server.cpp:638`), hence
  `NoFileVector` among the invariants.
* `command_queue.hpp:24` says that handles are typed for safety.
  `listViewModelInstanceNames` reports failures as view model errors under a
  file's handle (`command_server.cpp:2135`).
* `command_server.hpp:231` says that deleting an artboard invalidates its
  machines. A thread that copied its reference delivers an event regardless,
  to a machine whose artboard is freed; and when such a reference is the last, the
  destructor's `dispose()` is given an instance whose artboard is gone.
* `command_server.hpp:201` says that `m_mutex` keeps a machine from being advanced
  while an event is processed. `cursorPosForPointerEvent` reads the bounds of its
  artboard before the lock, in the server's commands and in other threads'
  (`command_server.cpp:293`, `436`).
* A promise chained from one already cancelled, and a `Promise.all` with a
  cancelled input, stay pending for good (`lua_promise.cpp:315`).
  `AnswerIsComing` names both exceptions.
* `lua_promise.cpp:20` says that a cancellation goes up when all consumers are
  cancelled. A promise resolved a second time with a pending promise leaves its
  parent and stays in the parent's list: when it is cancelled, only the new parent is
  asked (`strayed`, which `CancelGoesUp` excepts).
* The hook of `Promise.all` releases registry numbers that its closures use
  later, when an input has another consumer and outlives the cancelled result.
* A two-way bind that applies its target first compares the property with what it
  last *read* there, not with what it last wrote. A property set back to that
  older value is overlooked, and the two sides differ at rest, until either
  changes: `RestMeansAgreement` excepts exactly these (`overlooked`) and holds of all
  other shown binds in both directions. What the bind wrote itself looks new
  to it, so that it may write it back over a newer source value: `NoEcho` is
  about binds that apply their source first.
* A two-way bind whose own write makes a delegate set the same source again does
  not hear of it (`suppressDirt`): the delegates of `data_binds` set other values.

### Bounds, and why they are enough

* *Pool*: two owners tell a task of the cancelled owner from one of another;
  two tasks are in a queue and a worker, or in both queues, at once; two workers
  contend for a wakeup; a poll of two callbacks can be left half-way and filled,
  and a poll in its callback take what it would have taken next. The safety
  of more tasks is what the theorems are for: they hold for any number. Tasks are
  submitted once, which is what `submit` supports.
* *Command loop*: four commands make a draw, a draw on the same key, a cancel
  and a disconnect or a later frame; two keys show that coalescing is by key.
* *Handles*: two machines in one artboard, or one in each of two, are all the
  shapes that one deletion tells apart. Handles are never used twice, as
  in the code, which counts them up.
* *Assets*: three names let an object have two of them and one go elsewhere,
  and two images of one kind replace each other.
* *Pointer events*: two threads and the server contend for one machine, or
  for two.
* *Messages*: with three listeners one can be moved into and one take the
  freed handle; one nested call shows the exchange of marks. `MaxReentries` is
  needed: a client that calls `processMessages` from every callback, with a
  server that always writes, does not return.

* *Promises*: two inputs, their two chained promises and the result of a
  `Promise.all` are five; with chains, five are two generations of consumers.
  `MaxSize` bounds the promises that scripts hold and the operations they perform
  *together*, so that a run with few promises goes deeper: two promises
  and five operations, or five and two. Settling, cancelling and hooking from
  inside of handlers, at depths of several frames, are reached well within.
* *Update pass*: five components are the least with a solo, two children, a
  constrained component and a target elsewhere. Two passes instead of a hundred
  show the loop giving up. Trees are numbered breadth first, which names
  each shape once.
* *Data binds*: five binds have each kind, both orders, a hidden target and a
  computed property; three values tell "old", "new" and "newer" apart.

`MaxCancels`, `MaxNesting`, `MaxCommands`, `MaxMessages`, `MaxReentries`, `MaxSize`,
`MaxInputs`, `MaxConstraints` and `MaxChanges` are bounds of the models, not of
the code (`MaxSteps` stands for the code's 100); every theorem holds for any
value of them. Symmetry is used only in runs without liveness properties.

### Fairness

* *Pool*: weak fairness of each worker and of the main thread's steps (threads
  are scheduled, callbacks and `execute` return); strong fairness of starting a
  poll outside callbacks, since `Artboard::advance` calls `rive_pollAsyncWork` every frame as long
  as the pool lives. Nothing is assumed of `submit` or of cancels.
* *Command loop*: weak fairness of the server thread; none of clients.
* *Pointer events*: strong fairness of each thread's steps, and of the server's use of
  a wrapper that it has; the server need not begin any command. It must be
  strong for the two mutexes only. `std::mutex` promises no order of waiters: the
  assumption is that a mutex that is released again and again, by a server that
  holds it for one command at a time and by other events, is not won by others every time.
* *Messages*: weak fairness of `processMessages` once called, and of its
  callbacks; none of the server's writes.
* *Data binds*: weak fairness of the frame's steps: the host keeps advancing its
  artboards. None of the host's own changes.

`CHECK_DEADLOCK FALSE` stands where the system stops: after the pool is
destroyed, and after `disconnect` or the last command. `Promises` and `UpdatePass`
may rest (`Rest`) with no call under way and nothing dirty.

## What is proved

Every proof is of `Init => IInv`, `IInv /\ [Next]_vars => IInv'` with one case
per action, and `IInv => Property`. The assumptions are the named `ASSUME`s of
each module: that the `None` values are not members of the sets, that kinds of
handles are disjoint, that bounds are numbers, that there are finitely many
workers and threads, that a tree's components are numbered from the artboard
down.

* `WorkPoolProofs`: `TypeCorrect`, `CancelIsFinal`, `TasksHaveOneHolder`,
  `InFlightIsExact` and `PoolImplementsDelivery`. For a cancel the flag alone is
  not enough, as a task in a worker gets none. `CancelInv` says that a task
  whose cancel was requested is flagged or older than its owner's last cancel
  (`CancelKnown`), and that no generation is ahead of the counter
  (`GenerationBound`), so that this is never undone; it is exactly what the poll
  tests. It rests on `TypeInv`, which adds to `TypeOK`
  the bound of a poll and which local variables are set at which pc. `HoldInv` is `OneHolder` without cardinalities: the
  queues and the hands of workers and poll are apart (`Apart`), a task is pending
  exactly while one of them has it (`HeldIsPending`), and what is in the completed
  queue has finished (`PushedIsFinished`). `RequestInv` adds that
  nothing is cancelled that nobody asked to cancel. Every step of the pool is
  then one of `AsyncDelivery` or a stutter. For the build without threads,
  `InlineTypeCorrect`, `InlineHasPendingWorkIsExact`, `InlineAnswersInOrder` and
  `InlinePoolImplementsDelivery` rest on `InlineInv`. It has no generations and
  needs none: a task is out of the queue and unanswered only while it executes,
  when no user code runs, so a flag says exactly whether a cancel was asked for
  (`InlineCancelInv`). The queue is sorted by handle and all that have left it
  come before (`InlineOrderInv`). The second look at the flag, after `execute`,
  thus never finds one raised in this build, and `hasPendingWork` keeps
  the promise that the threaded build breaks (`pool_has_pending`).
* `CommandLoopProofs`: `TypeCorrect`, `NeverSleepsOnWork`, `PayloadsBelong`,
  `FramesAreBounded`, `FramesStartClean`, `DrawsAreTheLatest`. The core is `StreamInv`: each side
  stream holds the payloads of exactly its own commands in the stream, in order.
  It is stated with quantifiers over positions instead of a recursive filter;
  `PopFindsPayload` and `AppendMatches` are its two halves. `ExecInv`,
  `DrawInv` and `FrameInv` say what the command in execution, the draw map and
  the frame's break have to do with the history. `LatestInv` adds what a draw
  needs: what waits in the stream are the commands pushed, all those from some
  number on (`IsIssued`, `IsClosed`), so that a command that replaces a draw
  still waits, is in execution, or has already changed the map.
* `CommandServerProofs`: `TypeCorrect`, `MachinesKeepArtboards`, `ClientsKnow`,
  `FailuresAreClean` and `DeletionsAreAnnounced`.
  `Anchored` says that a machine in its map is in its artboard's vector and the
  artboard in its map; `NoFileVector` that files' vectors are empty, without
  which `deleteFile` would need more; `KnownIsLive` is inductive beside them.
  `NoTwice` says that an artboard's vector names no machine twice. With it the
  machines still live are told once each by whatever deletes their artboard:
  `InOrder` and `StillLive` stand for the loop that skips the others.
  `FilesGetTheLatest` is about `FileAssets`, the other part of the same server:
  `ResolvesLast` is inductive with the types, as a name and its intent differ
  only when the named object is dead.
* `MessageLoopProofs`: `ListenersStayBound`. With the registry's types and the
  fact that only made handles have entries (`Given`), `ListenersAreBound` is
  inductive, whatever the stack of calls. `CallsHaveMarks` counts the
  marks of the stream, and is inductive with the types (`CallInv`), although
  nested calls end at each other's marks.
* `SyncPointerProofs`: `UsersKeepWrappers` and `DestructorsNeverWait`. `LockInv` says
  that a thread inside a machine, or disposing of it, holds its mutex; `Counted`
  that a wrapper's reference count is the number of its owners, of which every user
  is one; `Doomed` that a wrapper being destroyed has left the map. The guard goes before the reference, so whoever finds the count at one
  finds nobody else with the mutex.
* `PromisesProofs`: `SettledForGood`, `OneWalkPerPromise` and
  `SettledIsUnlinked`, for any depth of calls and any sequence of operations.
  A step of any script or frame makes one promise or settles one that is
  pending (`OneMoves`). `WalkInv` says that among the frames above
  `dangling` at most one walks the lists
  of a promise, and only of one that has settled: a pending promise has no such
  frame, so it may settle and get one, and what has settled never settles
  again. It needs `AllsInv`, that the inputs of a `Promise.all` have been made.
  `LinkInv` adds that whatever has settled and still has a parent has the
  frame on the stack that will release it.
  Most of what follows holds until a call has lost its list (`Intact`), and when no
  call is under way none has (`RestIsIntact`), so `NoAnswerIsLost`, `CancellationsGoUp`
  and `SettledIsUnlinked` need no such condition.
  `HandlersRunOnce` is about `OnlyRechainingRepeats`: `HandlerInv` says that no promise is chained at two places
  of any lists that run something, and that a handler has run only if a walk that
  is under way has passed its place. `CancellationsGoUp`: `CancelInv` says that
  when the consumers of a pending promise are all cancelled, it is asked to cancel
  or one of them is about to ask (`Heard`), and that a consumer that may still
  ask refers to it (`Loyal`), unless it strayed.
  `AllAnswersForItsInputs` (`Intact => AllOrNothing`; the run checks `AllOrNothing` also
  inside a second walk) is about the count of a `Promise.all` and needs the
  most: only the frame that knows what the inputs are settles its result
  (`FramesInv`), the promise chained from an input belongs to one place of one table and is
  out of scripts' reach (`TableInv`, `CallbackInv`), the inputs whose closures
  have run and those that remain add up to all (`CountInv`), and a chained promise has
  been told or waits with its input (`SlotInv`). Steps are first sorted by what they do to
  tables, lists and calls under way (`StepKinds`), so that each of these is proved
  for seven kinds of step instead of thirty actions.
  `NoAnswerIsLost`: `AnswerInv` says that the answer of a pending promise is
  `Coming`: a call under way will settle it, or is walking towards it through
  the lists of a promise that has settled, or it hangs on a pending promise. A
  cancellation walks the consumers and not the callbacks, so the invariant
  needs `ConsumerInv`: what hangs on a promise that has not settled is its consumer, but for
  coroutines, which are found by their callbacks. Only the call that walks the lists of
  a promise clears them (`ListsGrow`). The result of a
  `Promise.all` follows from the count: an input not counted still has its
  callback (`AllAwaits`).
* `DataBindsProofs`: `DirtyBindsAreQueued`, `RestAgrees` and `NoEchoes`, for any
  binds, sources and values. `Carries` is what every call that a bind makes,
  however nested, does to the rest: lists only grow, what is dirty is queued
  (`Follows`), other binds hear of what changed (`Spares`). `BindInv` says of the
  loops that whatever disagrees is dirty and behind the place the loop is at
  (`Queued`), or still due in the pass (`Due`), or a further pass is asked for
  (`Caught`). What a target-first bind saw last and what it put there differ, so
  `RestAgrees` follows the properties of two-way binds too, and only those
  `overlooked` are behind. `InOrderEnumerates` shows that a finite set has exactly
  one listing in the order of the container.

* `UpdatePassProofs`: `UpdateTypeCorrect`, `OrderIsTopological`,
  `SolosShowTheirChild`, `NothingDirtyIsForgotten` and `IncrementalIsComplete`,
  for any number of components.
  `SortInv` is the sort: what has been placed comes once and before its
  dependents (`PlacedOnce`, `DependentsFollow`), and the visits under way
  (`UnderWay`) are a chain of callers from the artboard (`Chain`). The chain shows that the
  last visit to return is the artboard's, so that all has been placed, and that a
  dependent found on it closes a cycle: a set in which everything has a
  dependent, which is the negation of `Acyclic`. `SoloInv` says that what a
  hidden component contains is hidden, and relates solos to their children as
  far as loading has come. `DirtInv` adds to `DirtIsAnnounced` that what an
  unfinished pass has left dirty behind it set the flag. `WorldInv` is the
  heart: dirt goes to dependents unless a hidden target stands between
  (`DirtDescends`), what is clean solves its equation (`CleanIsCurrent`), and a pass
  has nothing to update behind it (`PassIsClean`). A component is updated after
  all it depends on (`EarlierIsDone`), so what it reads is clean; what an update
  dirties before its place ends the pass, as the dirt reached it from above
  (`Spreads`); and a constrained component hears when its target is hidden
  or shown, unless that is a solo, which the theorem excepts for the reason given
  under `update_solo_target`. At rest both the transforms and
  `Expected` solve one equation for each component shown, and the least place at which
  they differ would depend on an earlier one (`CleanIsRight`). The
  induction theorems of the library take a predicate, which the provers here
  cannot instantiate; each induction is instead about the least element of a
  set of counterexamples (`LeastElement`). In that form it also shows that the
  recursive functions of the model exist (`DescentExists`, `SolutionExists`).

Only model-checked: everything temporal (`EventuallyAnswered`,
`DestructorReturns`, `DrawsAreSettled`, `EventsReturn`, `ProcessReturns`,
`Settles`), as liveness is out of the prover's reach. All other properties that
the runs check are theorems. Some theorems have no run of their own: the types of the pool
and of the command loop, and `CancelledNeverCompletes`, which also follows from the
refinement.

## What the models leave out

* The memory model. Atomics are read and written in order; the unlocked test
  in `waitCommands` sees a current value, and the second test under the lock
  makes up for a stale one. The one data race modelled is in `SyncPointer`.
* The contents of files, property values, names and errors' texts.
* Exceptions and failed allocations.
* `WorkPool` as a process global polled from several threads: the sources state
  that it is polled from the main thread.
* Garbage collection of scripts' promises, and values other than promises.
* Numbers: a transform, a property and a value are members of small sets.

## Plan

1. `PropertySubscriptions`: the check after each frame (`command_server.cpp`,
   456-567) with `subscribe` and `unsubscribe`; two subscriptions to one
   property share its changed flag. Composed with the handle tables.
2. `CommandWire`: which fields each command and message has, in which
   stream, in which order: what each writer puts is what each reader takes.
   It replaces the assumption of `CommandLoop` that all commands have one shape.
3. The table of browser decodes, whose ids wrap.
4. `AudioDecodeWorker` and `ReadWriteRing`.
5. Joysticks and nested artboards in `UpdatePass`; converters, and binds that come
   and go, in `DataBinds`; state machine transitions; the journal of raw text
   input; focus.
