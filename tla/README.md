# VLMessaging in TLA+

VLMessaging routes messages between agents of one thread, one machine or one
network.  The repository holds two implementations: the current one in Python
(`src/py/vlmessaging`, nearly all of it in `_core.py`) and an older one in VB6
(`src/vb6`).  This directory models their core in TLA+, checks small instances
with TLC and proves the main safety properties with TLAPS for all instances.

`_core.py` stands for `src/py/vlmessaging/_core.py` below, `test_basics.py` for
`src/py/vlmessaging/tests/test_basics.py`.

## The system

| Component | Its state | Its operations | Hard because |
|---|---|---|---|
| **Connection** (`_core.py` 163-305) | handler, message ids, the entries of sends that wait for a reply | `send` without or with a timeout, `_deliver` and the instructions a handler returns, `shutdown`, `__del__` | replies are matched by id; timeouts, cancellation and shutdown race with them; automatic answers answer each other |
| **Router, local** (308-500) | connections (weak), inboxes, events | `newConnection`, `_route`, `shutdown` | undeliverable messages come back as messages |
| **Router, main loop** (505-634) | the task list | one coroutine that watches every inbox, every socket, the change of its own list and the shutdown | it suspends in the middle of a clean-up; a set of done tasks goes stale; connections are collected under it |
| **Router, timers** (379-401, 637-686) | functions by time | `scheduleFn`, `unscheduleFn`, `_timerLoop` | functions run one after another and change the list |
| **Listening** (420-447, 745-766) | addresses in use, per process | `_listen` for a router, a hub, a gateway, the network | several routers want one address; the hub that had it goes |
| **Socket bundle** (696-927) | pipes by address, dialers, accumulated messages | `_mRoute`, `_nRoute`, callbacks of connects and disconnects | callbacks run on nng's threads; connects cross; peers vanish |
| **Directory** (935-1150) | entries, vnets, the hubs | register, unregister, look up, share with hubs, heartbeat | shares are replicated state that crosses removals |
| **Serialization** (1158-1209) | none | `_msgAsBytes`, `_msgFromBytes` | |
| **Memory mapped file connection** (VB6 `VLMMMFileTransport.cls`, `VLMMMFileListener.cls`, `mGlobals.bas`) | two windows, two mapped files, send and receive queues, timers | connect, `send`, receive or refuse, `disconnect` | two processes share memory with window messages as the only synchronisation; callbacks re-enter |
| **Machine router** (VB6 `cMachineRouter.cls`, `mMain.bas`) | ids of routers, services | id allocation, register, look up, route | ids and services outlive their connection |

How they interact: a Connection's `send` calls `Router._route`, which pushes into
the inbox of a local connection or hands over to a socket bundle.  The main loop
pops inboxes and starts a `_deliver` task per message; `_deliver` completes the
future of a waiting `send` or calls the handler, and answers by `send`.  A
directory is a connection whose handler keeps entries, and whose timers send to
other directories.  nng calls the bundle back on threads of its own.

What makes each correct:

- connections: a waiting `send` returns once, with a message that answers it or
  `Missing`; nothing is left behind; it returns when the router shuts down;
  automatic answers die out;
- main loop: no open inbox is forgotten or starved; a shutdown completes;
- timers: the loop does not oversleep; functions run in the order of their
  times; what is scheduled runs or is unscheduled; a shutdown stops the loop;
- listening: when a hub goes another router takes over, and no call hangs;
- bundle: a message arrives once, or is lost in a way that can be named; the
  callbacks leave routes that can be used; what cannot be delivered bounces; the
  answer to a message from another machine finds its way back;
- directory: directories that share converge; an entry's address means the same
  agent everywhere; local entries stay local; dead agents' entries go;
- memory mapped file: each direction is a FIFO channel; both ends close;
- machine router: an id and a service belong to one live connection.

`PROJECT.json` lists every component with its status and every hazard with its
line and the properties that cover it.

## Modules

| Module | Models |
|---|---|
| `RequestReply` | abstract: what `send(msg, timeout)` promises its callers |
| `LocalRouter` | connections, local routing, delivery, shutdown (LOCAL_MODE) |
| `LocalRouterProperties` | its properties, the inductive invariant, the refinement of `RequestReply`, fairness |
| `LocalRouterProofs` | theorems about it; that it implements `RequestReply` |
| `MainLoop`, `MainLoopProperties`, `MainLoopProofs` | the task list of the main loop |
| `Channel` | abstract: one direction of a connection |
| `MMFileTransport`, `MMFileTransportProperties`, `MMFileTransportProofs` | both ends of a memory mapped file connection; each direction refines `Channel` |
| `Timers`, `TimersProperties`, `TimersProofs` | the timer loop, the functions it runs and the clocks |
| `SocketBundle`, `SocketBundleProperties`, `SocketBundleProofs` | two routers of a machine, the ipc sockets between them and nng's callbacks |
| `Network`, `NetworkProperties`, `NetworkProofs` | two routers of two machines, tcp connections, reply addresses and the way back |
| `Directory`, `DirectoryProperties`, `DirectoryProofs` | directories that share their entries |
| `SequenceFacts` | lemmas on sequences for the proofs about sockets |
| `MCLocalRouter`, `MCMainLoop`, `MCTimers`, `MCMMFileTransport`, `MCSocketBundle`, `MCNetwork`, `MCDirectory` | small instances |

Operators whose comment begins with "faulty" are plausible bugs; no
specification uses them.  Each shows, put in the place of the definition after
it, that a property can fail.

### LocalRouter

State: `inbox` is `_inboxByREp`, `entries` the keys of
`_futureAndSubjectsByReplyId`, `call` the callers' coroutines with their futures,
`polled` the inboxes in the main loop's task list, `ready` the `_deliver` tasks
that have not run, `handling` the messages whose handler is suspended, `stage` the
life of the router from `_isShuttingDown` over `_isShuttingDownTask` to
`_hasShutdown`.

asyncio runs one task at a time, so an action is what runs between two `await`s
that suspend: `Call` is `send` up to its `until`, `Resume`/`TimeOut`/`Cancel` the
rest, `MsgArrived` a turn of the main loop, `Deliver` a `_deliver` task up to the
end or to a handler that suspends, `AgentReplies`/`AgentIsDone`/`AfterShutdown` the
rest of that.  `Resume` looks at the shutdown task before the future, `Deliver`
takes the entry out before it looks at the subject, `HANDLE_PING` does not leave
the loop over the instructions: all as in the code.

A message is its sender, addressee, subject, id and the id it replies to; contents
and formatting are left out.  The ids of answers made inside `_deliver` are
one value, `AnonId`: nobody waits on them.  The main loop's possible death (see the
finding of `loop_shutdown`) is not in this module: it only removes behaviours, so
safety is not affected, and the liveness properties assume a loop that lives.
Messages to other routers are `CallElsewhere`: `_route` raises in LOCAL_MODE.
`shutdown()` puts an ordinary dictionary in the place of the weak one: connections
made before are `"unlisted"` from then on, and may send and be collected but get
nothing more; those made afterwards, which nothing forbids, are held by the new
dictionary and get what the main loop still delivers, until `shutdown()` is called
again.

### MainLoop

The same loop with its task list in detail and its messages only counted.
`finished` are the tasks that are done, `round` what is left of the set `done` of
this round, `toRemove` what is left of `tasksToRemove`, `loopConn` the local variable
`conn`, which keeps a connection from being collected.  The loop holds the thread
while `pc = "processing"`; clients run while it waits, while it suspends after
each `cancel` (`"cleaning"`) and in `gather` (`"gathering"`).  `KeyError` is the
`taskList.pop` of a task that is not in the list any more.  Connections come and go
as in `LocalRouter`, after `shutdown()` too.

### Timers

`timers` is `_timerFnsByTime`, `nextTime` the shared `_nextTime`, `wait` what is
left of the timeout of `until`.  There are two clocks: `now` is `datetime.now()`,
which `SetClock` sets forwards or back; the timeout passes by asyncio's clock,
which nobody sets.  `Tick` moves both.  Whatever clients and functions do while
the loop is suspended, in `until` (`pc = "waiting"`) or in a function it awaits
(`"running"`), are `Schedule`, `Unschedule`, `UnscheduleAt` and `Shutdown`.  `Enter` is the
way from the top of the loop into `until`; `WakeAndRun` and `WakeAgain` are what
follows it, and `batch` is the list that has been taken out of the dictionary,
which `Unschedule` no longer reaches.

The loop leaves a `_nextTime` behind while it runs functions, and `unscheduleFn`
leaves it as it is: `scheduleFn` may compare with a time at which nothing is due.
`WakesInTime` shows that this does no harm: such a time is only ever too early.

### MMFileTransport

Two processes with one thread each.  `posted[e]` is the message queue of e's window,
`file[e]` what its mapped file holds, `frames[e]` the handlers that wait for the
event `bytesArrived` to return: the application runs inside them, and with
`MaxNesting > 1` it calls DoEvents, so that other handlers run meanwhile.  The
connected event is raised before the send queue is flushed (`Established`,
`ConnectedReturns`), so the application may send or disconnect in between.
`tooBig` is a history variable: the ends that have sent a message which does not
fit their file.  Such an end waits for ever for a Received (`VLMMMFileTransport.cls:94`), and
that, an end that disconnects, and an end that is no more are the only causes the
properties excuse (`Cut`).
`disconnecting = "raised"` and `state = "crashed"` are error paths of the code,
kept because the properties have to hold around them.

### SocketBundle

Each router has the thread of its event loop and the threads on which nng calls
`_onConnect`; they share `_pipeByPipeIdByEp` and `_msgAccumulatorByEp`.  A step is
what a thread does between two accesses to these: `_mRoute` looks for a pipe
(`RouteByPipe`, `RouteFails`, `RouteLater`), fetches an accumulator or dials
(`Fetch`), and queues the message (`Queue`); `_onOutGoingIpcConnect` makes the
dictionary of the address (`Create`), adds the pipe (`Add`), announces its router
and takes the accumulator (`Announce`), and sends what is in it one by one
(`Flush`).  `hand[r]` is the message between two steps of the loop's thread,
`pipes[p].pc` the place of a callback.  A dictionary in Python is an object: the
main loop replaces the one of an address (`RegisterRouteBack`), and a callback
that holds the old one adds its pipe where nobody looks (`fresh`).

The two dictionaries are kept by address, and the addresses do not meet in
them, so two routers are the whole of it.  `LettersAreSettled` says what is lost
between routers that live: `send` raises while the dictionary of the address is
still empty, and a message is orphaned when it is queued on an accumulator a
callback has just finished with.  Both are narrow races of threads; the
property says there is no other loss.

### Network

The same bundle in NETWORK_MODE.  A tcp connection has two addresses for the
dialling router: the one it may listen on, port 0 in the model, and the random
port of that connection, port p.  A letter leaves its agent without a machine in
its reply address, and one of three puts it in: `_nRoute`, when it has a pipe
(`RouteByPipe`); the callback of a new connection, when the letter has waited in an
accumulator (`Announce`); or the receiver (`Receive`), when neither has.  What each
puts in depends on tables that callbacks fill while messages flow: `Add` the
pipe, `Learn` its two addresses, `Name` the random port as one of the router's own,
`Announce` the greeting and the accumulated letters.  A step is one of these; the
finer steps of a dictionary are in `SocketBundle`.

What the model shows of the code, beyond what the properties promise:

- a letter accumulated while a connection has a pipe whose addresses are not yet
  known is taken out by the next sender as it is (the condition at
  `_core.py:912` looks at the sender's message, which has its address by then);
  `bare` collects these.  The receiver puts its own address in (562), so that the
  answer comes back to the receiver itself or goes to a third router;
- when the receiver does not know the connection yet either, that is a KeyError
  (563) which ends its main loop (`ReceiveFails`);
- an announcement is heard only when it is earlier than the callback of the
  same connection (540): when it comes later, which is the usual order, the
  router that is told dials a connection of its own, although the comments at 820
  and 841 mean the announcement to set up the way back;
- a connection that is cut stays the first of its routes (862 looks it up under a
  tuple); letters are sent on their way only because `_nRoute` no longer finds its
  addresses and dials again.  `late` is a history variable: letters written to a
  pipe, by themselves or as answers, by a router that has noticed its end.  What
  `Lost` excuses is on the pipe when it is cut, or written before the end is
  noticed, and `late` is never excused: with a router that forgets nothing,
  `LettersAreSettled` is violated;
- `_listen` with an address in use that has no `{N}` never ends (`ListenHangs`): the
  second id finds the address in `_addressesInUse` (749) and is not counted.

`Lost` and a main loop that has ended are the exceptions `LettersAreSettled` names,
`bare` and `early` those that `AnswersAreSettled` adds (`early`: the answer to a random
port overtakes the callback that makes it known, and is routed to another
machine): there are no others.  Both say what
is so in the end, when nothing can happen any more or what happens changes nothing.

### Directory

Entries are an agent, the network address it is reached at (`None` on its own
machine) and its vnets (`NoVnets`, the `None` of the code, for a local entry).
`EnsureNetwork` is a run of the timer function, `Share` and `ShareByNet` what it
sends; `ShareArrives` is SHARE_ENTRIES with its answer, `AnswerArrives` the reply
to it.  What raises in the code sends nothing in the model: `CanShare` and
`CanShareByNet` are the places where it does.  Messages between directories are a
set: they may be lost (see `SocketBundle`) and overtake each other.  Nothing waits
for a reply, so a handler is one step.  An agent that registers or unregisters is
not taken out of `stale`: its message carries the address of the sender alone, not
that of its entry (`_core.py:179`), and 1060 finds nothing; the answer to a PING
does carry it (`Hears`).

`Converges` compares addresses and vnets.  It makes one exception, which the model
shows to be needed: when an agent unregisters, nobody tells the hub, whose answer
to a share may bring the old entry back; when the agent then registers with other
vnets, the hub keeps the old entry (1116-1121) and the two directories disagree
for ever about the vnets of that agent, of which `NetEntries` makes use.
`unregistered` is the history of these agents.

## Runs

| Run | Instance | Shows |
|---|---|---|
| `local_safety` | a client without a handler that sends twice, an agent; 1384k states | types, `ReplyIsForItsCall`, `EntriesAwaitTheirReply`, and that the whole implements `RequestReply` |
| `local_live` | one send; 14k states | `ShutdownReleasesCalls`, `NoiseDiesOut`, `EveryCallIsAnswered` |
| `local_noise` | a client and a directory | **violated**: `NoiseDiesOut` |
| `loop` | two connections, two messages in an inbox; 77k states | types, `InboxesAreWatched`, `NobodyStarves` |
| `loop_shutdown` | two connections | **violated**: `ShutdownCompletes` |
| `mmfile` | two sends one way, one the other, three messages of which one is too big; 62k states | types, `OneMessageUnderWay`, `ImplementsChannel`, `EveryMessageIsTaken`, `BothEndsClose` |
| `timers` | a function, scheduled up to twice for each of four times, a clock set once; 85k states | types, `WakesInTime`, `EarliestFirst`, `EveryTimerRuns`, `ShutdownStopsTimers` |
| `bundle` | crossing letters, of which one may be for a connection that does not exist, a crash and a restart; 147k states | types, `AtMostOnce`, `RoutesAreUsable`, `LettersAreSettled` |
| `bundle_stray` | one letter, for a connection that does not exist | **violated**: `StrayComesBack` |
| `network` | two letters one way, one the other, two events (listening, cuts); 161k states | types, `AtMostOnce`, `ReplyAddressIsTheSenders`, `LettersAreSettled`, `AnswersAreSettled` |
| `directory` | a hub, another directory of its machine, one of another machine, two agents; 156k states | types, `EntriesAreReachable`, `LocalEntriesStay`, `OneEntryPerAddress`, `Converges` |
| `directory_heartbeat` | the same without unregistrations | **violated**: `DeadEntriesGo` |

The violated ones are findings: `PROJECT.json` quotes what the repository says
against each.

Bounds.  *Two connections* suffice for a message, its reply, its bounce and a
noise loop between the two; `to` ranges over both, so a connection also sends to
itself and to one that is new or collected.  *Two sends* of one connection are
the least with which a reply could go to the wrong send; the proof covers any
number.  The answers of handlers are bounded by the sends they answer.  In
`MainLoop` two connections suffice for starvation and for the stale set of done tasks,
with a third task of the list (the change of the list) always there, and for a
connection that is made during the clean-up after another; the proof covers any
number.  In `Timers` four times are those of a
function that runs, one that is due before the time the loop sleeps for, that
time, and a later one; two functions of one time make a batch.  In `MMFileTransport` the first send can wait in the queue while the
handshake is still going on and the second behind it, which is what the order
depends on; three messages tell them apart, and the too big one is any of them.

In `SocketBundle` three events (`MaxEvents`: sends and crashes) are the letters that
make both routers dial, and one that comes while a callback flushes, or a crash
in place of it.  A letter comes after a pipe is up as well as before, since
callbacks take as long as they like.  In `Network` the second letter of a router
finds the first in the accumulator, on its way, or answered; with two events
either both routers listen, or one does and its connection is cut, so that the
next letter dials again.  `MaxPipes = 3` is never reached: more changes nothing.
In `Directory` the spoke and the remote
directory are the two kinds of partner a hub has; one agent is at the spoke and
one at the hub, each may register with two kinds of vnets, the hub's with a
local entry.  `MaxMail` lets two shares, or a share and an answer, cross;
`MaxUnregistered = 1` lets one agent unregister, after which its entry may come back
and it may register anew.  The
proofs of its invariants cover any number of directories, hubs and messages.

The timers of `Directory` never stop, and its runs check that it does not either.  The
other models stop when their clients have sent what the bound allows, their router
is shut down, or their connection is closed, and have no deadlock check.

Fairness.  asyncio runs what is ready in turn (weak fairness of the main loop's
steps and of resumed senders); in `MainLoop` a task that is ready is disabled, in
the model, for the time of each round of the loop, which holds the thread, hence
strong fairness of the tasks of the list.  Handlers end in `LocalRouter`; in `MainLoop`
they need not.  In `Timers` time passes, the loop and its two tasks run when they
are ready, and functions end (a function that does not holds up all others: the
loop awaits it); a client may schedule for ever.  In `MMFileTransport`
Windows delivers posted messages and fires timers, callbacks return, and an
application that is offered a message again and again receives it in the end.
In `SocketBundle` main loops run, nng connects its dialers as long as both
routers are up, and runs its callbacks.  `Network` assumes less: that something of
all this happens as long as anything can (one weak fairness condition); no agent
has to send or listen, nothing has to be cut.  In `Directory` timers run (`_ensureNetwork`
schedules itself again in a `finally`; strong fairness, as the bound on mail
disables it for a while), messages do not stay under way for ever, and of the
shares and answers that one directory sends another again and again some
arrive.  Nothing is assumed of agents that register, leave or die, of senders,
crashes and losses; nor of clients, timeouts, cancellation, disconnects, or of the
collector.

## Theorems

`LocalRouterProofs`, for any set of connections, handlers, callers and any number
of sends:

- `TypeCorrect`: `Spec => []TypeOK`.
- `RepliesAreForTheirCalls`: `Spec => []ReplyIsForItsCall`.  The property speaks of
  the reply a send has got and is not inductive: it depends on every message that
  may become one.  `RepliesInv` adds `MessagesAreGenuine` (every message in an
  inbox, in a `_deliver` task or with a handler is either the request of the send
  its id names, or comes from where the send it replies to went or from the
  router) and `CallsAreMadeInTurn` (an id beyond the seed is unused: a new send
  cannot be answered by what is already in flight).  `Route` is the one place
  where messages enter an inbox, and a lemma says that it keeps a set of inboxes
  genuine.
- `EntriesAreAwaited`: `Spec => []EntriesAwaitTheirReply`, from the same invariant:
  an entry belongs to a send that waits without a reply, or whose routing raised.
- `RouterImplementsRequestReply`: `Spec => ImplementsRequestReply`.  One step of a
  send, `Resume`, may settle and return at once, or only settle: each action is
  shown to be the abstract `Ask`, `Settle`, `Return`, `GiveUp` or `Close`, or to
  leave phases, requests and values of all calls alone.  That a message which settles a
  call answers it is not visible in the step: it comes from `RepliesInv`, which is
  therefore assumed of the state before.

`MainLoopProofs`, for any number of connections and any bound on inboxes:

- `LoopTyped`: `Spec => []TypeOK`.
- `WatchInvariant` and `NoLostWakeup`: `Spec => []InboxesAreWatched`.  While the loop is
  in the middle of a clean-up the property says nothing; the invariant carries
  over it that the two standing tasks stay in the list (only tasks of inboxes are
  removed) and what is removed belongs to closed connections, so that `Refresh`,
  which adds every live inbox and clears the event in one step, establishes it
  again.

`TimersProofs`, for any functions and any bounds on times:

- `SleepInvariant`, `TimersTyped`: `Spec => []TypeOK`, with the inductive invariant `SleepInv`.
- `LoopWakesInTime`: `Spec => []WakesInTime`.  The property relates the timeout to all
  timers.  It depends on `_nextTime` as the link between them, which clients lower
  and `unscheduleFn` leaves: the invariant says that while the loop sleeps
  no function is due before `nextTime` (`NextIsEarliest`), and that the timeout ends no
  later than `nextTime` (`WaitIsShort`).
- `LoopTakesEarliest`: `Spec => EarliestFirst`, an action property, from
  `NextIsEarliest`, which also holds when the clock is set.

`MMFileTransportProofs`, for any messages and any number of sends, and but for the last
theorem with handlers that run inside each other to any depth:

- `TransportTyped`: `Spec => []TypeOK`.  That what is read from a file is a message is
  part of it, and needs the handshake: a file is written before it is announced.
- `OneAtATime`: `Spec => []OneMessageUnderWay`, the handshake, from the inductive
  invariant `HandshakeInv` (`HandshakeInvariant`).  The property is kept by every step
  once the types are, since every step changes each queue of window messages by
  taking its head, adding at its end, or emptying it: `Calmer` says what such a change
  keeps, and only `SendingHolds`, `ReadingHolds` and `AnsweredHolds` are about the
  three steps of the handshake.  `Written` is added for the types: a file without a
  message is not announced.
- `TransportImplementsChannel`: `Spec => ImplementsChannel`, with `MaxNesting = 1`; with 2
  TLC finds it violated (see the end).  Each step `Moves` each direction: it stays, or a
  message is put, taken, or lost with the cut.  The handshake tells where the message
  in the file is: `PrivateSendMoves`, sending starts with nothing under way, so what
  leaves the send queue goes behind all that has arrived; `ReadMoves`, what is read
  goes from the file to the end of what has arrived.  A cut is never undone
  (`StaysGone`).  A window message that is lost needs one: `Stalled` says that a sender
  waits for a Received that will not come (`Blocked`) only when its message was too
  big or an end has begun to disconnect or is no more, and `Stages`, that nothing is
  posted to an end before it is made, is what it rests on.  `Offers` is the invariant that needs `MaxNesting = 1`: what a waiting
  handler offers is still the head of the queue, which is what `Receives` removes.

`SocketBundleProofs`, for any number of letters, stray letters, crashes and
pipes, and with the accesses of senders, main loop and callbacks to the shared
dictionaries in any order:

- `BundleInvariant`: `Spec => []BundleInv`, the inductive invariant.  It has five
  parts besides the types.  `Callbacks`: an accumulator belongs to at most one
  callback, which took it out of the dictionary for good.  `DialersAnnounce`: only
  the dialer announces itself, so that a route it registers for itself is one its
  own callback has added.  `Routes`: no route is there twice, and a published
  address without a route has a callback that is about to add one.
  `PipesAreOpen`: only a crash closes pipes.  `OnePlace`: see below.
- `BundleTypeOK`: `Spec => []TypeOK`.
- `PublishedRoutesAreUsable`: `Spec => []RoutesAreUsable`, which speaks of moments
  when no callback runs; `Routes` says what holds in between.
- `LettersArriveAtMostOnce`: `Spec => []AtMostOnce`.  The number of arrivals is not
  inductive: `OnePlace` says that a letter is in one place, the hand of the thread that
  routes it, an accumulator at a position not yet flushed, a pipe, or an agent, and in
  none before it is sent.  It rests on `Callbacks`: two callbacks that flush one
  accumulator would write its letters twice.  The lemmas `Kept`, `Moved` and `Shifted`
  reduce a step to what it does to the places of a letter.

`NetworkProofs`, for any number of letters, connections and cuts:

- `NetworkInvariant`: `Spec => []NetworkInv`, the inductive invariant.  It has five
  parts besides the types.  `Stages`: who has been dialled listens; only the dialer
  names its end of a pipe and announces itself, it takes that end for its own
  before it announces, and knows the pipe only after its callback has learned
  the addresses.  `DialersAnnounce`: so that `SET_ROUTE_BACK_TO_ME`, which makes a pipe
  known without the callback, does so only at the other end.  `Routes`: no pipe is
  twice among the routes for an address.  `Backs` and `OnePlace`: see below.
- `NetworkTypeOK`: `Spec => []TypeOK`.
- `RepliesGoToSenders`: `Spec => []ReplyAddressIsTheSenders`.  `Backs` follows the reply
  address from the accumulator over the pipe to the agent: what has none is still
  with the sender, and whoever fills it in, `_nRoute` or the callback, has an address
  of its own to put there, because `_nRoute` asks for a pipe it knows and the
  callback is past the stage at which it names its end (`OwnIsGood`, from `Stages`).
  The receiver fills in one only for letters in `bare`.
- `MailArrivesAtMostOnce`: `Spec => []AtMostOnce`.  `OnePlace` says that a letter, then
  its answer, is in one accumulator, on one pipe, or due to be answered by one
  agent, that nothing is anywhere before it is sent, and that the counters change
  when the last place is left.  `RouteMoves` and `AnnounceMoves` say where a step moves
  what is accumulated, `ReceivedFrom` what taking the first message does to the
  positions of the others, and `Moved` that a letter which is only moved stays in
  one place.

`DirectoryProofs`, for any directories, hubs, agents and vnets, and any bounds:

- `TypeCorrect`: `Spec => []TypeOK`.
- `AddressesAreGood`: `Spec => []EntriesAreReachable`.  An answer over the network
  gives entries the address of the hub, which is right only because the hub's
  entries without one are of its machine, and because what stays on a machine
  is sent without a change: `MailStaysOnMachine`, that mail which does not travel
  over the network is for the machine it comes from, is the strengthening.  It
  rests on `HubAssumption`: `_hubs` are hubs of the machine, `_netHubs` are not.
- `LocalEntriesAreKept`: `Spec => []LocalEntriesStay`.  Inductive as it stands, since it
  speaks of messages under way as well.
- `AddressesAreUnique`: `Spec => []OneEntryPerAddress`.  `Merge` looks for the address
  in what a directory had before, not in what it has just added: it is right
  because what arrives is itself without duplicates, which `UniqueInv` adds for
  all mail.

The proofs assume what the modules' ASSUMEs say: sentinels are no messages, and the
bounds are natural numbers.  `SequenceFacts` has the lemmas on sequences that
`SocketBundleProofs` and `NetworkProofs` share.  Only checked, not proved: liveness,
which is out of the reach of the prover.

## Not modelled, and what is next

- Listening as a hub or a gateway.  `Router._listen` makes a bundle for it and then
  listens on that of the router (`_core.py:431`); the code is marked as open, and
  what a hub that takes over should do is not yet in it.  Router addresses are ids
  of the process with nothing to interfere.
- The machine router (VB6): ids and services of routers that come and go over
  `MMFileTransport` connections.  It would be the next module.
- Callbacks of `MMFileTransport` that call DoEvents: the model has them (`MaxNesting`), no
  run does.  With `MaxNesting = 2` a message may be taken twice, since another handler
  offers the head of the queue before the one that is waiting removes it; the
  comment at `VLMMMFileTransport.cls:463` knows of the situation and guards against an
  empty queue only.
- Expiry of accumulated messages: the code keeps a time (`_core.py:1229`) that nothing
  reads.  Closing a bundle while callbacks run, which is left to nng.
- Serialization, constants, sentinels, errors, formatting and the VB6 value classes
  have no state that changes; logging configures output; the play scripts are
  demonstrations.  Beacons are parameters without code.

Every invariant, action property and refinement that a passing run checks is stated
by a theorem.  A theorem of liveness would need a prover for fairness.
