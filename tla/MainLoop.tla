------------------------------ MODULE MainLoop ------------------------------
(***************************************************************************)
(* The task list of a router's main loop (_core.py, Router._mainLoop) in   *)
(* LOCAL_MODE, and the connections whose inboxes it watches.               *)
(*                                                                         *)
(* The loop waits for any task of the list and then processes those that   *)
(* are done, as it finds them in a set.  It holds the thread while it does *)
(* so, except that it suspends for each task it removes: only then can     *)
(* other code run between two done tasks.  A connection is collected when  *)
(* nothing refers to it; the loop's own variable conn does.                *)
(*                                                                         *)
(* Messages are counted and not looked at: LocalRouter.tla follows them.   *)
(***************************************************************************)
EXTENDS Integers

CONSTANTS
    NConn,      \* bound: connections made in the router's life
    MaxInbox    \* bound: messages in an inbox, and deliveries in progress

ASSUME BoundsAssumption == NConn \in Nat /\ MaxInbox \in Nat \ {0}

Conn == 1..NConn        \* rEps, in the order of _rEpSeed
Nothing == 0            \* the variable conn before it is bound, or Missing
ShutdownTriggered == -1 \* _isShuttingDownTask
TaskListChanged == -2   \* the task that waits for the event _taskListChanged
\* a connection stands for the task of its inbox.get()
Task == Conn \cup {ShutdownTriggered, TaskListChanged}

VARIABLES
    conn,           \* see ConnStates
    held,           \* connections a client still refers to
    inbox,          \* lengths of the queues
    delivering,     \* numbers of _deliver tasks, which refer to their connection
    changed,        \* the event _taskListChanged
    shuttingDown,   \* the event _isShuttingDown
    taskList,       \* keys of taskList
    finished,       \* tasks that are done
    round,          \* what is left of done
    toRemove,       \* what is left of tasksToRemove
    loopConn,       \* the variable conn of the main loop
    pc              \* where the main loop is: see Places

vars == <<conn, held, inbox, delivering, changed, shuttingDown, taskList,
          finished, round, toRemove, loopConn, pc>>
connVars == <<conn, held, inbox, delivering>>
loopVars == <<taskList, round, toRemove, loopConn, pc>>

\* "waiting" in until(), "processing" a done task, "cleaning" suspended after a
\* cancel, "gathering" suspended in gather(), "closing" cancelling what is left,
\* "ended" with hasShutdown set, "dead" by an exception.
Places == {"waiting", "processing", "cleaning", "gathering", "closing", "ended", "dead"}

\* An "open" connection is in _connectionByREp; shutdown() empties that, so that the
\* connection is "unlisted"; one that is "gone" has been collected.
ConnStates == {"new", "open", "unlisted", "gone"}
open == {c \in Conn : conn[c] \in {"open", "unlisted"}}   \* the keys of _inboxByREp
live == {c \in Conn : conn[c] = "open"}                  \* the keys of _connectionByREp

Init ==
    /\ conn = [c \in Conn |-> "new"]
    /\ held = {}
    /\ inbox = [c \in Conn |-> 0]
    /\ delivering = [c \in Conn |-> 0]
    /\ changed = FALSE
    /\ shuttingDown = FALSE
    /\ taskList = {ShutdownTriggered, TaskListChanged}
    /\ finished = {}
    /\ round = {}
    /\ toRemove = {}
    /\ loopConn = Nothing
    /\ pc = "waiting"

----------------------------------------------------------------------------
\* Clients and handlers: they run while the loop is suspended

LoopSuspended == pc # "processing"

\* also after shutdown()
NewConnection(c) ==
    /\ LoopSuspended
    /\ conn[c] = "new" /\ \A d \in Conn : d < c => conn[d] # "new"
    /\ conn' = [conn EXCEPT ![c] = "open"]
    /\ held' = held \cup {c}
    /\ changed' = TRUE
    /\ UNCHANGED <<inbox, delivering, shuttingDown, finished, loopVars>>

\* a message for an open connection; Router._route bounces any other
Send(c) ==
    /\ LoopSuspended
    /\ c \in open
    /\ inbox[c] + delivering[c] < MaxInbox
    /\ inbox' = [inbox EXCEPT ![c] = @ + 1]
    /\ UNCHANGED <<conn, held, delivering, changed, shuttingDown, finished, loopVars>>

DeliverEnds(c) ==
    /\ LoopSuspended
    /\ delivering[c] > 0
    /\ delivering' = [delivering EXCEPT ![c] = @ - 1]
    /\ UNCHANGED <<conn, held, inbox, changed, shuttingDown, finished, loopVars>>

Release(c) ==
    /\ LoopSuspended
    /\ c \in held
    /\ held' = held \ {c}
    /\ UNCHANGED <<conn, inbox, delivering, changed, shuttingDown, finished, loopVars>>

\* Connection.__del__, at any time: also when the loop rebinds its variable.  The
\* dictionary that shutdown() puts in the place of the weak one holds what is made later.
Collect(c) ==
    /\ c \in IF shuttingDown THEN open \ live ELSE open
    /\ c \notin held /\ delivering[c] = 0
    /\ loopConn = c => pc \in {"ended", "dead"}
    /\ conn' = [conn EXCEPT ![c] = "gone"]
    /\ changed' = TRUE
    /\ UNCHANGED <<held, inbox, delivering, shuttingDown, finished, loopVars>>

\* Router.shutdown(), for the first time or again
Shutdown ==
    /\ LoopSuspended
    /\ conn' = [c \in Conn |-> IF c \in live THEN "unlisted" ELSE conn[c]]
    /\ shuttingDown' = TRUE
    /\ UNCHANGED <<held, inbox, delivering, changed, finished, loopVars>>

----------------------------------------------------------------------------
\* The tasks of the list

\* inbox.get() has taken a message; the queue outlives its connection
GetEnds(c) ==
    /\ LoopSuspended
    /\ c \in taskList \ (finished \cup toRemove)
    /\ inbox[c] > 0
    /\ inbox' = [inbox EXCEPT ![c] = @ - 1]
    /\ finished' = finished \cup {c}
    /\ UNCHANGED <<conn, held, delivering, changed, shuttingDown, loopVars>>

WaitEnds(t, event) ==
    /\ LoopSuspended
    /\ t \in taskList \ finished
    /\ event
    /\ finished' = finished \cup {t}
    /\ UNCHANGED <<connVars, changed, shuttingDown, loopVars>>

ChangedEnds == WaitEnds(TaskListChanged, changed)
ShutdownEnds == WaitEnds(ShutdownTriggered, shuttingDown)

----------------------------------------------------------------------------
\* The main loop

\* faulty: only one of the done tasks is processed
WakeForOne ==
    /\ pc = "waiting"
    /\ \E t \in taskList \cap finished : round' = {t}
    /\ pc' = "processing"
    /\ UNCHANGED <<connVars, changed, shuttingDown, taskList, finished, toRemove, loopConn>>

Wake ==
    /\ pc = "waiting"
    /\ taskList \cap finished # {}
    /\ round' = taskList \cap finished
    /\ pc' = "processing"
    /\ UNCHANGED <<connVars, changed, shuttingDown, taskList, finished, toRemove, loopConn>>

\* the next done task, or back to waiting
Done(t) ==
    /\ round' = round \ {t}
    /\ pc' = IF round' = {} THEN "waiting" ELSE "processing"

Take(t) == pc = "processing" /\ t \in round

\* Start a delivery and a task for the next message, or forget the inbox of a
\* connection that is closed.
MsgArrived(c) ==
    /\ Take(c) /\ c \in taskList
    /\ finished' = finished \ {c}
    /\ IF c \in live
       THEN /\ loopConn' = c
            /\ delivering' = [delivering EXCEPT ![c] = @ + 1]
            /\ UNCHANGED taskList
       ELSE /\ loopConn' = Nothing
            /\ taskList' = taskList \ {c}
            /\ UNCHANGED delivering
    /\ Done(c)
    /\ UNCHANGED <<conn, held, inbox, changed, shuttingDown, toRemove>>

\* taskList.pop(task) outside the try: the task was removed for its connection,
\* closed since, after it was found done
KeyError(c) ==
    /\ Take(c) /\ c \notin taskList
    /\ pc' = "dead"
    /\ UNCHANGED <<connVars, changed, shuttingDown, taskList, finished, round, toRemove, loopConn>>

\* Add a task for every inbox that has none, and wait for the event anew: no
\* suspension between the two.
Refresh ==
    /\ taskList' = taskList \cup live
    /\ finished' = finished \ {TaskListChanged}
    /\ IF live = {} THEN UNCHANGED loopConn
       ELSE loopConn' \in {c \in live : \A d \in live : d <= c}
    /\ changed' = FALSE
    /\ Done(TaskListChanged)

\* faulty: every connection that is not open
ClosedConnections == {c \in Conn : c \notin live}

Closed == {c \in taskList \cap Conn : c \notin live}

Changed ==
    /\ Take(TaskListChanged)
    /\ toRemove' = Closed
    /\ IF Closed = {}
       THEN Refresh
       ELSE pc' = "cleaning" /\ UNCHANGED <<taskList, finished, round, loopConn, changed>>
    /\ UNCHANGED <<connVars, shuttingDown>>

\* one task of tasksToRemove has been cancelled: pop it
Clean(c) ==
    /\ pc = "cleaning"
    /\ c \in toRemove
    /\ toRemove' = toRemove \ {c}
    /\ taskList' = taskList \ {c}
    /\ finished' = finished \ {c}
    /\ pc' = IF toRemove' = {} THEN "gathering" ELSE "cleaning"
    /\ UNCHANGED <<connVars, changed, shuttingDown, round, loopConn>>

\* faulty: what the round added is left for the next change
GatheredOnly ==
    /\ pc = "gathering"
    /\ finished' = finished \ {TaskListChanged}
    /\ changed' = FALSE
    /\ Done(TaskListChanged)
    /\ UNCHANGED <<connVars, shuttingDown, taskList, toRemove, loopConn>>

Gathered ==
    /\ pc = "gathering"
    /\ Refresh
    /\ UNCHANGED <<connVars, shuttingDown, toRemove>>

ShutdownSeen ==
    /\ Take(ShutdownTriggered)
    /\ pc' = "closing"
    /\ round' = {}
    /\ UNCHANGED <<connVars, changed, shuttingDown, taskList, finished, toRemove, loopConn>>

Close ==
    /\ pc = "closing"
    /\ taskList' = {}
    /\ loopConn' = Nothing
    /\ pc' = "ended"
    /\ UNCHANGED <<connVars, changed, shuttingDown, finished, round, toRemove>>

----------------------------------------------------------------------------

Client ==
    \/ Shutdown
    \/ \E c \in Conn : NewConnection(c) \/ Send(c) \/ Release(c)
Runtime ==
    \/ ChangedEnds \/ ShutdownEnds
    \/ \E c \in Conn : DeliverEnds(c) \/ Collect(c) \/ GetEnds(c)
Loop ==
    \/ Wake \/ Changed \/ Gathered \/ ShutdownSeen \/ Close
    \/ \E c \in Conn : MsgArrived(c) \/ KeyError(c) \/ Clean(c)

Next == Client \/ Runtime \/ Loop

Spec == Init /\ [][Next]_vars

\* asyncio runs what is ready in turn, so a task that is ready again and again
\* between two rounds of the main loop runs; clients and the collector do as
\* they like, and handlers may never end.
FairSpec ==
    /\ Spec
    /\ WF_vars(Loop)
    /\ SF_vars(ChangedEnds)
    /\ SF_vars(ShutdownEnds)
    /\ \A c \in Conn : SF_vars(GetEnds(c))

=============================================================================
