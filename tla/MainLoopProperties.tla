------------------------- MODULE MainLoopProperties -------------------------
(***************************************************************************)
(* What the main loop of a router promises.                                *)
(***************************************************************************)
EXTENDS MainLoop

\* Every variable has its type; in particular a task is never removed that is
\* not in the list.
TypeOK ==
    /\ conn \in [Conn -> ConnStates]
    /\ held \in SUBSET Conn
    /\ inbox \in [Conn -> 0..MaxInbox]
    /\ delivering \in [Conn -> Nat]
    /\ changed \in BOOLEAN
    /\ shuttingDown \in BOOLEAN
    /\ taskList \in SUBSET Task
    /\ finished \in SUBSET Task
    /\ round \in SUBSET Task
    /\ toRemove \in SUBSET (taskList \cap Conn)
    /\ loopConn \in Conn \cup {Nothing}
    /\ pc \in Places

Running == pc \in {"waiting", "processing"}

\* No lost wakeup: while the loop waits or works, it watches the inbox of every
\* connection in _connectionByREp, or the event that will make it do so is set,
\* and it watches that event and the shutdown.  A connection made while the
\* loop is suspended in the middle of a clean-up must not be forgotten when the
\* event is cleared at the end of it.
InboxesAreWatched ==
    Running => /\ {TaskListChanged, ShutdownTriggered} \subseteq taskList
               /\ changed \/ live \subseteq taskList

\* No message stays unread because other inboxes are busy ("busy tasks don't
\* dominate less busy tasks", _mainLoop): again and again the inbox of c is
\* empty or one of its messages is taken, unless c or the loop is gone.
NothingToRead(c) ==
    \/ inbox[c] = 0 /\ c \notin finished
    \/ c \notin live
    \/ pc \in {"dead", "ended"}
NobodyStarves ==
    \A c \in Conn : []<>NothingToRead(c) \/ []<><<MsgArrived(c)>>_vars

\* A shutdown ends the main loop, which sets hasShutdown ("an Event signalling
\* that the router has shutdown"): Connection.shutdown and every caller of
\* Router.shutdown wait for it without a timeout.
ShutdownCompletes == shuttingDown ~> (pc = "ended")

=============================================================================
