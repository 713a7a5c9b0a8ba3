--------------------------- MODULE MainLoopProofs ---------------------------
(***************************************************************************)
(* The main loop watches every open inbox, for any number of connections.  *)
(*                                                                         *)
(* InboxesAreWatched speaks of the loop when it waits or works.  While it  *)
(* is suspended in a clean-up nothing is promised of the inboxes; what     *)
(* restores the promise is that Refresh looks at the connections as they   *)
(* are when it clears the event (RefreshWatches).  The strengthening is    *)
(* that the two standing tasks stay in the list during the clean-up too.   *)
(***************************************************************************)
EXTENDS MainLoopProperties, TLAPS

StandingTasks == {TaskListChanged, ShutdownTriggered}
StandingTasksStay ==
    pc \notin {"closing", "ended", "dead"} => StandingTasks \subseteq taskList

WatchInv == TypeOK /\ InboxesAreWatched /\ StandingTasksStay

LEMMA TasksDiffer ==
    /\ TaskListChanged \notin Conn /\ ShutdownTriggered \notin Conn
    /\ Nothing \notin Conn /\ TaskListChanged # ShutdownTriggered
  BY BoundsAssumption DEF Conn, TaskListChanged, ShutdownTriggered, Nothing

LEMMA WatchInit == Init => WatchInv
  <1>. SUFFICES ASSUME Init PROVE WatchInv
    OBVIOUS
  <1>1. inbox \in [Conn -> 0..MaxInbox] /\ delivering \in [Conn -> Nat]
    BY BoundsAssumption DEF Init
  <1>2. TypeOK
    BY <1>1 DEF Init, TypeOK, Task, Places, ConnStates
  <1>3. live = {}
    BY DEF Init, live
  <1>. QED
    BY <1>2, <1>3 DEF Init, WatchInv, InboxesAreWatched, StandingTasksStay, StandingTasks

\* Refresh restores the watch, whatever happened before it.
LEMMA RefreshWatches ==
    ASSUME WatchInv, Refresh, UNCHANGED <<connVars, shuttingDown>>,
           toRemove' \in SUBSET (taskList \cap Conn), StandingTasks \subseteq taskList
    PROVE  WatchInv'
  <1>1. live' = live /\ live \subseteq Conn
    BY DEF connVars, live
  <1>2. loopConn' \in Conn \cup {Nothing}
    BY <1>1 DEF Refresh, WatchInv, TypeOK
  <1>3. TypeOK'
    BY <1>1, <1>2 DEF Refresh, Done, connVars, WatchInv, TypeOK, Places, Task
  <1>4. live' \subseteq taskList' /\ StandingTasks \subseteq taskList'
    BY <1>1 DEF Refresh
  <1>. QED
    BY <1>3, <1>4 DEF WatchInv, InboxesAreWatched, StandingTasksStay, StandingTasks

\* Clients run while the loop is suspended; they add to live only with the event set.
LEMMA ClientKeepsWatch == ASSUME WatchInv, Client PROVE WatchInv'
  <1>. USE DEF WatchInv, loopVars
  <1>1. CASE Shutdown
    <2>1. live' = {}
      BY <1>1 DEF Shutdown, live, TypeOK
    <2>2. TypeOK'
      BY <1>1 DEF Shutdown, TypeOK, ConnStates
    <2>. QED
      BY <1>1, <2>1, <2>2 DEF Shutdown, InboxesAreWatched, StandingTasksStay, Running
  <1>2. ASSUME NEW c \in Conn, NewConnection(c) PROVE WatchInv'
    <2>1. TypeOK'
      BY <1>2 DEF NewConnection, TypeOK, ConnStates
    <2>. QED
      BY <1>2, <2>1 DEF NewConnection, InboxesAreWatched, StandingTasksStay, Running
  <1>3. ASSUME NEW c \in Conn, Send(c) \/ Release(c) PROVE WatchInv'
    <2>1. live' = live
      BY <1>3 DEF Send, Release, live
    <2>2. inbox' \in [Conn -> 0..MaxInbox]
      <3>1. CASE Send(c)
        <4>1. inbox[c] \in 0..MaxInbox /\ delivering[c] \in Nat
          BY DEF TypeOK
        <4>2. inbox[c] + 1 \in 0..MaxInbox
          BY <3>1, <4>1, BoundsAssumption DEF Send
        <4>. QED
          BY <3>1, <4>2 DEF Send, TypeOK
      <3>2. CASE Release(c)
        BY <3>2 DEF Release, TypeOK
      <3>. QED
        BY <1>3, <3>1, <3>2
    <2>3. TypeOK'
      BY <1>3, <2>2 DEF Send, Release, TypeOK
    <2>. QED
      BY <1>3, <2>1, <2>3 DEF Send, Release, InboxesAreWatched, StandingTasksStay, Running
  <1>. QED
    BY <1>1, <1>2, <1>3 DEF Client

\* Tasks that end change neither the list nor live, and a collected connection
\* only leaves live.
LEMMA RuntimeKeepsWatch == ASSUME WatchInv, Runtime PROVE WatchInv'
  <1>. USE DEF WatchInv, loopVars
  <1>1. CASE ChangedEnds \/ ShutdownEnds
    <2>1. live' = live
      BY <1>1 DEF ChangedEnds, ShutdownEnds, WaitEnds, connVars, live
    <2>2. TypeOK'
      BY <1>1 DEF ChangedEnds, ShutdownEnds, WaitEnds, connVars, TypeOK
    <2>. QED
      BY <1>1, <2>1, <2>2 DEF ChangedEnds, ShutdownEnds, WaitEnds, connVars,
                              InboxesAreWatched, StandingTasksStay, Running
  <1>2. ASSUME NEW c \in Conn, DeliverEnds(c) PROVE WatchInv'
    <2>1. live' = live
      BY <1>2 DEF DeliverEnds, live
    <2>2. delivering' \in [Conn -> Nat]
      <3>1. delivering[c] - 1 \in Nat
        BY <1>2 DEF DeliverEnds, TypeOK
      <3>. QED
        BY <1>2, <3>1 DEF DeliverEnds, TypeOK
    <2>3. TypeOK'
      BY <1>2, <2>2 DEF DeliverEnds, TypeOK
    <2>. QED
      BY <1>2, <2>1, <2>3 DEF DeliverEnds, InboxesAreWatched, StandingTasksStay, Running
  <1>3. ASSUME NEW c \in Conn, Collect(c) PROVE WatchInv'
    <2>1. TypeOK'
      BY <1>3 DEF Collect, TypeOK, ConnStates
    <2>. QED
      BY <1>3, <2>1 DEF Collect, InboxesAreWatched, StandingTasksStay, Running
  <1>4. ASSUME NEW c \in Conn, GetEnds(c) PROVE WatchInv'
    <2>1. live' = live
      BY <1>4 DEF GetEnds, live
    <2>2. inbox' \in [Conn -> 0..MaxInbox]
      <3>1. inbox[c] - 1 \in 0..MaxInbox
        BY <1>4, BoundsAssumption DEF GetEnds, TypeOK
      <3>. QED
        BY <1>4, <3>1 DEF GetEnds, TypeOK
    <2>3. TypeOK'
      BY <1>4, <2>2 DEF GetEnds, TypeOK, Task
    <2>. QED
      BY <1>4, <2>1, <2>3 DEF GetEnds, InboxesAreWatched, StandingTasksStay, Running
  <1>. QED
    BY <1>1, <1>2, <1>3, <1>4 DEF Runtime

LEMMA LoopKeepsWatch == ASSUME WatchInv, Loop PROVE WatchInv'
  <1>. USE DEF WatchInv
  <1>1. CASE Wake
    <2>1. live' = live
      BY <1>1 DEF Wake, connVars, live
    <2>2. TypeOK'
      BY <1>1 DEF Wake, connVars, TypeOK, Places
    <2>. QED
      BY <1>1, <2>1, <2>2 DEF Wake, connVars, InboxesAreWatched, StandingTasksStay, Running
  <1>2. CASE Changed
    <2>1. StandingTasks \subseteq taskList
      BY <1>2 DEF Changed, Take, StandingTasksStay
    <2>2. toRemove' \in SUBSET (taskList \cap Conn)
      BY <1>2 DEF Changed, Closed
    <2>3. CASE Closed = {}
      BY <1>2, <2>1, <2>2, <2>3, RefreshWatches DEF Changed
    <2>4. CASE Closed # {}
      <3>1. TypeOK'
        BY <1>2, <2>2, <2>4 DEF Changed, connVars, TypeOK, Places
      <3>. QED
        BY <1>2, <2>1, <2>4, <3>1 DEF Changed, InboxesAreWatched, StandingTasksStay, Running
    <2>. QED
      BY <2>3, <2>4
  <1>3. CASE Gathered
    <2>1. toRemove' \in SUBSET (taskList \cap Conn)
      BY <1>3 DEF Gathered, TypeOK
    <2>. QED
      BY <1>3, <2>1, RefreshWatches DEF Gathered, StandingTasksStay
  <1>4. CASE ShutdownSeen
    <2>1. live' = live
      BY <1>4 DEF ShutdownSeen, connVars, live
    <2>2. TypeOK'
      BY <1>4 DEF ShutdownSeen, connVars, TypeOK, Places
    <2>. QED
      BY <1>4, <2>2 DEF ShutdownSeen, InboxesAreWatched, StandingTasksStay, Running
  <1>5. CASE Close
    <2>1. TypeOK'
      BY <1>5 DEF Close, connVars, TypeOK, Places
    <2>. QED
      BY <1>5, <2>1 DEF Close, InboxesAreWatched, StandingTasksStay, Running
  <1>6. ASSUME NEW c \in Conn, MsgArrived(c) PROVE WatchInv'
    <2>1. live' = live /\ c \notin StandingTasks
      BY <1>6, TasksDiffer DEF MsgArrived, live, StandingTasks
    <2>2. delivering' \in [Conn -> Nat]
      BY <1>6 DEF MsgArrived, TypeOK
    <2>3. TypeOK'
      BY <1>6, <2>2 DEF MsgArrived, Done, TypeOK, Places
    <2>4. StandingTasks \subseteq taskList
      BY <1>6 DEF MsgArrived, Take, StandingTasksStay
    <2>5. StandingTasks \subseteq taskList' /\ taskList \cap live \subseteq taskList'
      BY <1>6, <2>1, <2>4 DEF MsgArrived
    <2>6. changed' \/ live' \subseteq taskList'
      BY <1>6, <2>1, <2>5 DEF MsgArrived, Take, InboxesAreWatched, Running
    <2>. QED
      BY <2>3, <2>5, <2>6 DEF InboxesAreWatched, StandingTasksStay, StandingTasks
  <1>7. ASSUME NEW c \in Conn, KeyError(c) PROVE WatchInv'
    <2>1. TypeOK'
      BY <1>7 DEF KeyError, connVars, TypeOK, Places
    <2>. QED
      BY <1>7, <2>1 DEF KeyError, InboxesAreWatched, StandingTasksStay, Running
  <1>8. ASSUME NEW c \in Conn, Clean(c) PROVE WatchInv'
    <2>1. TypeOK'
      BY <1>8 DEF Clean, connVars, TypeOK, Places
    <2>2. c \notin StandingTasks
      BY TasksDiffer DEF StandingTasks
    <2>. QED
      BY <1>8, <2>1, <2>2 DEF Clean, InboxesAreWatched, StandingTasksStay, Running
  <1>. QED
    BY <1>1, <1>2, <1>3, <1>4, <1>5, <1>6, <1>7, <1>8 DEF Loop

\* No behaviour of the main loop loses a wakeup, however many connections there
\* are: with the type invariant, this is what the run loop checks on three.
THEOREM WatchInvariant == Spec => []WatchInv
  <1>1. ASSUME WatchInv, UNCHANGED vars PROVE WatchInv'
    BY <1>1 DEF vars, connVars, loopVars, WatchInv, TypeOK, InboxesAreWatched,
                StandingTasksStay, Running, live
  <1>2. WatchInv /\ [Next]_vars => WatchInv'
    BY <1>1, ClientKeepsWatch, RuntimeKeepsWatch, LoopKeepsWatch DEF Next
  <1>. QED
    BY WatchInit, <1>2, PTL DEF Spec

\* Every variable of the main loop has its type.
THEOREM LoopTyped == Spec => []TypeOK
  <1>1. WatchInv => TypeOK
    BY DEF WatchInv
  <1>. QED
    BY <1>1, WatchInvariant, PTL

\* The loop watches every inbox in _connectionByREp when it waits, or is about to.
THEOREM NoLostWakeup == Spec => []InboxesAreWatched
  <1>1. WatchInv => InboxesAreWatched
    BY DEF WatchInv
  <1>. QED
    BY <1>1, WatchInvariant, PTL

=============================================================================
