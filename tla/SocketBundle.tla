---------------------------- MODULE SocketBundle ----------------------------
(***************************************************************************)
(* Two routers of one machine and the ipc sockets between them (_core.py:  *)
(* _NngSocketBundle, and the SOCK_RECV branch of Router._mainLoop).        *)
(*                                                                         *)
(* A router routes a message through a pipe it knows, or accumulates it    *)
(* and dials.  When a dialled pipe is up, nng calls _onConnect on a thread *)
(* of its own: it puts the pipe in _pipeByPipeIdByEp, tells the peer who   *)
(* this is (SET_ROUTE_BACK) and sends what has been accumulated, while the *)
(* thread of the event loop goes on.  A step of either is what it does     *)
(* between two accesses to a dictionary that both use.                     *)
(*                                                                         *)
(* Abstractions:                                                           *)
(*  - a bundle keeps its dictionaries by address, and the addresses do not *)
(*    meet in them: this is what two routers keep for each other;          *)
(*  - the main loop and the senders share a thread, and routing does not   *)
(*    suspend: one message at a time is in hand;                           *)
(*  - a pipe delivers in order while it is open, and a message for a pipe  *)
(*    that is closed is dropped without an error (nng, polyamorous mode);  *)
(*    a task of cosend runs at once;                                       *)
(*  - registering a route back is one step: what it could lose between its *)
(*    two accesses, the steps of _onConnect lose already;                  *)
(*  - _localRemoteEpsByPipeId is read for an announcement that repeats     *)
(*    itself only, which no router sends;                                  *)
(*  - a router that shuts down closes its socket: as a crash.              *)
(***************************************************************************)
EXTENDS Integers, Sequences, SequencesExt

CONSTANTS
    MaxSends,       \* bound: MaxSends[r] messages sent by the agents of r
    Strays,         \* those sent to a connection that does not exist
    MaxCrashes,     \* bound: crashes, each followed by a restart or not
    MaxEvents       \* bound: messages sent and crashes together

Router == {"a", "b"}
Peer(r) == IF r = "a" THEN "b" ELSE "a"

\* the n-th message that the agents of a router send
Letter == UNION {{[from |-> r, n |-> n] : n \in 1..MaxSends[r]} : r \in Router}

ASSUME BoundsAssumption ==
    /\ MaxSends \in [Router -> Nat] /\ MaxCrashes \in Nat /\ MaxEvents \in Nat
    /\ Strays \subseteq Letter

\* MSG_NOT_DELIVERED for a stray message: a Msg without replyAddr
Bounce == [from |-> "router", n |-> 0]
\* SET_ROUTE_BACK_TO_ME
Announcement == [from |-> "router", n |-> 1]
Idle == [at |-> "idle"]

VARIABLES
    life,       \* of a router; "deaf": its main loop has ended with an exception
    sent,       \* calls of send so far
    hand,       \* the message that the event loop's thread is routing
    published,  \* _pipeByPipeIdByEp has the peer's address
    routes,     \* and the pipes it has for it, the one used first
    registered, \* _msgAccumulatorByEp: the dial whose accumulator it is, or 0
    dials,      \* what has been queued on the accumulator of each _dial
    pipes,      \* every pipe there has been, and how far its _onConnect is
    arrived,    \* how often a letter has been handed to the peer's _route
    refused,    \* letters whose send has raised ProgrammerError
    crashes

vars == <<life, sent, hand, published, routes, registered, dials, pipes, arrived,
          refused, crashes>>
routeVars == <<published, routes>>
outcomeVars == <<life, sent, arrived, refused, crashes>>

Init ==
    /\ life = [r \in Router |-> "up"]
    /\ sent = [r \in Router |-> 0]
    /\ hand = [r \in Router |-> Idle]
    /\ published = [r \in Router |-> FALSE]
    /\ routes = [r \in Router |-> <<>>]
    /\ registered = [r \in Router |-> 0]
    /\ dials = [r \in Router |-> <<>>]
    /\ pipes = <<>>
    /\ arrived = [m \in Letter |-> 0]
    /\ refused = {}
    /\ crashes = 0

\* m is written to the pipe p by r
Put(ps, p, r, m) ==
    IF ps[p].open THEN [ps EXCEPT ![p].wire[Peer(r)] = Append(@, m)] ELSE ps

\* The dictionary of r's pipes is replaced: an _onConnect that has fetched the
\* old one and not yet used it will add its pipe to that.
Replaced(ps, r) ==
    [p \in DOMAIN ps |->
        IF ps[p].dialer = r /\ ps[p].pc = "add" THEN [ps[p] EXCEPT !.fresh = FALSE] ELSE ps[p]]

----------------------------------------------------------------------------
\* The event loop's thread

MoreEvents == sent["a"] + sent["b"] + crashes < MaxEvents

Take(r, m) == hand' = [hand EXCEPT ![r] = [at |-> "look", message |-> m]]
Handled(r) == hand' = [hand EXCEPT ![r] = Idle]

\* Connection.send and _route, up to _mRoute
Send(r) ==
    /\ life[r] # "down" /\ hand[r] = Idle
    /\ sent[r] < MaxSends[r] /\ MoreEvents
    /\ sent' = [sent EXCEPT ![r] = @ + 1]
    /\ Take(r, [from |-> r, n |-> sent[r] + 1])
    /\ UNCHANGED <<life, routeVars, registered, dials, pipes, arrived, refused, crashes>>

\* _mRoute finds a pipe
RouteByPipe(r) ==
    /\ hand[r].at = "look" /\ hand[r].message # Bounce
    /\ routes[r] # <<>>
    /\ pipes' = Put(pipes, routes[r][1], r, hand[r].message)
    /\ Handled(r)
    /\ UNCHANGED <<routeVars, registered, dials, outcomeVars>>

\* or a dictionary without any: firstValue raises, and so does send
RouteFails(r) ==
    /\ hand[r].at = "look" /\ hand[r].message # Bounce
    /\ published[r] /\ routes[r] = <<>>
    /\ refused' = refused \cup {hand[r].message}
    /\ Handled(r)
    /\ UNCHANGED <<routeVars, registered, dials, pipes, life, sent, arrived, crashes>>

\* A bounce has no replyAddr: looking at it raises, in the main loop.
BounceFails(r) ==
    /\ hand[r].at = "look" /\ hand[r].message = Bounce
    /\ published[r]
    /\ life' = [life EXCEPT ![r] = "deaf"]
    /\ Handled(r)
    /\ UNCHANGED <<routeVars, registered, dials, pipes, sent, arrived, refused, crashes>>

RouteLater(r) ==
    /\ hand[r].at = "look" /\ ~published[r]
    /\ hand' = [hand EXCEPT ![r].at = "fetch"]
    /\ UNCHANGED <<routeVars, registered, dials, pipes, outcomeVars>>

\* faulty: _dial makes no accumulator
FetchOnly(r) ==
    LET dial == IF registered[r] # 0 THEN registered[r] ELSE Len(dials[r]) + 1
    IN  /\ hand[r].at = "fetch"
        /\ registered' = [registered EXCEPT ![r] = dial]
        /\ hand' = [hand EXCEPT ![r] =
                       [at |-> "queue", message |-> hand[r].message, dial |-> dial]]
        /\ UNCHANGED <<routeVars, dials, pipes, outcomeVars>>

\* the accumulator of a dial in progress, or that of a new one
Fetch(r) ==
    LET new == Len(dials[r]) + 1
        dial == IF registered[r] # 0 THEN registered[r] ELSE new
    IN  /\ hand[r].at = "fetch"
        /\ registered' = [registered EXCEPT ![r] = dial]
        /\ dials' = IF dial = new THEN [dials EXCEPT ![r] = Append(@, <<>>)] ELSE dials
        /\ hand' = [hand EXCEPT ![r] =
                       [at |-> "queue", message |-> hand[r].message, dial |-> dial]]
        /\ UNCHANGED <<routeVars, pipes, outcomeVars>>

Queue(r) ==
    /\ hand[r].at = "queue"
    /\ dials' = [dials EXCEPT ![r][hand[r].dial] = Append(@, hand[r].message)]
    /\ Handled(r)
    /\ UNCHANGED <<routeVars, registered, pipes, outcomeVars>>

\* SOCK_RECV
Receives(r, p) ==
    /\ life[r] = "up" /\ hand[r] = Idle
    /\ pipes[p].open /\ pipes[p].wire[r] # <<>>

Received(ps, r, p) == [ps EXCEPT ![p].wire[r] = Tail(@)]

\* faulty: the new dictionary lacks the pipe that is announced
RegisterOldRoutes(r, p) ==
    /\ Receives(r, p) /\ Head(pipes[p].wire[r]) = Announcement
    /\ published' = [published EXCEPT ![r] = TRUE]
    /\ routes' = [routes EXCEPT ![r] = RemoveFirst(@, p)]
    /\ pipes' = Replaced(Received(pipes, r, p), r)
    /\ UNCHANGED <<hand, registered, dials, outcomeVars>>

\* an announced pipe becomes the first, in a new dictionary
RegisterRouteBack(r, p) ==
    /\ Receives(r, p) /\ Head(pipes[p].wire[r]) = Announcement
    /\ published' = [published EXCEPT ![r] = TRUE]
    /\ routes' = [routes EXCEPT ![r] = <<p>> \o RemoveFirst(@, p)]
    /\ pipes' = Replaced(Received(pipes, r, p), r)
    /\ UNCHANGED <<hand, registered, dials, outcomeVars>>

\* _route hands a letter to a connection, or bounces it
Arrive(r, p) ==
    LET m == Head(pipes[p].wire[r])
    IN  /\ Receives(r, p) /\ m # Announcement
        /\ arrived' = [arrived EXCEPT ![m] = @ + 1]
        /\ pipes' = Received(pipes, r, p)
        /\ IF m \in Strays THEN Take(r, Bounce) ELSE UNCHANGED hand
        /\ UNCHANGED <<routeVars, registered, dials, life, sent, refused, crashes>>

----------------------------------------------------------------------------
\* nng and its threads

Connected(r, dial) == \E p \in DOMAIN pipes :
    pipes[p].open /\ pipes[p].dialer = r /\ pipes[p].dial = dial

\* The dialer of a _dial connects, and again when the pipe is closed, and
\* _onOutGoingIpcConnect looks whether the address is published; the end that
\* listens has nothing to do (_onIncomingIpcConnect).
Connect(r, dial) ==
    /\ life[r] # "down" /\ life[Peer(r)] # "down"
    /\ ~Connected(r, dial)
    /\ pipes' = Append(pipes, [dialer |-> r, dial |-> dial, open |-> TRUE,
                               wire |-> [q \in Router |-> <<>>],
                               pc |-> IF published[r] THEN "add" ELSE "create",
                               fresh |-> TRUE, box |-> 0, next |-> 1])
    /\ UNCHANGED <<hand, routeVars, registered, dials, outcomeVars>>

Runs(p, pc) == pipes[p].pc = pc

Create(p) ==
    LET r == pipes[p].dialer
    IN  /\ Runs(p, "create")
        /\ published' = [published EXCEPT ![r] = TRUE]
        /\ routes' = [routes EXCEPT ![r] = <<>>]
        /\ pipes' = [Replaced(pipes, r) EXCEPT ![p].pc = "add"]
        /\ UNCHANGED <<hand, registered, dials, outcomeVars>>

Add(p) ==
    LET r == pipes[p].dialer
    IN  /\ Runs(p, "add")
        /\ routes' = IF pipes[p].fresh THEN [routes EXCEPT ![r] = Append(@, p)] ELSE routes
        /\ pipes' = [pipes EXCEPT ![p].pc = "announce"]
        /\ UNCHANGED <<hand, published, registered, dials, outcomeVars>>

\* faulty: the accumulator stays in _msgAccumulatorByEp
AnnounceAndKeep(p) ==
    LET r == pipes[p].dialer
        box == registered[r]
    IN  /\ Runs(p, "announce")
        /\ pipes' = [Put(pipes, p, r, Announcement) EXCEPT
                        ![p].box = box, ![p].pc = IF box = 0 THEN "done" ELSE "flush"]
        /\ UNCHANGED <<hand, routeVars, registered, dials, outcomeVars>>

\* faulty: what is accumulated is left to the pipe in use
AnnounceOnly(p) ==
    LET r == pipes[p].dialer
        box == IF routes[r] # <<>> /\ routes[r][1] # p THEN 0 ELSE registered[r]
    IN  /\ Runs(p, "announce")
        /\ registered' = [registered EXCEPT ![r] = IF box = 0 THEN @ ELSE 0]
        /\ pipes' = [Put(pipes, p, r, Announcement) EXCEPT
                        ![p].box = box, ![p].pc = IF box = 0 THEN "done" ELSE "flush"]
        /\ UNCHANGED <<hand, routeVars, dials, outcomeVars>>

\* tell the peer and take the accumulator, if there is one
Announce(p) ==
    LET r == pipes[p].dialer
        box == registered[r]
    IN  /\ Runs(p, "announce")
        /\ registered' = [registered EXCEPT ![r] = 0]
        /\ pipes' = [Put(pipes, p, r, Announcement) EXCEPT
                        ![p].box = box, ![p].pc = IF box = 0 THEN "done" ELSE "flush"]
        /\ UNCHANGED <<hand, routeVars, dials, outcomeVars>>

\* The loop over the accumulated messages sees what is queued meanwhile; a
\* bounce raises when it is encoded, and ends the callback.
Flush(p) ==
    LET r == pipes[p].dialer
        box == dials[r][pipes[p].box]
        next == pipes[p].next
    IN  /\ Runs(p, "flush")
        /\ pipes' = IF next > Len(box) \/ box[next] = Bounce
                    THEN [pipes EXCEPT ![p].pc = "done"]
                    ELSE [Put(pipes, p, r, box[next]) EXCEPT ![p].next = @ + 1]
        /\ UNCHANGED <<hand, routeVars, registered, dials, outcomeVars>>

\* The pipes of r are closed.  _onDisconnect looks for the pipe under a key that
\* is never there, so the peer keeps it among its routes.
Crash(r) ==
    /\ life[r] # "down" /\ crashes < MaxCrashes /\ MoreEvents
    /\ crashes' = crashes + 1
    /\ life' = [life EXCEPT ![r] = "down"]
    /\ hand' = [hand EXCEPT ![r] = Idle]
    /\ published' = [published EXCEPT ![r] = FALSE]
    /\ routes' = [routes EXCEPT ![r] = <<>>]
    /\ registered' = [registered EXCEPT ![r] = 0]
    /\ dials' = [dials EXCEPT ![r] = <<>>]
    /\ pipes' = [p \in DOMAIN pipes |->
                    LET closed == [pipes[p] EXCEPT !.open = FALSE, !.wire = [q \in Router |-> <<>>]]
                    IN  IF pipes[p].dialer = r
                        THEN [closed EXCEPT !.pc = "done", !.box = 0, !.next = 1] ELSE closed]
    /\ UNCHANGED <<sent, arrived, refused>>

Restart(r) ==
    /\ life[r] = "down"
    /\ life' = [life EXCEPT ![r] = "up"]
    /\ UNCHANGED <<hand, routeVars, registered, dials, pipes, sent, arrived, refused, crashes>>

----------------------------------------------------------------------------

EventLoop(r) ==
    \/ RouteByPipe(r) \/ RouteFails(r) \/ BounceFails(r) \/ RouteLater(r)
    \/ Fetch(r) \/ Queue(r)

SockRecv(r, p) == RegisterRouteBack(r, p) \/ Arrive(r, p)

OnConnect(p) == Create(p) \/ Add(p) \/ Announce(p) \/ Flush(p)

Next ==
    \/ \E r \in Router : Send(r) \/ EventLoop(r) \/ Crash(r) \/ Restart(r)
    \/ \E r \in Router, p \in DOMAIN pipes : SockRecv(r, p)
    \/ \E r \in Router : \E dial \in DOMAIN dials[r] : Connect(r, dial)
    \/ \E p \in DOMAIN pipes : OnConnect(p)

Spec == Init /\ [][Next]_vars

=============================================================================
