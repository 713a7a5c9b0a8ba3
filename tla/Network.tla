------------------------------ MODULE Network ------------------------------
(***************************************************************************)
(* Two routers of two machines and the tcp connections between them        *)
(* (_core.py: _NngSocketBundle in NETWORK_MODE, and the SOCK_RECV branch   *)
(* of Router._mainLoop).                                                   *)
(*                                                                         *)
(* A connection has an address at either end: the one the peer listens on  *)
(* and a random port of the router that dialled.  A message leaves its     *)
(* agent without a machine in its replyAddr; somebody on its way puts one  *)
(* in, and the answer goes there.  nng calls back, on threads of its own,  *)
(* at both ends of a new connection, while messages already flow.          *)
(*                                                                         *)
(* Abstractions, besides those of SocketBundle.tla, which shows what is    *)
(* lost between the accesses to a dictionary that are one step here:       *)
(*  - the event loop's thread routes a message in one step, and a callback *)
(*    takes an accumulator and sends what it holds in one step;            *)
(*  - what is written to a connection that is cut stays on it for ever;    *)
(*  - an answer that is routed to a router other than the sender's is not  *)
(*    followed further;                                                    *)
(*  - every letter is for a connection that exists (SocketBundle.tla has   *)
(*    the other ones), so that nothing bounces;                            *)
(*  - a router begins to listen and notes its address in one step.         *)
(***************************************************************************)
EXTENDS Integers, Sequences, FiniteSets, SequencesExt

CONSTANTS
    MaxSends,   \* bound: MaxSends[r] letters sent by the agents of r
    MaxEvents,  \* bound: attempts to listen and connections that are cut, together
    MaxPipes    \* bound: connections

Router == {"a", "b"}
Peer(r) == IF r = "a" THEN "b" ELSE "a"
Letter == UNION {{[from |-> r, n |-> n] : n \in 1..MaxSends[r]} : r \in Router}

ASSUME BoundsAssumption ==
    MaxSends \in [Router -> Nat] /\ MaxEvents \in Nat /\ MaxPipes \in Nat

\* port 0 is the one a router listens on, port p its end of a pipe p it dialled
Addr == [of : Router, port : 0..MaxPipes]
Listening(r) == [of |-> r, port |-> 0]
NoAddr == [of |-> "none", port |-> 0]

Message(kind, letter, to) == [kind |-> kind, letter |-> letter, to |-> to, back |-> NoAddr]
\* SET_ROUTE_BACK_TO_ME
Announcement == [kind |-> "announcement"]

VARIABLES
    life,       \* "up", "deaf": its main loop has ended; "stuck" in _listen
    nEps,       \* addresses a router takes for its own
    sent,       \* letters sent so far
    routes,     \* _pipeByPipeIdByEp, <<>> where it has no key
    known,      \* keys of _localRemoteEpsByPipeId
    waiting,    \* _msgAccumulatorByEp, <<>> where it has no key
    dials,      \* the address of every _dial
    pipes,      \* every pipe there has been, and how far its callbacks are
    due,        \* letters that the agents of a router have yet to answer
    arrived,    \* how often a letter has reached an agent
    answered,   \* how often its answer has come to the router that sent it
    bare,       \* letters written to a pipe without a reply address
    early,      \* letters answered to a random port before a callback has made it known
    late        \* history: letters that, or whose answers, a router has written to a
                \* pipe after its _onDisconnect

vars == <<life, nEps, sent, routes, known, waiting, dials, pipes, due, arrived,
          answered, bare, early, late>>
outcomeVars == <<arrived, answered>>
traffic == <<sent, waiting, dials, due, outcomeVars, bare, early, late>>

Init ==
    /\ life = [r \in Router |-> "up"]
    /\ nEps = [r \in Router |-> {}]
    /\ sent = [r \in Router |-> 0]
    /\ routes = [r \in Router |-> [a \in Addr |-> <<>>]]
    /\ known = [r \in Router |-> {}]
    /\ waiting = [r \in Router |-> [a \in Addr |-> <<>>]]
    /\ dials = [r \in Router |-> <<>>]
    /\ pipes = <<>>
    /\ due = [r \in Router |-> {}]
    /\ arrived = [m \in Letter |-> 0]
    /\ answered = [m \in Letter |-> 0]
    /\ bare = {} /\ early = {} /\ late = {}

\* The addresses of a pipe, seen from r.
Local(r, p) == [of |-> r, port |-> IF pipes[p].dialer = r THEN p ELSE 0]
Remote(r, p) == [of |-> Peer(r), port |-> IF pipes[p].dialer = r THEN 0 ELSE p]

Listens(r) == Listening(r) \in nEps[r]

\* faulty: the address at the other end
OwnRemote(r, p) == IF Listens(r) THEN Listening(r) ELSE Remote(r, p)

\* the reply address of a message that r writes to p
Own(r, p) == IF Listens(r) THEN Listening(r) ELSE Local(r, p)

Addressed(m, a) == IF m.back = NoAddr THEN [m EXCEPT !.back = a] ELSE m
Put(ps, p, r, ms) == [ps EXCEPT ![p].wire[Peer(r)] = @ \o ms]

----------------------------------------------------------------------------
\* Router._route, with the pipes ps

\* to an agent of this router; an answer whose address is this router's by
\* mistake goes nowhere
Deliver(ps, r, m) ==
    /\ m.to \in nEps[r]
    /\ arrived' = IF m.kind = "letter" THEN [arrived EXCEPT ![m.letter] = @ + 1] ELSE arrived
    /\ answered' = IF m.kind = "answer" /\ m.letter.from = r
                   THEN [answered EXCEPT ![m.letter] = @ + 1] ELSE answered
    /\ pipes' = ps
    /\ UNCHANGED <<waiting, dials, bare, early, late>>

\* _nRoute has a pipe, and a reply address for a message that needs one
HasRoute(r, m) ==
    routes[r][m.to] # <<>> /\ (m.back = NoAddr => routes[r][m.to][1] \in known[r])

\* It writes what has been accumulated, as it is, and then the message.
RouteByPipe(ps, r, m) ==
    LET p == routes[r][m.to][1]
        box == waiting[r][m.to]
    IN  /\ m.to \notin nEps[r] /\ HasRoute(r, m)
        /\ pipes' = Put(ps, p, r, Append(box, Addressed(m, Own(r, p))))
        /\ bare' = bare \cup {w.letter : w \in {w \in ToSet(box) : w.kind = "letter"}}
        /\ late' = IF ps[p].pc[r] = "gone"
                   THEN late \cup {m.letter} \cup {w.letter : w \in ToSet(box)} ELSE late
        /\ waiting' = [waiting EXCEPT ![r][m.to] = <<>>]
        /\ UNCHANGED <<dials, outcomeVars, early>>

\* for ever: nothing looks at the timeout
Dial(r, a) == dials' = [dials EXCEPT ![r] = Append(@, a)]

\* it accumulates the message, and dials unless a dial is in progress
RouteLater(ps, r, m) ==
    /\ m.to \notin nEps[r] /\ ~HasRoute(r, m)
    /\ waiting' = [waiting EXCEPT ![r][m.to] = Append(@, m)]
    /\ IF waiting[r][m.to] = <<>> THEN Dial(r, m.to) ELSE UNCHANGED dials
    /\ early' = IF m.to.port # 0 /\ ps[m.to.port].pc[r] \in {"add", "learn", "name"}
                THEN early \cup {m.letter} ELSE early
    /\ pipes' = ps
    /\ UNCHANGED <<outcomeVars, bare, late>>

Route(ps, r, m) == Deliver(ps, r, m) \/ RouteByPipe(ps, r, m) \/ RouteLater(ps, r, m)

----------------------------------------------------------------------------
\* The event loop's thread

Free(r) == life[r] # "stuck"

MoreEvents ==
    Cardinality({r \in Router : Listens(r) \/ ~Free(r)}) + Cardinality({p \in DOMAIN pipes : ~pipes[p].open})
        < MaxEvents

\* nEpListen
Listen(r) ==
    /\ Free(r) /\ ~Listens(r) /\ MoreEvents
    /\ nEps' = [nEps EXCEPT ![r] = @ \cup {Listening(r)}]
    /\ UNCHANGED <<traffic, life, routes, known, pipes>>

\* or another program listens there: a template without {N} names one address for
\* every id, and the loop goes round when the second id finds it in _addressesInUse
ListenHangs(r) ==
    /\ Free(r) /\ ~Listens(r) /\ MoreEvents
    /\ life' = [life EXCEPT ![r] = "stuck"]
    /\ UNCHANGED <<traffic, nEps, routes, known, pipes>>

Send(r) ==
    /\ Free(r) /\ sent[r] < MaxSends[r]
    /\ sent' = [sent EXCEPT ![r] = @ + 1]
    /\ Route(pipes, r, Message("letter", [from |-> r, n |-> sent[r] + 1], Listening(Peer(r))))
    /\ UNCHANGED <<life, nEps, routes, known, due>>

Answer(r, m) ==
    /\ Free(r) /\ m \in due[r]
    /\ due' = [due EXCEPT ![r] = @ \ {m}]
    /\ Route(pipes, r, Message("answer", m.letter, m.back))
    /\ UNCHANGED <<life, nEps, sent, routes, known>>

\* SOCK_RECV
Receives(r, p) == life[r] = "up" /\ pipes[p].open /\ pipes[p].wire[r] # <<>>
First(r, p) == Head(pipes[p].wire[r])
Received(r, p) == [pipes EXCEPT ![p].wire[r] = Tail(@)]

\* An announcement is heard only before the callback has learned the addresses of
\* the pipe; the pipe becomes the first for the address announced.
RegisterRouteBack(r, p) ==
    /\ Receives(r, p) /\ First(r, p) = Announcement
    /\ pipes' = Received(r, p)
    /\ IF p \in known[r] THEN UNCHANGED <<routes, known>>
       ELSE /\ routes' = [routes EXCEPT ![r][Listening(Peer(r))] = <<p>> \o RemoveFirst(@, p)]
            /\ known' = [known EXCEPT ![r] = @ \cup {p}]
    /\ UNCHANGED <<traffic, life, nEps>>

\* A message without a reply address gets the one at this end of the pipe.
Receive(r, p) ==
    /\ Receives(r, p) /\ First(r, p) # Announcement
    /\ First(r, p).back # NoAddr \/ p \in known[r]
    /\ LET m == Addressed(First(r, p), Local(r, p))
       IN  /\ Route(Received(r, p), r, m)
           /\ due' = IF m.kind = "letter" /\ m.to \in nEps[r]
                     THEN [due EXCEPT ![r] = @ \cup {m}] ELSE due
    /\ UNCHANGED <<life, nEps, sent, routes, known>>

\* KeyError, when the callback has not learned it yet
ReceiveFails(r, p) ==
    /\ Receives(r, p) /\ First(r, p) # Announcement
    /\ First(r, p).back = NoAddr /\ p \notin known[r]
    /\ life' = [life EXCEPT ![r] = "deaf"]
    /\ pipes' = Received(r, p)
    /\ UNCHANGED <<traffic, nEps, routes, known>>

----------------------------------------------------------------------------
\* nng and its threads

Connected(r, dial) == \E p \in DOMAIN pipes :
    pipes[p].open /\ pipes[p].dialer = r /\ pipes[p].dial = dial

\* The dialer of a _dial connects, and again when the pipe is cut; nobody listens
\* on a random port.
Connect(r, dial) ==
    /\ dials[r][dial].port = 0 /\ dials[r][dial] \in nEps[Peer(r)]
    /\ ~Connected(r, dial) /\ Len(pipes) < MaxPipes
    /\ pipes' = Append(pipes, [dialer |-> r, dial |-> dial, open |-> TRUE,
                               wire |-> [q \in Router |-> <<>>], pc |-> [q \in Router |-> "add"]])
    /\ UNCHANGED <<traffic, life, nEps, routes, known>>

Step(r, p, from, to) == pipes[p].pc[r] = from /\ pipes' = [pipes EXCEPT ![p].pc[r] = to]

\* both callbacks
Add(r, p) ==
    /\ Step(r, p, "add", "learn")
    /\ routes' = [routes EXCEPT ![r][Remote(r, p)] = IF p \in ToSet(@) THEN @ ELSE Append(@, p)]
    /\ UNCHANGED <<traffic, life, nEps, known>>

Learn(r, p) ==
    /\ Step(r, p, "learn", IF pipes[p].dialer = r THEN "name" ELSE "done")
    /\ known' = [known EXCEPT ![r] = @ \cup {p}]
    /\ UNCHANGED <<traffic, life, nEps, routes>>

\* faulty: the random port is not the router's own
NameNothing(r, p) ==
    Step(r, p, "name", "announce") /\ UNCHANGED <<traffic, life, nEps, routes, known>>

\* faulty: the address at the other end is taken for the router's own
NameRemote(r, p) ==
    /\ Step(r, p, "name", "announce")
    /\ nEps' = [nEps EXCEPT ![r] = @ \cup {Remote(r, p)}]
    /\ UNCHANGED <<traffic, life, routes, known>>

\* _onOutGoingTcpConnect goes on
Name(r, p) ==
    /\ Step(r, p, "name", "announce")
    /\ nEps' = [nEps EXCEPT ![r] = @ \cup {Local(r, p)}]
    /\ UNCHANGED <<traffic, life, routes, known>>

Write(r, p, box) ==
    /\ pipes[p].pc[r] = "announce"
    /\ LET greeting == IF Listens(r) THEN <<Announcement>> ELSE <<>>
           letters == [i \in DOMAIN box |-> Addressed(box[i], Own(r, p))]
       IN  pipes' = [Put(pipes, p, r, greeting \o letters) EXCEPT ![p].pc[r] = "done"]
    /\ UNCHANGED <<life, nEps, sent, routes, known, dials, due, outcomeVars, bare, early, late>>

\* faulty: the accumulator stays in _msgAccumulatorByEp
AnnounceAndKeep(r, p) == Write(r, p, waiting[r][Remote(r, p)]) /\ UNCHANGED waiting

\* tell the peer, if there is an address to tell, and send what is accumulated
Announce(r, p) ==
    /\ Write(r, p, waiting[r][Remote(r, p)])
    /\ waiting' = [waiting EXCEPT ![r][Remote(r, p)] = <<>>]

Cut(p) ==
    /\ pipes[p].open /\ MoreEvents
    /\ pipes' = [pipes EXCEPT ![p].open = FALSE]
    /\ UNCHANGED <<traffic, life, nEps, routes, known>>

\* faulty: the pipe stays known, and the first of its routes
ForgetNothing(r, p) ==
    /\ ~pipes[p].open /\ Step(r, p, "done", "gone")
    /\ UNCHANGED <<traffic, life, nEps, routes, known>>

\* _onDisconnect: the pipe stays among the routes, where it is looked for under a
\* key that is never there
Forget(r, p) ==
    /\ ~pipes[p].open /\ Step(r, p, "done", "gone")
    /\ known' = [known EXCEPT ![r] = @ \ {p}]
    /\ UNCHANGED <<traffic, life, nEps, routes>>

----------------------------------------------------------------------------

Agents(r) == Listen(r) \/ ListenHangs(r) \/ Send(r) \/ \E m \in due[r] : Answer(r, m)
SockRecv(r, p) == RegisterRouteBack(r, p) \/ Receive(r, p) \/ ReceiveFails(r, p)
Callback(r, p) == Add(r, p) \/ Learn(r, p) \/ Name(r, p) \/ Announce(r, p) \/ Forget(r, p)

Next ==
    \/ \E r \in Router : Agents(r) \/ \E dial \in DOMAIN dials[r] : Connect(r, dial)
    \/ \E p \in DOMAIN pipes : Cut(p) \/ \E r \in Router : SockRecv(r, p) \/ Callback(r, p)

Spec == Init /\ [][Next]_vars

=============================================================================
