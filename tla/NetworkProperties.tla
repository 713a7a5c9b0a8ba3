------------------------- MODULE NetworkProperties -------------------------
(***************************************************************************)
(* What two routers of two machines promise about letters and answers.     *)
(***************************************************************************)
EXTENDS Network

Kind == {"letter", "answer"}
Carried == [kind : Kind, letter : Letter, to : Addr, back : Addr \cup {NoAddr}]
\* letters that an agent may answer
Answerable == {w \in Carried : w.kind = "letter" /\ w.back # NoAddr}
Written == Carried \cup {Announcement}
Stage == {"add", "learn", "name", "announce", "done", "gone"}
Pipe == [dialer : Router, dial : Nat, open : BOOLEAN, wire : [Router -> Seq(Written)],
         pc : [Router -> Stage]]

\* Every variable has its type; a router takes only addresses of its own for its own.
TypeOK ==
    /\ life \in [Router -> {"up", "deaf", "stuck"}]
    /\ nEps \in [Router -> SUBSET Addr] /\ \A r \in Router : \A a \in nEps[r] : a.of = r
    /\ sent \in [Router -> Nat] /\ \A r \in Router : sent[r] <= MaxSends[r]
    /\ routes \in [Router -> [Addr -> Seq(DOMAIN pipes)]]
    /\ known \in [Router -> SUBSET DOMAIN pipes]
    /\ waiting \in [Router -> [Addr -> Seq(Carried)]]
    /\ dials \in [Router -> Seq(Addr)]
    /\ pipes \in Seq(Pipe) /\ Len(pipes) <= MaxPipes
    /\ due \in [Router -> SUBSET Answerable]
    /\ arrived \in [Letter -> Nat] /\ answered \in [Letter -> Nat]
    /\ bare \subseteq Letter /\ early \subseteq Letter /\ late \subseteq Letter

\* A letter is handed to an agent at most once, and its answer to the sender,
\* whatever is accumulated, sent by a callback or a sender, and dialled again.
AtMostOnce == \A m \in Letter : arrived[m] <= 1 /\ answered[m] <= 1

\* The address to which a letter will be answered is one of its sender's, which
\* the sender takes for its own or is about to ("assign the repyAddr.nEp to the
\* random port one"): the address it listens on or its end of a connection it
\* has dialled.  The exception is a letter that _nRoute takes out of an
\* accumulator and writes as it is: then the receiver fills in its own.
ReplyAddressIsTheSenders ==
    \A r \in Router : \A m \in due[r] :
        \/ m.letter \in bare
        \/ m.back \in nEps[m.letter.from]
        \/ \E p \in DOMAIN pipes :
            /\ m.back = Local(m.letter.from, p)
            /\ pipes[p].pc[m.letter.from] = "name"

(***************************************************************************)
(* Liveness                                                                *)
(***************************************************************************)

\* As long as an event loop, an agent or nng has something to do, one of them does
\* it; listening, sending and cuts may never happen.
Work ==
    \/ \E p \in DOMAIN pipes : \E r \in Router : SockRecv(r, p) \/ Callback(r, p)
    \/ \E r \in Router : \E m \in due[r] : Answer(r, m)
    \/ \E r \in Router : \E dial \in DOMAIN dials[r] : Connect(r, dial)

FairSpec == Spec /\ WF_vars(Work)

\* m or its answer was on a connection when it was cut, or has been written to it
\* before its router got to know (_onDisconnect), or waits for the connection's
\* random port to be dialled
Lost(kind, m) == m \notin late /\ \E p \in DOMAIN pipes : \E r \in Router :
    /\ ~pipes[p].open
    /\ \E w \in ToSet(pipes[p].wire[r] \o waiting[r][[of |-> Peer(r), port |-> p]]) :
        w.kind = kind /\ w.letter = m

\* The number of letters is bounded, and what is said of one below stays true once
\* it is: so all are settled in the end, and stay so.

\* A letter to a router that listens arrives, unless it was on a connection when
\* that was cut, was written to it before its sender noticed, or finds the main
\* loop dead.  One that is sent after a cut has been noticed is not excused: it
\* gets a connection of its own, although the dead pipe is still the first among
\* the routes.
LettersAreSettled == <>[] \A m \in Letter :
    sent[m.from] >= m.n /\ Listens(Peer(m.from)) =>
        \/ arrived[m] > 0 \/ Lost("letter", m)
        \/ life[Peer(m.from)] # "up"

\* The answer to a letter that has arrived comes to its sender, listening or not
\* ("tell the other end who we are if we are listening on a known network nEp else
\* don't tell them anything"), in the same cases, unless the letter travelled
\* without an address or the answer overtook a callback.
AnswersAreSettled == <>[] \A m \in Letter :
    arrived[m] > 0 =>
        \/ answered[m] > 0 \/ Lost("answer", m) \/ m \in bare \cup early
        \/ \E r \in Router : life[r] # "up"

=============================================================================
