----------------------- MODULE SocketBundleProperties -----------------------
(***************************************************************************)
(* What two routers promise about the messages between them.               *)
(***************************************************************************)
EXTENDS SocketBundle

\* what a router routes, and what is written to a pipe
Routed == Letter \cup {Bounce}
Written == Letter \cup {Announcement}

Hand == {Idle} \cup [at : {"look", "fetch"}, message : Routed]
               \cup [at : {"queue"}, message : Routed, dial : Nat]
Pipe == [dialer : Router, dial : Nat, open : BOOLEAN, wire : [Router -> Seq(Written)],
         pc : {"create", "add", "announce", "flush", "done"},
         fresh : BOOLEAN, box : Nat, next : Nat \ {0}]

\* Every variable has its type.
TypeOK ==
    /\ life \in [Router -> {"up", "deaf", "down"}]
    /\ sent \in [Router -> Nat] /\ \A r \in Router : sent[r] <= MaxSends[r]
    /\ hand \in [Router -> Hand]
    /\ \A r \in Router : hand[r].at = "queue" => hand[r].dial \in DOMAIN dials[r]
    /\ published \in [Router -> BOOLEAN]
    /\ routes \in [Router -> Seq(DOMAIN pipes)]
    /\ registered \in [Router -> Nat]
    /\ \A r \in Router : registered[r] \in {0} \cup DOMAIN dials[r]
    /\ dials \in [Router -> Seq(Seq(Routed))]
    /\ pipes \in Seq(Pipe)
    /\ arrived \in [Letter -> Nat] /\ refused \subseteq Letter
    /\ crashes \in 0..MaxCrashes

\* A letter arrives at most once, whatever is accumulated, sent by a callback,
\* dialled twice or dialled again after a crash.
AtMostOnce == \A m \in Letter : arrived[m] <= 1

\* Once the callbacks of a router have ended, and they run on other threads than
\* its senders, an address it has published has a pipe; none is there twice, and
\* they are all open unless the peer has crashed.
RoutesAreUsable ==
    \A r \in Router :
        (published[r] /\ \A p \in DOMAIN pipes : pipes[p].dialer = r => pipes[p].pc = "done")
        => /\ routes[r] # <<>>
           /\ \A i, j \in DOMAIN routes[r] : routes[r][i] = routes[r][j] => i = j
           /\ crashes = 0 => \A i \in DOMAIN routes[r] : pipes[routes[r][i]].open

(***************************************************************************)
(* Liveness                                                                *)
(***************************************************************************)

\* The event loop runs, nng calls back and its dialers connect.  Nothing is
\* assumed of senders and crashes.
Fairness ==
    /\ \A r \in Router :
        /\ WF_vars(EventLoop(r))
        /\ WF_vars(\E p \in DOMAIN pipes : SockRecv(r, p))
        /\ WF_vars(\E dial \in DOMAIN dials[r] : Connect(r, dial))
    /\ WF_vars(\E p \in DOMAIN pipes : OnConnect(p))

FairSpec == Spec /\ Fairness

\* m was queued on an accumulator that a callback had taken and finished with
\* between _mRoute's look at it and queueMsg
Orphaned(m) ==
    LET r == m.from
    IN  \E i \in DOMAIN dials[r] : \E j \in DOMAIN dials[r][i] :
            /\ dials[r][i][j] = m
            /\ i # registered[r]
            /\ \A p \in DOMAIN pipes :
                    pipes[p].dialer = r /\ pipes[p].box = i
                    => pipes[p].pc = "done" /\ pipes[p].next <= j

\* Between routers that do not crash and whose main loops live there are two ways
\* to lose a letter: send raises, or the letter is orphaned.  Any other arrives,
\* whoever dials, however the connects cross and the callbacks interleave.
LettersAreSettled ==
    \A m \in Letter : (sent[m.from] >= m.n) ~>
        \/ arrived[m] > 0 \/ m \in refused \/ Orphaned(m)
        \/ crashes > 0 \/ life[Peer(m.from)] # "up"

\* A letter to a connection that does not exist comes back as MSG_NOT_DELIVERED:
\* the bounce is written to a pipe.
Bounced == \E p \in DOMAIN pipes : \E r \in Router :
    \E i \in DOMAIN pipes[p].wire[r] : pipes[p].wire[r][i] = Bounce
StrayComesBack == \A m \in Strays : (arrived[m] > 0) ~> Bounced

=============================================================================
