---------------------- MODULE MMFileTransportProperties ----------------------
(***************************************************************************)
(* What the two ends of a memory mapped file connection promise.           *)
(***************************************************************************)
EXTENDS MMFileTransport

\* Every variable has its type.
TypeOK ==
    /\ state \in [End -> States]
    /\ disconnecting \in [End -> Disconnects]
    /\ posted \in [End -> Seq(WindowMessage)]
    /\ file \in [End -> Data \cup {Nothing}]
    /\ isSending \in [End -> BOOLEAN]
    /\ sendQueue \in [End -> Seq(Data)]
    /\ arrived \in [End -> Seq(Data)]
    /\ frames \in [End -> Seq(Frame)]
    /\ timer \in [End -> BOOLEAN]
    /\ sends \in [End -> Nat]
    /\ taken \in [End -> Seq(Data)]
    /\ tooBig \subseteq End

Positions(queue, message) == {i \in 1..Len(queue) : queue[i] = message}

\* The handshake: an end that is not sending has nothing under way, and one
\* that is has at most one InTransit on its way out or one Received on its way
\* back, never both.  This is what keeps a message in the file until it is read,
\* with the file written by one process and read by another.
OneMessageUnderWay ==
    \A e \in End :
        LET out == Positions(posted[Peer(e)], "InTransit")
            back == Positions(posted[e], "Received")
        IN  /\ out = {} \/ back = {}
            /\ \A i, j \in out \cup back : i = j
            /\ ~isSending[e] => out \cup back = {}

(***************************************************************************)
(* Each direction implements Channel.  Under way are the messages the      *)
(* other application has not received, the one in the file, and the send   *)
(* queue while it can still be sent.                                       *)
(***************************************************************************)

UnderWay(e) ==
    IF Positions(posted[Peer(e)], "InTransit") # {} /\ disconnecting[Peer(e)] = "no"
    THEN <<file[e]>> ELSE <<>>

\* What may lose messages of e: one of the ends begins to disconnect or ends, or
\* e has raised "MMFile not big enough for message" and sends nothing any more.
Cut(e) ==
    \/ \E f \in End : disconnecting[f] # "no" \/ state[f] \in {"closed", "crashed"}
    \/ e \in tooBig

Pipe(e) == arrived[Peer(e)] \o UnderWay(e) \o (IF Cut(e) THEN <<>> ELSE sendQueue[e])

FromA == INSTANCE Channel WITH pipe <- Pipe("A"), taken <- taken["B"], cut <- Cut("A")
FromB == INSTANCE Channel WITH pipe <- Pipe("B"), taken <- taken["A"], cut <- Cut("B")

\* Messages are taken once each and in the order of the calls of send, in both
\* directions at a time, whatever is refused, repeated by the timer, or under
\* way when an end disconnects.
ImplementsChannel == FromA!Spec /\ FromB!Spec

(***************************************************************************)
(* Liveness                                                                *)
(***************************************************************************)

\* Windows delivers what is posted and fires timers; callbacks return, and an
\* application that is offered a message or an event again and again receives
\* it in the end.  Nothing is assumed of the calls of send and disconnect.
Fairness ==
    /\ WF_vars(Request)
    /\ \A e \in End :
        /\ WF_vars(Window(e)) /\ WF_vars(Timer(e)) /\ WF_vars(DisconnectTimer(e))
        /\ WF_vars(ConnectedReturns(e)) /\ WF_vars(Refuses(e) \/ Receives(e)) /\ SF_vars(Receives(e))

FairSpec == Spec /\ Fairness

\* Every message sent is taken in the end, unless an end disconnects or a message
\* was too big for the file of its sender: nothing else stops the handshake, and a
\* refused message is offered again.
EveryMessageIsTaken ==
    \A e \in End : \A n \in 1..MaxSends[e] :
        (sends[e] >= n) ~> (Len(taken[Peer(e)]) >= n \/ Cut(e))

\* When an end disconnects, whether its application receives the disconnecting
\* event at once (it is closed) or later (it is asking), a connected other end
\* gets to know, and in the end both are closed.
BothEndsClose ==
    \A e \in End :
        (/\ disconnecting[e] = "asking" \/ state[e] = "closed"
         /\ state[Peer(e)] = "connected") ~>
            (\A f \in End : state[f] \in {"closed", "crashed"})

=============================================================================
