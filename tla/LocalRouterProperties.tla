----------------------- MODULE LocalRouterProperties -----------------------
(***************************************************************************)
(* What a router in LOCAL_MODE promises the clients of its connections.    *)
(***************************************************************************)
EXTENDS LocalRouter

\* Every variable has its type; a message never comes from itself to no one.
TypeOK ==
    /\ conn \in [Conn -> ConnStates]
    /\ inbox \in [Conn -> Seq(Message)]
    /\ seed \in [Conn -> 0..MaxSends]
    /\ call \in [Calls -> CallState]
    /\ entries \in SUBSET Calls
    /\ polled \in SUBSET Conn
    /\ taskListChanged \in BOOLEAN
    /\ ready \in Seq(Message)
    /\ handling \in SUBSET Message
    /\ stage \in Stages

(***************************************************************************)
(* Replies                                                                 *)
(***************************************************************************)

\* The reply a send gets answers that very send: it is addressed to the
\* sender under the id of the send, comes from the connection the send was
\* addressed to or from the router that bounced it, and has a subject the
\* caller accepts.  Ids are only unique per connection and replies are
\* matched by id alone, so this depends on every message in flight.
ReplyIsForItsCall ==
    \A k \in Calls :
        call[k].reply # Missing =>
            /\ call[k].reply.to = k[1]
            /\ call[k].reply.replyTo = k[2]
            /\ call[k].reply.from \in {call[k].to, Nobody}
            /\ call[k].reply.subject \in call[k].accepts

\* An entry is there for a send that still waits without a reply, or for one
\* whose routing raised.  In particular a future found through an entry is
\* never done ("is this possible?" in _deliver: it is not), and a send that
\* has returned has left nothing behind.
EntriesAwaitTheirReply ==
    \A k \in entries :
        /\ call[k].status \in {"waiting", "raised"}
        /\ call[k].reply = Missing

(***************************************************************************)
(* The inductive invariant behind them: what is true of every message in   *)
(* flight (LocalRouterProofs).                                             *)
(***************************************************************************)

\* With the sends in the states calls: k was routed, so the message it sent may
\* be in flight, or a reply to it.
Routed(calls, k) == k \in Calls /\ calls[k].status \notin {"unused", "raised"}

\* m is the request of the send its id names, and if it replies to a send it
\* comes from where that send went, or from the router.
Genuine(calls, m) ==
    /\ m.id \in Ids => /\ Routed(calls, <<m.from, m.id>>)
                       /\ calls[<<m.from, m.id>>].to = m.to
    /\ m.replyTo \in Ids => /\ Routed(calls, <<m.to, m.replyTo>>)
                            /\ m.from \in {calls[<<m.to, m.replyTo>>].to, Nobody}

GenuineBoxes(calls, box) ==
    \A c \in Conn : \A i \in 1..Len(box[c]) :
        Genuine(calls, box[c][i]) /\ box[c][i].to = c

MessagesAreGenuine ==
    /\ GenuineBoxes(call, inbox)
    /\ \A i \in 1..Len(ready) : Genuine(call, ready[i])
    /\ \A m \in handling : Genuine(call, m)

\* Ids are given out in turn, and only a send that waited has a reply.
CallsAreMadeInTurn ==
    \A k \in Calls :
        /\ k[2] > seed[k[1]] => call[k].status = "unused"
        /\ call[k].reply # Missing => call[k].status \in {"waiting", "returned"}

RepliesInv ==
    /\ TypeOK
    /\ MessagesAreGenuine
    /\ CallsAreMadeInTurn
    /\ ReplyIsForItsCall
    /\ EntriesAwaitTheirReply

(***************************************************************************)
(* Refinement                                                              *)
(***************************************************************************)

Phase(k) ==
    CASE call[k].status = "waiting" /\ call[k].reply = Missing -> "asked"
      [] call[k].status = "waiting" /\ call[k].reply # Missing -> "settled"
      [] call[k].status = "returned" -> "done"
      [] OTHER -> "idle"     \* unused, not waiting for a reply, or raised

RR == INSTANCE RequestReply WITH
    Requests <- [to : Conn, accepts : SUBSET Subjects],
    phase <- [k \in Calls |-> Phase(k)],
    ask <- [k \in Calls |-> IF Phase(k) = "idle" THEN Missing
                            ELSE [to |-> call[k].to, accepts |-> call[k].accepts]],
    value <- [k \in Calls |-> call[k].reply],
    closed <- ShutdownTaskDone

\* The connections, the router and its main loop together implement the
\* promise of RequestReply: a call is settled once, by an answer to it, keeps
\* what it returned, and returns Missing once the shutdown task is done.
ImplementsRequestReply == RR!Spec

(***************************************************************************)
(* Liveness                                                                *)
(***************************************************************************)

AgentFinishes(c) ==
    \E m \in handling :
        /\ m.to = c
        /\ \/ \E s \in AppSubjects : AgentReplies(m, s)
           \/ AgentIsDone(m)
           \/ AfterShutdown(m)

\* asyncio runs every task that is ready; the main loop looks at its tasks in
\* turn; handlers end.  Nothing is assumed of clients or of timeouts.
LoopFairness ==
    /\ WF_vars(TaskListChanged)
    /\ WF_vars(Trip)
    /\ WF_vars(Stop)
    /\ WF_vars(Deliver)
    /\ \A c \in Conn : WF_vars(MsgArrived(c)) /\ WF_vars(AgentFinishes(c))
    /\ \A k \in Calls : WF_vars(Resume(k))

FairSpec == Spec /\ LoopFairness

\* Shutting down releases every send that waits: none is left hanging until its
\* timeout, although nobody reads the inboxes any more.
ShutdownReleasesCalls ==
    \A k \in Calls :
        (stage # "running" /\ call[k].status = "waiting") ~> (call[k].status = "returned")

\* No message is on its way; after a shutdown nobody reads the inboxes.
Quiet ==
    \/ (\A c \in Conn : inbox[c] = <<>>) /\ ready = <<>> /\ handling = {}
    \/ stage # "running"

\* Clients make finitely many sends, so what goes on for ever would be messages
\* about messages: PING replies, DOES_NOT_UNDERSTAND, MSG_NOT_DELIVERED.  "Don't
\* get into a loop of undeliverable messages", say _route and _deliver.
NoiseDiesOut == <>[]Quiet

\* A call that accepts MSG_NOT_DELIVERED returns even if its timeout never
\* comes, whatever else happens: it gets an answer to its PING or SHUTDOWN, or
\* learns that its addressee has no handler or does not exist.  Left out are
\* requests whose answer is up to a handler, and an addressee that is collected
\* with the request in its inbox.
EveryCallIsAnswered ==
    \A k \in Calls :
        (/\ call[k].status = "waiting"
         /\ "MSG_NOT_DELIVERED" \in call[k].accepts
         /\ call[k].accepts \cap AppSubjects = {} \/ Fn[call[k].to] = Missing)
            ~> (call[k].status = "returned" \/ call[k].to \in {c \in Conn : conn[c] = "dropped"})

=============================================================================
