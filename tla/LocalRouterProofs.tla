------------------------- MODULE LocalRouterProofs -------------------------
(***************************************************************************)
(* Proofs about LocalRouter, for any number of connections, of sends and   *)
(* for any handlers: its invariants, and that it implements RequestReply.  *)
(***************************************************************************)
EXTENDS LocalRouterProperties, TLAPS

Inboxes == [Conn -> Seq(Message)]

\* Replying to a message that has a sender makes a message; so does bouncing it.
LEMMA ReplyType ==
    ASSUME NEW m \in Message, NEW s \in Subjects, m.from \in Conn
    PROVE  Reply(m, s) \in Message /\ Bounce(m) \in Message
<1>1. Reply(m, s) \in Message
  BY DEF Reply, Message, AnonId, NotAReply, Ids
<1>2. Bounce(m) \in Message
  BY DEF Bounce, Reply, Message, AnonId, NotAReply, Ids, Subjects, SystemSubjects
<1> QED
  BY <1>1, <1>2

\* Routing puts messages in inboxes and nothing else.
LEMMA RouteType ==
    ASSUME NEW box \in Inboxes, NEW m \in Message
    PROVE  Route(box, m) \in Inboxes
<1>1. CASE m.to \in open
  <2>0. m.to \in Conn
    BY DEF Message
  <2>1. Append(box[m.to], m) \in Seq(Message)
    BY <2>0 DEF Inboxes
  <2> QED
    BY <1>1, <2>1 DEF Route, Inboxes
<1>2. CASE m.to \notin open /\ m.subject # "MSG_NOT_DELIVERED" /\ m.from \in open
  <2>1. m.from \in Conn
    BY <1>2 DEF open
  <2>2. Bounce(m) \in Message
    BY <2>1, ReplyType DEF Subjects, SystemSubjects
  <2>3. Append(box[m.from], Bounce(m)) \in Seq(Message)
    BY <2>1, <2>2 DEF Inboxes
  <2> QED
    BY <1>2, <2>3 DEF Route, Inboxes
<1>3. CASE m.to \notin open /\ ~(m.subject # "MSG_NOT_DELIVERED" /\ m.from \in open)
  BY <1>3 DEF Route
<1> QED
  BY <1>1, <1>2, <1>3

LEMMA AnswerType ==
    ASSUME NEW box \in Inboxes, NEW m \in Message, NEW s \in Subjects
    PROVE  Answer(box, m, s) \in Inboxes
<1>1. CASE m.from = Nobody
  BY <1>1 DEF Answer
<1>2. CASE m.from # Nobody
  <2>1. m.from \in Conn
    BY <1>2 DEF Message
  <2>2. Reply(m, s) \in Message
    BY <2>1, ReplyType
  <2> QED
    BY <1>2, <2>2, RouteType DEF Answer
<1> QED
  BY <1>1, <1>2

\* The instructions leave the inboxes well formed.
LEMMA InstructionsType ==
    ASSUME NEW box \in Inboxes, NEW m \in Message
    PROVE  Pinged(box, m) \in Inboxes /\ NotUnderstood(box, m) \in Inboxes
<1> {"PING", "DOES_NOT_UNDERSTAND"} \subseteq Subjects
  BY DEF Subjects, SystemSubjects
<1>1. Answer(box, m, "PING") \in Inboxes
  BY AnswerType
<1>2. Answer(box, m, "DOES_NOT_UNDERSTAND") \in Inboxes
  BY AnswerType
<1> QED
  BY <1>1, <1>2 DEF Pinged, NotUnderstood

\* A request of a client is a message.
LEMMA RequestType ==
    ASSUME TypeOK, NEW c \in Callers, NEW to \in Conn, NEW s \in ClientSubjects,
           seed[c] < MaxSends
    PROVE  /\ Request(c, to, s) \in Message
           /\ <<c, seed[c] + 1>> \in Calls
<1>1. c \in Conn /\ MaxSends \in Nat
  BY BoundsAssumption
<1>2. seed[c] \in 0..MaxSends
  BY <1>1 DEF TypeOK
<1>3. seed[c] + 1 \in Ids
  BY <1>1, <1>2 DEF Ids
<1>4. s \in Subjects
  BY DEF ClientSubjects, Subjects, SystemSubjects
<1> QED
  BY <1>1, <1>3, <1>4 DEF Request, Message, Calls, NotAReply

LEMMA SubjectNames ==
    {"PING", "SHUTDOWN", "MSG_NOT_DELIVERED", "DOES_NOT_UNDERSTAND"} \subseteq Subjects
BY DEF Subjects, SystemSubjects

\* The actions of clients keep the types.
LEMMA ClientType ==
    ASSUME TypeOK, Client
    PROVE  TypeOK'
<1> USE DEF TypeOK
<1>1. PICK c \in Conn :
        \/ NewConnection(c)
        \/ Drop(c)
        \/ \E to \in Conn, s \in ClientSubjects : Cast(c, to, s)
        \/ \E to \in Conn, s \in ClientSubjects, a \in Additional : Call(c, to, s, a)
        \/ \E s \in ClientSubjects : CallElsewhere(c, s)
  BY DEF Client
<1>2. CASE NewConnection(c)
  BY <1>2 DEF NewConnection, clientVars, ConnStates
<1>3. CASE Drop(c)
  <2>1. inbox' \in [Conn -> Seq(Message)]
    BY <1>3 DEF Drop
  <2> QED
    BY <1>3, <2>1 DEF Drop, ConnStates
<1>4. ASSUME NextSend(c)
      PROVE  c \in Callers /\ seed' \in [Conn -> 0..MaxSends]
  <2>1. c \in Callers /\ seed[c] < MaxSends /\ seed[c] \in 0..MaxSends
    BY <1>4 DEF NextSend
  <2>2. seed[c] + 1 \in 0..MaxSends
    BY <2>1, BoundsAssumption
  <2> QED
    BY <1>4, <2>1, <2>2 DEF NextSend
<1>5. ASSUME NEW to \in Conn, NEW s \in ClientSubjects, Cast(c, to, s)
      PROVE  TypeOK'
  <2>1. NextSend(c)
    BY <1>5 DEF Cast
  <2>2. Request(c, to, s) \in Message /\ <<c, seed[c] + 1>> \in Calls
    BY <1>4, <2>1, RequestType DEF NextSend
  <2>3. inbox' \in Inboxes
    BY <1>5, <2>2, RouteType DEF Cast, Inboxes
  <2>4. Sent("cast", to, {}) \in CallState
    BY DEF Sent, CallState
  <2>5. call' \in [Calls -> CallState]
    BY <1>5, <2>4 DEF Cast
  <2> QED
    BY <1>4, <1>5, <2>1, <2>3, <2>5 DEF Cast, Inboxes, loopVars
<1>6. ASSUME NEW to \in Conn, NEW s \in ClientSubjects, NEW a \in Additional,
             Call(c, to, s, a)
      PROVE  TypeOK'
  <2>1. NextSend(c)
    BY <1>6 DEF Call
  <2>2. Request(c, to, s) \in Message /\ <<c, seed[c] + 1>> \in Calls
    BY <1>4, <2>1, RequestType DEF NextSend
  <2>3. inbox' \in Inboxes
    BY <1>6, <2>2, RouteType DEF Call, Inboxes
  <2>4. {s} \cup a \in SUBSET Subjects
    BY SubjectNames DEF ClientSubjects, Additional, Subjects
  <2>5. Sent("waiting", to, {s} \cup a) \in CallState
    BY <2>4 DEF Sent, CallState
  <2>6. call' \in [Calls -> CallState]
    BY <1>6, <2>5 DEF Call
  <2>7. entries' \in SUBSET Calls
    BY <1>6, <2>2 DEF Call
  <2> QED
    BY <1>4, <1>6, <2>1, <2>3, <2>6, <2>7 DEF Call, Inboxes, loopVars
<1>7. ASSUME NEW s \in ClientSubjects, CallElsewhere(c, s)
      PROVE  TypeOK'
  <2>1. NextSend(c)
    BY <1>7 DEF CallElsewhere
  <2>2. <<c, seed[c] + 1>> \in Calls
    BY <1>4, <2>1, RequestType, ConnAssumption DEF NextSend, Calls, Ids
  <2>4. {s} \in SUBSET Subjects
    BY SubjectNames DEF ClientSubjects, Subjects
  <2>5. Sent("raised", Nobody, {s}) \in CallState
    BY <2>4 DEF Sent, CallState
  <2>6. call' \in [Calls -> CallState]
    BY <1>7, <2>5 DEF CallElsewhere
  <2>7. entries' \in SUBSET Calls
    BY <1>7, <2>2 DEF CallElsewhere
  <2> QED
    BY <1>4, <1>7, <2>1, <2>6, <2>7 DEF CallElsewhere, loopVars
<1> QED
  BY <1>1, <1>2, <1>3, <1>5, <1>6, <1>7

\* So do the steps of the waiting senders, of the main loop and of agents.
LEMMA WaiterType ==
    ASSUME TypeOK, Waiter
    PROVE  TypeOK'
<1>1. PICK k \in Calls : Resume(k) \/ TimeOut(k) \/ Cancel(k)
  BY DEF Waiter
<1>2. PICK res \in Message \cup {Missing} : ReturnWith(k, res)
  <2>1. call[k].reply \in Message \cup {Missing}
    BY DEF TypeOK, CallState
  <2> QED
    BY <1>1, <2>1 DEF Resume, TimeOut, Cancel
<1>3. [call[k] EXCEPT !.status = "returned", !.reply = res] \in CallState
  BY DEF TypeOK, CallState
<1>4. call' \in [Calls -> CallState]
  BY <1>2, <1>3 DEF ReturnWith, TypeOK
<1>5. entries' \in SUBSET Calls
  BY <1>2 DEF ReturnWith, TypeOK
<1> QED
  BY <1>2, <1>4, <1>5 DEF ReturnWith, TypeOK, loopVars

\* shutdown() leaves every connection in one of its states.
LEMMA ShutdownType ==
    ASSUME TypeOK, ShutsTheRouterDown
    PROVE  conn' \in [Conn -> ConnStates] /\ stage' \in Stages
BY DEF TypeOK, ShutsTheRouterDown, ConnStates, Stages

LEMMA MainLoopType ==
    ASSUME TypeOK, MainLoop \/ Shutdown \/ Trip
    PROVE  TypeOK'
<1> USE DEF TypeOK, clientVars, Stages
<1>1. CASE TaskListChanged
  BY <1>1 DEF TaskListChanged, live, open
<1>2. CASE Stop
  BY <1>2 DEF Stop
<1>3. ASSUME NEW c \in Conn, MsgArrived(c)
      PROVE  TypeOK'
  <2>1. Tail(inbox[c]) \in Seq(Message) /\ Head(inbox[c]) \in Message
    BY <1>3 DEF MsgArrived
  <2>2. inbox' \in [Conn -> Seq(Message)]
    BY <1>3, <2>1 DEF MsgArrived
  <2>3. Append(ready, Head(inbox[c])) \in Seq(Message)
    BY <2>1
  <2>4. ready' \in Seq(Message)
    BY <1>3, <2>3 DEF MsgArrived
  <2> QED
    BY <1>3, <2>2, <2>4 DEF MsgArrived
<1>4. CASE Shutdown
  BY <1>4, ShutdownType DEF Shutdown, Inboxes
<1>5. CASE Trip
  BY <1>5 DEF Trip
<1> QED
  BY <1>1, <1>2, <1>3, <1>4, <1>5 DEF MainLoop

LEMMA AgentType ==
    ASSUME TypeOK, Agent
    PROVE  TypeOK'
<1>1. PICK m \in handling :
        \/ \E s \in AppSubjects : AgentReplies(m, s)
        \/ AgentIsDone(m)
        \/ AfterShutdown(m)
  BY DEF Agent
<1>2. m \in Message /\ inbox \in Inboxes
  BY DEF TypeOK, Inboxes
<1>3. CASE \E s \in AppSubjects : AgentReplies(m, s)
  <2>1. PICK s \in AppSubjects : AgentReplies(m, s)
    BY <1>3
  <2>2. inbox' \in Inboxes
    BY <1>2, <2>1, AnswerType DEF AgentReplies, Subjects
  <2> QED
    BY <2>1, <2>2 DEF AgentReplies, TypeOK, Inboxes, clientVars, loopVars
<1>4. CASE AgentIsDone(m)
  BY <1>4 DEF AgentIsDone, TypeOK, clientVars, loopVars
<1>5. CASE AfterShutdown(m)
  <2>1. inbox' \in Inboxes
    BY <1>2, <1>5, InstructionsType DEF AfterShutdown
  <2> QED
    BY <1>5, <2>1 DEF AfterShutdown, TypeOK, Inboxes, clientVars, loopVars
<1> QED
  BY <1>1, <1>3, <1>4, <1>5

\* What a handler does with a message.
LEMMA HandleType ==
    ASSUME TypeOK, NEW m \in Message, Handle(m)
    PROVE  /\ inbox' \in Inboxes
           /\ handling' \in SUBSET Message
           /\ stage' \in Stages
           /\ conn' \in [Conn -> ConnStates]
<1>1. /\ inbox \in Inboxes /\ handling \in SUBSET Message /\ stage \in Stages
      /\ conn \in [Conn -> ConnStates]
  BY DEF TypeOK, Inboxes
<1>2. CASE NoHandler(m)
  BY <1>1, <1>2, AnswerType, SubjectNames DEF NoHandler
<1>3. CASE AgentTakes(m)
  BY <1>1, <1>3 DEF AgentTakes
<1>4. CASE Instructed(m)
  <2>1. Pinged(inbox, m) \in Inboxes
    BY <1>1, InstructionsType
  <2> QED
    BY <1>1, <1>4, <2>1, InstructionsType DEF Instructed
<1>5. CASE InstructedToShutdown(m)
  BY <1>1, <1>5, ShutdownType DEF InstructedToShutdown
<1> QED
  BY <1>2, <1>3, <1>4, <1>5 DEF Handle

LEMMA DeliverType ==
    ASSUME TypeOK, Deliver
    PROVE  TypeOK'
<1> DEFINE m == Head(ready)
           k == <<m.to, m.replyTo>>
<1>1. m \in Message /\ ready' \in Seq(Message) /\ entries' \in SUBSET Calls
  BY DEF Deliver, TypeOK
<1>2. UNCHANGED <<seed, polled, taskListChanged>>
  BY DEF Deliver
<1>3. CASE Expected(m)
  <2>1. k \in Calls
    BY <1>3 DEF Expected, TypeOK
  <2>2. [call[k] EXCEPT !.reply = m] \in CallState
    BY <1>1, <2>1 DEF TypeOK, CallState
  <2>3. call' \in [Calls -> CallState] /\ UNCHANGED <<conn, inbox, handling, stage>>
    BY <1>3, <2>1, <2>2 DEF Deliver, TypeOK
  <2> QED
    BY <1>1, <1>2, <2>3 DEF TypeOK
<1>4. CASE ~Expected(m)
  <2>1. Handle(m) /\ UNCHANGED call
    BY <1>4 DEF Deliver
  <2>2. /\ inbox' \in Inboxes /\ handling' \in SUBSET Message /\ stage' \in Stages
        /\ conn' \in [Conn -> ConnStates]
    BY <1>1, <2>1, HandleType
  <2> QED
    BY <1>1, <1>2, <2>1, <2>2 DEF TypeOK, Inboxes
<1> QED
  BY <1>3, <1>4

\* TypeOK is an invariant of the router.
THEOREM TypeCorrect == Spec => []TypeOK
<1>1. Init => TypeOK
  <2> SUFFICES ASSUME Init PROVE TypeOK
    OBVIOUS
  <2>1. Sent("unused", Nobody, {}) \in CallState
    BY DEF Sent, CallState
  <2>2. 0 \in 0..MaxSends
    BY BoundsAssumption
  <2>3. <<>> \in Seq(Message)
    OBVIOUS
  <2>4. call \in [Calls -> CallState]
    BY <2>1 DEF Init
  <2> QED
    BY <2>2, <2>3, <2>4 DEF Init, TypeOK, Stages, ConnStates
<1>2. TypeOK /\ [Next]_vars => TypeOK'
  <2> SUFFICES ASSUME TypeOK, [Next]_vars PROVE TypeOK'
    OBVIOUS
  <2>1. CASE UNCHANGED vars
    BY <2>1 DEF vars, TypeOK
  <2> QED
    BY <2>1, ClientType, WaiterType, MainLoopType, DeliverType, AgentType DEF Next
<1> QED
  BY <1>1, <1>2, PTL DEF Spec

(***************************************************************************)
(* Replies.  Every message in flight is genuine, so a reply that an entry  *)
(* lets through comes from where its send went.                            *)
(***************************************************************************)

\* A reply to a genuine message is genuine, and so is its bounce.
LEMMA ReplyGenuine ==
    ASSUME NEW calls, NEW m \in Message, NEW s \in Subjects, Genuine(calls, m)
    PROVE  Genuine(calls, Reply(m, s)) /\ Genuine(calls, Bounce(m))
<1>1. AnonId \notin Ids
  BY BoundsAssumption DEF Ids, AnonId
<1> QED
  BY <1>1 DEF Genuine, Reply, Bounce

\* A genuine message added to an inbox of its addressee.
LEMMA AppendGenuine ==
    ASSUME NEW calls, NEW box \in Inboxes, GenuineBoxes(calls, box),
           NEW m \in Message, Genuine(calls, m)
    PROVE  GenuineBoxes(calls, [box EXCEPT ![m.to] = Append(@, m)])
<1> DEFINE box2 == [box EXCEPT ![m.to] = Append(@, m)]
<1>1. m.to \in Conn
  BY DEF Message
<1>2. SUFFICES ASSUME NEW c \in Conn, NEW i \in 1..Len(box2[c])
               PROVE  Genuine(calls, box2[c][i]) /\ box2[c][i].to = c
  BY DEF GenuineBoxes
<1>3. box[c] \in Seq(Message)
  BY DEF Inboxes
<1>4. CASE c # m.to
  <2>1. box2[c] = box[c]
    BY <1>4 DEF Inboxes
  <2> QED
    BY <2>1 DEF GenuineBoxes
<1>5. CASE c = m.to
  <2>1. box2[c] = Append(box[c], m)
    BY <1>1, <1>5 DEF Inboxes
  <2>2. CASE i \in 1..Len(box[c])
    <3>1. box2[c][i] = box[c][i]
      BY <1>3, <2>1, <2>2
    <3> QED
      BY <2>2, <3>1 DEF GenuineBoxes
  <2>3. CASE i = Len(box[c]) + 1
    <3>1. box2[c][i] = m
      BY <1>3, <2>1, <2>3
    <3> QED
      BY <1>5, <3>1
  <2> QED
    BY <1>3, <2>1, <2>2, <2>3
<1> QED
  BY <1>4, <1>5

\* So routing, answering and instructions keep inboxes genuine.
LEMMA RouteGenuine ==
    ASSUME NEW calls, NEW box \in Inboxes, GenuineBoxes(calls, box),
           NEW m \in Message, Genuine(calls, m)
    PROVE  GenuineBoxes(calls, Route(box, m))
<1>1. CASE m.to \in open
  BY <1>1, AppendGenuine DEF Route
<1>2. CASE m.to \notin open /\ m.subject # "MSG_NOT_DELIVERED" /\ m.from \in open
  <2>1. m.from \in Conn
    BY <1>2 DEF open
  <2>2. Bounce(m) \in Message /\ Genuine(calls, Bounce(m))
    BY <2>1, ReplyType, ReplyGenuine, SubjectNames
  <2>3. Bounce(m).to = m.from
    BY DEF Bounce
  <2>4. GenuineBoxes(calls, [box EXCEPT ![Bounce(m).to] = Append(@, Bounce(m))])
    BY <2>2, AppendGenuine
  <2> QED
    BY <1>2, <2>3, <2>4 DEF Route
<1>3. CASE m.to \notin open /\ ~(m.subject # "MSG_NOT_DELIVERED" /\ m.from \in open)
  BY <1>3 DEF Route
<1> QED
  BY <1>1, <1>2, <1>3

LEMMA AnswerGenuine ==
    ASSUME NEW calls, NEW box \in Inboxes, GenuineBoxes(calls, box),
           NEW m \in Message, Genuine(calls, m), NEW s \in Subjects
    PROVE  GenuineBoxes(calls, Answer(box, m, s))
<1>1. CASE m.from = Nobody
  BY <1>1 DEF Answer
<1>2. CASE m.from # Nobody
  <2>1. m.from \in Conn
    BY <1>2 DEF Message
  <2>2. Reply(m, s) \in Message /\ Genuine(calls, Reply(m, s))
    BY <2>1, ReplyType, ReplyGenuine
  <2> QED
    BY <1>2, <2>2, RouteGenuine DEF Answer
<1> QED
  BY <1>1, <1>2

LEMMA InstructionsGenuine ==
    ASSUME NEW calls, NEW box \in Inboxes, GenuineBoxes(calls, box),
           NEW m \in Message, Genuine(calls, m)
    PROVE  /\ GenuineBoxes(calls, Pinged(box, m))
           /\ GenuineBoxes(calls, NotUnderstood(box, m))
<1>1. GenuineBoxes(calls, Answer(box, m, "PING"))
  BY AnswerGenuine, SubjectNames
<1>2. GenuineBoxes(calls, Answer(box, m, "DOES_NOT_UNDERSTAND"))
  BY AnswerGenuine, SubjectNames
<1> QED
  BY <1>1, <1>2 DEF Pinged, NotUnderstood

\* A message stays genuine when sends proceed.
LEMMA GenuineStays ==
    ASSUME NEW calls, NEW calls2,
           \A k \in Calls : Routed(calls, k) =>
                                Routed(calls2, k) /\ calls2[k].to = calls[k].to,
           NEW m, Genuine(calls, m)
    PROVE  Genuine(calls2, m)
BY DEF Genuine, Routed

\* If sends only proceed, and inboxes, deliveries and handlers hold nothing but
\* what was there and genuine messages, messages stay genuine.
LEMMA MessagesStayGenuine ==
    ASSUME MessagesAreGenuine,
           \A k \in Calls : Routed(call, k) =>
                                Routed(call', k) /\ call'[k].to = call[k].to,
           GenuineBoxes(call', inbox'),
           \A i \in 1..Len(ready') :
                \/ \E j \in 1..Len(ready) : ready'[i] = ready[j]
                \/ Genuine(call', ready'[i]),
           \A m \in handling' : m \in handling \/ Genuine(call', m)
    PROVE  MessagesAreGenuine'
<1>1. ASSUME NEW m, Genuine(call, m)
      PROVE  Genuine(call', m)
  BY <1>1, GenuineStays
<1>2. \A i \in 1..Len(ready') : Genuine(call', ready'[i])
  BY <1>1 DEF MessagesAreGenuine
<1>3. \A m \in handling' : Genuine(call', m)
  BY <1>1 DEF MessagesAreGenuine
<1> QED
  BY <1>2, <1>3 DEF MessagesAreGenuine

LEMMA BoxesStayGenuine ==
    ASSUME GenuineBoxes(call, inbox),
           \A k \in Calls : Routed(call, k) =>
                                Routed(call', k) /\ call'[k].to = call[k].to
    PROVE  GenuineBoxes(call', inbox)
BY GenuineStays DEF GenuineBoxes

\* A send is made: its id is new, so no message in flight refers to it.
LEMMA SendReplies ==
    ASSUME RepliesInv, TypeOK', NEW c \in Conn, NextSend(c),
           NEW to \in Conn, NEW s \in ClientSubjects,
           NEW made \in CallState, made.reply = Missing,
           call' = [call EXCEPT ![<<c, seed[c] + 1>>] = made],
           \/ /\ made.status \in {"cast", "waiting"}
              /\ made.to = to
              /\ inbox' = Route(inbox, Request(c, to, s))
           \/ inbox' = inbox,
           \/ entries' = entries
           \/ made.status \in {"waiting", "raised"}
              /\ entries' = entries \cup {<<c, seed[c] + 1>>},
           made.status # "unused", made.status # "returned",
           UNCHANGED <<ready, handling>>
    PROVE  RepliesInv'
<1> DEFINE k0 == <<c, seed[c] + 1>>
<1>1. /\ c \in Callers /\ seed[c] < MaxSends /\ seed[c] \in 0..MaxSends
      /\ seed' = [seed EXCEPT ![c] = seed[c] + 1]
  BY DEF NextSend, RepliesInv, TypeOK
<1>2. k0 \in Calls /\ Request(c, to, s) \in Message
  BY <1>1, RequestType DEF RepliesInv
<1>3. call[k0].status = "unused"
  BY <1>1, <1>2, BoundsAssumption DEF RepliesInv, CallsAreMadeInTurn
<1>4. call'[k0] = made /\ \A k \in Calls : k # k0 => call'[k] = call[k]
  BY <1>2 DEF RepliesInv, TypeOK
<1>5. \A k \in Calls : Routed(call, k) => Routed(call', k) /\ call'[k].to = call[k].to
  BY <1>3, <1>4 DEF Routed
<1>6. GenuineBoxes(call', inbox)
  BY <1>5, BoxesStayGenuine DEF RepliesInv, MessagesAreGenuine
<1>7. GenuineBoxes(call', inbox')
  <2>1. CASE inbox' = inbox
    BY <1>6, <2>1
  <2>2. CASE /\ made.status \in {"cast", "waiting"}
             /\ made.to = to
             /\ inbox' = Route(inbox, Request(c, to, s))
    <3>1. Genuine(call', Request(c, to, s))
      BY <1>2, <1>4, <2>2, BoundsAssumption DEF Genuine, Routed, Request, NotAReply, Ids
    <3> QED
      BY <1>2, <1>6, <2>2, <3>1, RouteGenuine DEF RepliesInv, TypeOK, Inboxes
  <2> QED
    BY <2>1, <2>2
<1>8. MessagesAreGenuine'
  BY <1>5, <1>7, MessagesStayGenuine DEF RepliesInv
<1>9. CallsAreMadeInTurn'
  <2> SUFFICES ASSUME NEW k \in Calls
               PROVE  /\ k[2] > seed'[k[1]] => call'[k].status = "unused"
                      /\ call'[k].reply # Missing =>
                            call'[k].status \in {"waiting", "returned"}
    BY DEF CallsAreMadeInTurn
  <2>1. k[1] \in Conn /\ k[2] \in Nat /\ seed[k[1]] \in Nat
    BY BoundsAssumption DEF Calls, Ids, RepliesInv, TypeOK
  <2>2. CASE k = k0
    BY <1>1, <1>4, <2>1, <2>2 DEF RepliesInv, TypeOK
  <2>3. CASE k # k0
    <3>1. seed'[k[1]] >= seed[k[1]]
      BY <1>1, <2>1 DEF RepliesInv, TypeOK
    <3>2. k[2] > seed'[k[1]] => k[2] > seed[k[1]]
      BY <1>1, <2>1, <3>1 DEF RepliesInv, TypeOK
    <3> QED
      BY <1>4, <2>3, <3>2 DEF RepliesInv, CallsAreMadeInTurn
  <2> QED
    BY <2>2, <2>3
<1>10. ReplyIsForItsCall'
  BY <1>4 DEF RepliesInv, ReplyIsForItsCall
<1>11. EntriesAwaitTheirReply'
  BY <1>3, <1>4 DEF RepliesInv, EntriesAwaitTheirReply, TypeOK
<1> QED
  BY <1>8, <1>9, <1>10, <1>11 DEF RepliesInv

LEMMA ClientReplies ==
    ASSUME RepliesInv, Client
    PROVE  RepliesInv'
<1>0. TypeOK'
  BY ClientType DEF RepliesInv
<1>1. PICK c \in Conn :
        \/ NewConnection(c)
        \/ Drop(c)
        \/ \E to \in Conn, s \in ClientSubjects : Cast(c, to, s)
        \/ \E to \in Conn, s \in ClientSubjects, a \in Additional : Call(c, to, s, a)
        \/ \E s \in ClientSubjects : CallElsewhere(c, s)
  BY DEF Client
<1>2. CASE NewConnection(c)
  <2>1. UNCHANGED <<inbox, seed, call, entries, ready, handling>>
    BY <1>2 DEF NewConnection, clientVars
  <2> QED
    BY <1>0, <2>1 DEF RepliesInv, MessagesAreGenuine, CallsAreMadeInTurn,
                      ReplyIsForItsCall, EntriesAwaitTheirReply
<1>3. CASE Drop(c)
  <2>1. UNCHANGED <<seed, call, ready, handling>> /\ entries' \subseteq entries
    BY <1>3 DEF Drop
  <2>2. GenuineBoxes(call, inbox')
    <3> SUFFICES ASSUME NEW d \in Conn, NEW i \in 1..Len(inbox'[d])
                 PROVE  Genuine(call, inbox'[d][i]) /\ inbox'[d][i].to = d
      BY DEF GenuineBoxes
    <3>1. d # c
      BY <1>3 DEF Drop, RepliesInv, TypeOK
    <3>2. inbox'[d] = inbox[d]
      BY <1>3, <3>1 DEF Drop, RepliesInv, TypeOK
    <3> QED
      BY <3>2 DEF RepliesInv, MessagesAreGenuine, GenuineBoxes
  <2> QED
    BY <1>0, <2>1, <2>2 DEF RepliesInv, MessagesAreGenuine, CallsAreMadeInTurn,
                            ReplyIsForItsCall, EntriesAwaitTheirReply
<1>4. ASSUME NEW to \in Conn, NEW s \in ClientSubjects, Cast(c, to, s)
      PROVE  RepliesInv'
  <2> DEFINE made == Sent("cast", to, {})
  <2>1. made \in CallState /\ made.status = "cast" /\ made.to = to /\ made.reply = Missing
    BY DEF Sent, CallState
  <2>2. /\ NextSend(c)
        /\ call' = [call EXCEPT ![<<c, seed[c] + 1>>] = made]
        /\ inbox' = Route(inbox, Request(c, to, s))
        /\ UNCHANGED <<entries, ready, handling>>
    BY <1>4 DEF Cast
  <2> HIDE DEF made
  <2> QED
    BY <1>0, <2>1, <2>2, SendReplies
<1>5. ASSUME NEW to \in Conn, NEW s \in ClientSubjects, NEW a \in Additional,
             Call(c, to, s, a)
      PROVE  RepliesInv'
  <2> DEFINE made == Sent("waiting", to, {s} \cup a)
  <2>1. made \in CallState
    BY SubjectNames DEF Sent, CallState, ClientSubjects, Additional, Subjects
  <2>2. made.status = "waiting" /\ made.to = to /\ made.reply = Missing
    BY DEF Sent
  <2>3. /\ NextSend(c)
        /\ call' = [call EXCEPT ![<<c, seed[c] + 1>>] = made]
        /\ entries' = entries \cup {<<c, seed[c] + 1>>}
        /\ inbox' = Route(inbox, Request(c, to, s))
        /\ UNCHANGED <<ready, handling>>
    BY <1>5 DEF Call
  <2> HIDE DEF made
  <2> QED
    BY <1>0, <2>1, <2>2, <2>3, SendReplies
<1>6. ASSUME NEW s \in ClientSubjects, CallElsewhere(c, s)
      PROVE  RepliesInv'
  <2> DEFINE made == Sent("raised", Nobody, {s})
  <2>1. made \in CallState
    BY SubjectNames DEF Sent, CallState, ClientSubjects, Subjects
  <2>2. made.status = "raised" /\ made.reply = Missing
    BY DEF Sent
  <2>3. /\ NextSend(c)
        /\ call' = [call EXCEPT ![<<c, seed[c] + 1>>] = made]
        /\ entries' = entries \cup {<<c, seed[c] + 1>>}
        /\ UNCHANGED <<inbox, ready, handling>>
    BY <1>6 DEF CallElsewhere
  <2> HIDE DEF made
  <2> QED
    BY <1>0, <2>1, <2>2, <2>3, SendReplies
<1> QED
  BY <1>1, <1>2, <1>3, <1>4, <1>5, <1>6

LEMMA WaiterReplies ==
    ASSUME RepliesInv, Waiter
    PROVE  RepliesInv'
<1>0. TypeOK'
  BY WaiterType DEF RepliesInv
<1>1. PICK k \in Calls : Resume(k) \/ TimeOut(k) \/ Cancel(k)
  BY DEF Waiter
<1>2. PICK res \in {call[k].reply, Missing} : ReturnWith(k, res)
  BY <1>1 DEF Resume, TimeOut, Cancel
<1>3. /\ call[k].status = "waiting"
      /\ entries' = entries \ {k}
      /\ UNCHANGED <<inbox, seed, ready, handling>>
      /\ \A k2 \in Calls : k2 # k => call'[k2] = call[k2]
      /\ call'[k].status = "returned" /\ call'[k].reply = res
      /\ call'[k].to = call[k].to /\ call'[k].accepts = call[k].accepts
  BY <1>2 DEF ReturnWith, RepliesInv, TypeOK, CallState
<1>4. \A k2 \in Calls : Routed(call, k2) =>
                            Routed(call', k2) /\ call'[k2].to = call[k2].to
  BY <1>3 DEF Routed
<1>5. GenuineBoxes(call', inbox')
  BY <1>3, <1>4, BoxesStayGenuine DEF RepliesInv, MessagesAreGenuine
<1>6. MessagesAreGenuine'
  BY <1>3, <1>4, <1>5, MessagesStayGenuine DEF RepliesInv
<1>7. CallsAreMadeInTurn'
  BY <1>3 DEF RepliesInv, CallsAreMadeInTurn
<1>8. ReplyIsForItsCall'
  BY <1>3 DEF RepliesInv, ReplyIsForItsCall
<1>9. EntriesAwaitTheirReply'
  BY <1>3 DEF RepliesInv, EntriesAwaitTheirReply, TypeOK
<1> QED
  BY <1>0, <1>6, <1>7, <1>8, <1>9 DEF RepliesInv

LEMMA MainLoopReplies ==
    ASSUME RepliesInv, MainLoop \/ Shutdown \/ Trip
    PROVE  RepliesInv'
<1>0. TypeOK'
  BY MainLoopType DEF RepliesInv
<1>1. CASE TaskListChanged \/ Stop \/ Shutdown \/ Trip
  <2>1. UNCHANGED <<inbox, seed, call, entries, ready, handling>>
    BY <1>1 DEF TaskListChanged, Stop, Shutdown, Trip, clientVars
  <2> QED
    BY <1>0, <2>1 DEF RepliesInv, MessagesAreGenuine, CallsAreMadeInTurn,
                      ReplyIsForItsCall, EntriesAwaitTheirReply
<1>2. ASSUME NEW c \in Conn, MsgArrived(c)
      PROVE  RepliesInv'
  <2>1. UNCHANGED <<seed, call, entries, handling>>
    BY <1>2 DEF MsgArrived, clientVars
  <2>2. inbox[c] \in Seq(Message) /\ inbox[c] # <<>>
    BY <1>2 DEF MsgArrived, RepliesInv, TypeOK
  <2>3. Genuine(call, Head(inbox[c]))
    BY <2>2 DEF RepliesInv, MessagesAreGenuine, GenuineBoxes
  <2>4. GenuineBoxes(call, inbox')
    <3> SUFFICES ASSUME NEW d \in Conn, NEW i \in 1..Len(inbox'[d])
                 PROVE  Genuine(call, inbox'[d][i]) /\ inbox'[d][i].to = d
      BY DEF GenuineBoxes
    <3>1. CASE d = c
      <4>1. inbox'[c] = Tail(inbox[c])
        BY <1>2 DEF MsgArrived, RepliesInv, TypeOK
      <4>2. i + 1 \in 1..Len(inbox[c]) /\ inbox'[c][i] = inbox[c][i + 1]
        BY <2>2, <3>1, <4>1
      <4> QED
        BY <3>1, <4>2 DEF RepliesInv, MessagesAreGenuine, GenuineBoxes
    <3>2. CASE d # c
      <4>1. inbox'[d] = inbox[d]
        BY <1>2, <3>2 DEF MsgArrived, RepliesInv, TypeOK
      <4> QED
        BY <4>1 DEF RepliesInv, MessagesAreGenuine, GenuineBoxes
    <3> QED
      BY <3>1, <3>2
  <2>5. \A i \in 1..Len(ready') :
            \/ \E j \in 1..Len(ready) : ready'[i] = ready[j]
            \/ Genuine(call, ready'[i])
    <3>1. CASE c \in live
      <4>1. ready' = Append(ready, Head(inbox[c])) /\ ready \in Seq(Message)
        BY <1>2, <3>1 DEF MsgArrived, RepliesInv, TypeOK
      <4> QED
        BY <2>3, <4>1
    <3>2. CASE c \notin live
      BY <1>2, <3>2 DEF MsgArrived
    <3> QED
      BY <3>1, <3>2
  <2>6. \A k \in Calls : Routed(call, k) =>
                            Routed(call', k) /\ call'[k].to = call[k].to
    BY <2>1
  <2>7. MessagesAreGenuine'
    BY <2>1, <2>4, <2>5, <2>6, MessagesStayGenuine DEF RepliesInv
  <2> QED
    BY <1>0, <2>1, <2>7 DEF RepliesInv, CallsAreMadeInTurn,
                            ReplyIsForItsCall, EntriesAwaitTheirReply
<1> QED
  BY <1>1, <1>2 DEF MainLoop

LEMMA AgentKeepsReplies ==
    ASSUME RepliesInv, Agent
    PROVE  RepliesInv'
<1>0. TypeOK'
  BY AgentType DEF RepliesInv
<1>1. PICK m \in handling :
        \/ \E s \in AppSubjects : AgentReplies(m, s)
        \/ AgentIsDone(m)
        \/ AfterShutdown(m)
  BY DEF Agent
<1>2. m \in Message /\ Genuine(call, m) /\ inbox \in Inboxes /\ GenuineBoxes(call, inbox)
  BY DEF RepliesInv, TypeOK, Inboxes, MessagesAreGenuine
<1>3. UNCHANGED <<seed, call, entries, ready>> /\ handling' \subseteq handling
  BY <1>1 DEF AgentReplies, AgentIsDone, AfterShutdown, clientVars
<1>4. GenuineBoxes(call, inbox')
  <2>1. CASE \E s \in AppSubjects : AgentReplies(m, s)
    BY <1>2, <2>1, AnswerGenuine DEF AgentReplies, Subjects
  <2>2. CASE AgentIsDone(m)
    BY <1>2, <2>2 DEF AgentIsDone
  <2>3. CASE AfterShutdown(m)
    BY <1>2, <2>3, InstructionsGenuine DEF AfterShutdown
  <2> QED
    BY <1>1, <2>1, <2>2, <2>3
<1> QED
  BY <1>0, <1>3, <1>4 DEF RepliesInv, MessagesAreGenuine, CallsAreMadeInTurn,
                          ReplyIsForItsCall, EntriesAwaitTheirReply

LEMMA HandleGenuine ==
    ASSUME RepliesInv, NEW m \in Message, Genuine(call, m), Handle(m)
    PROVE  GenuineBoxes(call, inbox') /\ handling' \subseteq handling \cup {m}
<1>1. inbox \in Inboxes /\ GenuineBoxes(call, inbox)
  BY DEF RepliesInv, TypeOK, Inboxes, MessagesAreGenuine
<1>2. CASE NoHandler(m)
  BY <1>1, <1>2, AnswerGenuine, SubjectNames DEF NoHandler
<1>3. CASE AgentTakes(m)
  BY <1>1, <1>3 DEF AgentTakes
<1>4. CASE Instructed(m)
  <2>1. Pinged(inbox, m) \in Inboxes /\ GenuineBoxes(call, Pinged(inbox, m))
    BY <1>1, InstructionsType, InstructionsGenuine
  <2> QED
    BY <1>4, <2>1, InstructionsGenuine DEF Instructed
<1>5. CASE InstructedToShutdown(m)
  BY <1>1, <1>5 DEF InstructedToShutdown
<1> QED
  BY <1>2, <1>3, <1>4, <1>5 DEF Handle

LEMMA DeliverReplies ==
    ASSUME RepliesInv, Deliver
    PROVE  RepliesInv'
<1> DEFINE m == Head(ready)
           k == <<m.to, m.replyTo>>
<1>0. TypeOK'
  BY DeliverType DEF RepliesInv
<1>1. ready \in Seq(Message) /\ ready # <<>> /\ ready' = Tail(ready)
  BY DEF Deliver, RepliesInv, TypeOK
<1>2. m \in Message /\ Genuine(call, m)
  BY <1>1 DEF RepliesInv, MessagesAreGenuine
<1>3. UNCHANGED seed /\ entries' = entries \ {k}
  BY DEF Deliver
<1>4. \A i \in 1..Len(ready') : \E j \in 1..Len(ready) : ready'[i] = ready[j]
  <2> SUFFICES ASSUME NEW i \in 1..Len(ready')
               PROVE  \E j \in 1..Len(ready) : ready'[i] = ready[j]
    OBVIOUS
  <2>1. i + 1 \in 1..Len(ready) /\ ready'[i] = ready[i + 1]
    BY <1>1
  <2> QED
    BY <2>1
<1>5. CASE Expected(m)
  <2>1. k \in entries /\ k \in Calls /\ m.subject \in call[k].accepts
    BY <1>5 DEF Expected, RepliesInv, TypeOK
  <2>2. call[k].status \in {"waiting", "raised"} /\ call[k].reply = Missing
    BY <2>1 DEF RepliesInv, EntriesAwaitTheirReply
  <2>3. m.replyTo \in Ids
    BY <2>1 DEF Calls
  <2>4. call[k].status = "waiting" /\ m.from \in {call[k].to, Nobody}
    BY <1>2, <2>2, <2>3 DEF Genuine, Routed
  <2>5. /\ UNCHANGED <<inbox, handling>>
        /\ call' = [call EXCEPT ![k].reply = m]
    BY <1>5, <2>2 DEF Deliver
  <2>6. /\ \A k2 \in Calls : k2 # k => call'[k2] = call[k2]
        /\ call'[k].status = "waiting" /\ call'[k].reply = m
        /\ call'[k].to = call[k].to /\ call'[k].accepts = call[k].accepts
    BY <2>1, <2>4, <2>5 DEF RepliesInv, TypeOK, CallState
  <2>7. \A k2 \in Calls : Routed(call, k2) =>
                              Routed(call', k2) /\ call'[k2].to = call[k2].to
    BY <2>6 DEF Routed
  <2>8. GenuineBoxes(call', inbox')
    BY <2>5, <2>7, BoxesStayGenuine DEF RepliesInv, MessagesAreGenuine
  <2>9. MessagesAreGenuine'
    BY <1>4, <2>5, <2>7, <2>8, MessagesStayGenuine DEF RepliesInv
  <2>10. CallsAreMadeInTurn'
    BY <1>3, <2>4, <2>6 DEF RepliesInv, CallsAreMadeInTurn
  <2>11. ReplyIsForItsCall'
    BY <2>1, <2>4, <2>6 DEF RepliesInv, ReplyIsForItsCall
  <2>12. EntriesAwaitTheirReply'
    BY <1>3, <2>6 DEF RepliesInv, EntriesAwaitTheirReply, TypeOK
  <2> QED
    BY <1>0, <2>9, <2>10, <2>11, <2>12 DEF RepliesInv
<1>6. CASE ~Expected(m)
  <2>1. Handle(m) /\ UNCHANGED call
    BY <1>6 DEF Deliver
  <2>2. GenuineBoxes(call, inbox') /\ handling' \subseteq handling \cup {m}
    BY <1>2, <2>1, HandleGenuine
  <2>3. \A m2 \in handling' : m2 \in handling \/ Genuine(call', m2)
    BY <1>2, <2>1, <2>2
  <2>4. MessagesAreGenuine'
    BY <1>4, <2>1, <2>2, <2>3, MessagesStayGenuine DEF RepliesInv
  <2> QED
    BY <1>0, <1>3, <2>1, <2>4 DEF RepliesInv, CallsAreMadeInTurn,
                                  ReplyIsForItsCall, EntriesAwaitTheirReply
<1> QED
  BY <1>5, <1>6

\* The invariant that ties replies, sends and entries together.
THEOREM RepliesInvariant == Spec => []RepliesInv
<1>1. Init => RepliesInv
  <2> SUFFICES ASSUME Init PROVE RepliesInv
    OBVIOUS
  <2>1. TypeOK
    <3>1. <<>> \in Seq(Message) /\ 0 \in 0..MaxSends
      BY BoundsAssumption
    <3>2. call \in [Calls -> CallState]
      BY DEF Init, Sent, CallState
    <3> QED
      BY <3>1, <3>2 DEF Init, TypeOK, Stages, ConnStates
  <2>2. MessagesAreGenuine
    BY DEF Init, MessagesAreGenuine, GenuineBoxes
  <2>3. \A k \in Calls : call[k].status = "unused" /\ call[k].reply = Missing
    BY DEF Init, Sent
  <2> QED
    BY <2>1, <2>2, <2>3 DEF Init, RepliesInv, CallsAreMadeInTurn,
                            ReplyIsForItsCall, EntriesAwaitTheirReply
<1>2. RepliesInv /\ [Next]_vars => RepliesInv'
  <2> SUFFICES ASSUME RepliesInv, [Next]_vars PROVE RepliesInv'
    OBVIOUS
  <2>1. CASE UNCHANGED vars
    BY <2>1 DEF vars, RepliesInv, TypeOK, MessagesAreGenuine, GenuineBoxes,
                CallsAreMadeInTurn, ReplyIsForItsCall, EntriesAwaitTheirReply
  <2> QED
    BY <2>1, ClientReplies, WaiterReplies, MainLoopReplies, DeliverReplies,
       AgentKeepsReplies DEF Next
<1> QED
  BY <1>1, <1>2, PTL DEF Spec

\* Whatever overlaps, times out, is cancelled or shut down: a send gets replies
\* to itself only, from where it was sent or from the router.
THEOREM RepliesAreForTheirCalls == Spec => []ReplyIsForItsCall
<1>1. RepliesInv => ReplyIsForItsCall
  BY DEF RepliesInv
<1> QED
  BY <1>1, RepliesInvariant, PTL

\* The future that an entry leads to is never done, and no entry outlives its
\* send unless the routing raised.
THEOREM EntriesAreAwaited == Spec => []EntriesAwaitTheirReply
<1>1. RepliesInv => EntriesAwaitTheirReply
  BY DEF RepliesInv
<1> QED
  BY <1>1, RepliesInvariant, PTL

(***************************************************************************)
(* The connections of a router implement RequestReply: every step of       *)
(* LocalRouter is one of RequestReply, for one call, or leaves all that    *)
(* RequestReply speaks of as it is.                                        *)
(***************************************************************************)

\* The state of RequestReply.
PhaseOf(c) ==
    CASE c.status = "waiting" /\ c.reply = Missing -> "asked"
      [] c.status = "waiting" /\ c.reply # Missing -> "settled"
      [] c.status = "returned" -> "done"
      [] OTHER -> "idle"
AskOf(c) == IF PhaseOf(c) = "idle" THEN Missing ELSE [to |-> c.to, accepts |-> c.accepts]

phases == [k \in Calls |-> Phase(k)]
asks == [k \in Calls |-> IF Phase(k) = "idle" THEN Missing
                         ELSE [to |-> call[k].to, accepts |-> call[k].accepts]]
values == [k \in Calls |-> call[k].reply]

\* What is seen of a call depends on the record of that call only.
LEMMA Seen ==
    /\ phases = [k \in Calls |-> PhaseOf(call[k])]
    /\ phases' = [k \in Calls |-> PhaseOf(call'[k])]
    /\ asks = [k \in Calls |-> AskOf(call[k])]
    /\ asks' = [k \in Calls |-> AskOf(call'[k])]
    /\ values' = [k \in Calls |-> call'[k].reply]
  BY DEF phases, asks, values, Phase, PhaseOf, AskOf

LEMMA Unchanged ==
    ASSUME NEW k
    PROVE  /\ [phases EXCEPT ![k] = phases[k]] = phases
           /\ [asks EXCEPT ![k] = asks[k]] = asks
           /\ [values EXCEPT ![k] = values[k]] = values
  BY DEF phases, asks, values

\* The steps of RequestReply, in terms of these.
LEMMA Stutter ==
    ASSUME UNCHANGED <<phases, asks, values, ShutdownTaskDone>>
    PROVE  UNCHANGED RR!absVars
  BY DEF phases, asks, values, RR!absVars

LEMMA AskIs ==
    ASSUME NEW k \in Calls, phases[k] = "idle", phases' = [phases EXCEPT ![k] = "asked"],
           NEW r \in [to : Conn, accepts : SUBSET Subjects], asks' = [asks EXCEPT ![k] = r],
           UNCHANGED <<values, ShutdownTaskDone>>
    PROVE  RR!Ask(k)
  BY DEF phases, asks, values, RR!Ask

LEMMA SettleIs ==
    ASSUME NEW k \in Calls, phases[k] = "asked", phases' = [phases EXCEPT ![k] = "settled"],
           NEW m \in Message, RR!Answers(m, k, asks[k]), values' = [values EXCEPT ![k] = m],
           UNCHANGED <<asks, ShutdownTaskDone>>
    PROVE  RR!Settle(k)
<1>1. values'[k] = m
  BY DEF values
<1>2. RR!Answers(values'[k], k, asks[k]) /\ values' = [values EXCEPT ![k] = values'[k]]
  BY <1>1
<1> QED
  BY <1>2 DEF phases, asks, values, RR!Settle

LEMMA ReturnIs ==
    ASSUME NEW k \in Calls, phases[k] = "settled", phases' = [phases EXCEPT ![k] = "done"],
           ~ShutdownTaskDone, UNCHANGED <<asks, values, ShutdownTaskDone>>
    PROVE  RR!Return(k)
  BY DEF phases, asks, values, RR!Return

LEMMA GiveUpIs ==
    ASSUME NEW k \in Calls, phases[k] \in {"asked", "settled"},
           phases' = [phases EXCEPT ![k] = "done"],
           values' = [values EXCEPT ![k] = Missing], UNCHANGED <<asks, ShutdownTaskDone>>
    PROVE  RR!GiveUp(k)
  BY DEF phases, asks, values, RR!GiveUp

LEMMA CloseIs ==
    ASSUME ~ShutdownTaskDone, ShutdownTaskDone', UNCHANGED <<phases, asks, values>>
    PROVE  RR!Close
  BY DEF phases, asks, values, RR!Close

\* A step that leaves the calls alone.
LEMMA OtherSteps ==
    ASSUME call' = call
    PROVE  /\ UNCHANGED <<phases, asks, values>>
           /\ stage' = stage => UNCHANGED RR!absVars
<1>1. UNCHANGED <<phases, asks, values>>
  BY Seen DEF values
<1> QED
  BY <1>1, Stutter DEF ShutdownTaskDone

\* A step that changes the record of one call.
LEMMA OneCall ==
    ASSUME NEW k \in Calls, NEW c, call \in [Calls -> CallState],
           call' = [call EXCEPT ![k] = c]
    PROVE  /\ phases' = [phases EXCEPT ![k] = PhaseOf(c)]
           /\ asks' = [asks EXCEPT ![k] = AskOf(c)]
           /\ values' = [values EXCEPT ![k] = c.reply]
<1>1. call' = [k2 \in Calls |-> IF k2 = k THEN c ELSE call[k2]]
  OBVIOUS
<1> QED
  BY <1>1, Seen DEF values

\* An id that has not been given out.
LEMMA NewCall ==
    ASSUME RepliesInv, NEW c \in Conn, NextSend(c)
    PROVE  /\ <<c, seed[c] + 1>> \in Calls
           /\ call[<<c, seed[c] + 1>>].status = "unused"
           /\ call[<<c, seed[c] + 1>>].reply = Missing
<1> DEFINE k == <<c, seed[c] + 1>>
<1>1. c \in Callers /\ seed[c] \in 0..MaxSends /\ seed[c] < MaxSends
  BY DEF NextSend, RepliesInv, TypeOK
<1>2. k \in Calls /\ k[1] = c /\ k[2] > seed[k[1]]
  BY <1>1, BoundsAssumption DEF Calls, Ids
<1> QED
  BY <1>2 DEF RepliesInv, CallsAreMadeInTurn

LEMMA ClientRefines == RepliesInv /\ Client => [RR!Next]_RR!absVars
<1> SUFFICES ASSUME RepliesInv, NEW c \in Conn,
                    \/ NewConnection(c) \/ Drop(c)
                    \/ \E to \in Conn, s \in ClientSubjects :
                          Cast(c, to, s) \/ \E a \in Additional : Call(c, to, s, a)
                    \/ \E s \in ClientSubjects : CallElsewhere(c, s)
             PROVE  [RR!Next]_RR!absVars
  BY DEF Client
<1> PICK k : k = <<c, seed[c] + 1>>
  OBVIOUS
<1>1. call \in [Calls -> CallState]
  BY DEF RepliesInv, TypeOK
<1>2. ASSUME NextSend(c)
      PROVE  /\ k \in Calls
             /\ phases[k] = "idle" /\ asks[k] = Missing /\ values[k] = Missing
  <2>1. k \in Calls /\ call[k].status = "unused" /\ call[k].reply = Missing
    BY <1>2, NewCall
  <2> QED
    BY <2>1, Seen DEF PhaseOf, AskOf, values
\* A send on which nobody waits, or whose routing raised, is not a call.
<1>3. ASSUME NextSend(c), stage' = stage,
             NEW status \in {"cast", "raised"}, NEW to, NEW accepts,
             call' = [call EXCEPT ![k] = Sent(status, to, accepts)]
      PROVE  UNCHANGED RR!absVars
  <2> PICK new : new = Sent(status, to, accepts)
    OBVIOUS
  <2>1. PhaseOf(new) = "idle" /\ AskOf(new) = Missing /\ new.reply = Missing
    BY DEF PhaseOf, AskOf, Sent
  <2>2. /\ phases' = [phases EXCEPT ![k] = PhaseOf(new)]
        /\ asks' = [asks EXCEPT ![k] = AskOf(new)]
        /\ values' = [values EXCEPT ![k] = new.reply]
    BY <1>1, <1>2, <1>3, OneCall
  <2>3. UNCHANGED <<phases, asks, values>>
    BY <1>2, <1>3, <2>1, <2>2, Unchanged
  <2> QED
    BY <1>3, <2>3, Stutter DEF ShutdownTaskDone
<1>4. CASE NewConnection(c) \/ Drop(c)
  BY <1>4, OtherSteps DEF NewConnection, Drop, clientVars
<1>5. ASSUME NEW to \in Conn, NEW s \in ClientSubjects, Cast(c, to, s)
      PROVE  UNCHANGED RR!absVars
  BY <1>3, <1>5 DEF Cast, loopVars
<1>6. ASSUME NEW s \in ClientSubjects, CallElsewhere(c, s)
      PROVE  UNCHANGED RR!absVars
  BY <1>3, <1>6 DEF CallElsewhere, loopVars
<1>7. ASSUME NEW to \in Conn, NEW s \in ClientSubjects, NEW a \in Additional, Call(c, to, s, a)
      PROVE  RR!Next
  <2> PICK new : new = Sent("waiting", to, {s} \cup a)
    OBVIOUS
  <2>1. NextSend(c) /\ call' = [call EXCEPT ![k] = new] /\ stage' = stage
    BY <1>7 DEF Call, loopVars
  <2>2. PhaseOf(new) = "asked" /\ AskOf(new) = [to |-> to, accepts |-> {s} \cup a] /\ new.reply = Missing
    BY DEF PhaseOf, AskOf, Sent
  <2>3. /\ phases' = [phases EXCEPT ![k] = PhaseOf(new)]
        /\ asks' = [asks EXCEPT ![k] = AskOf(new)]
        /\ values' = [values EXCEPT ![k] = new.reply]
    BY <1>1, <1>2, <2>1, OneCall
  <2>4. values' = values
    BY <1>2, <2>1, <2>2, <2>3, Unchanged
  <2>5. [to |-> to, accepts |-> {s} \cup a] \in [to : Conn, accepts : SUBSET Subjects]
    BY SubjectNames DEF ClientSubjects, Additional, Subjects
  <2>6. RR!Ask(k)
    BY <1>2, <2>1, <2>2, <2>3, <2>4, <2>5, AskIs DEF ShutdownTaskDone
  <2> QED
    BY <1>2, <2>1, <2>6 DEF RR!Next
<1> QED
  BY <1>4, <1>5, <1>6, <1>7

LEMMA WaiterRefines == RepliesInv /\ Waiter => [RR!Next]_RR!absVars
<1> SUFFICES ASSUME RepliesInv, NEW k \in Calls, Resume(k) \/ TimeOut(k) \/ Cancel(k)
             PROVE  RR!Next
  BY DEF Waiter
<1>1. call \in [Calls -> CallState] /\ call[k] \in CallState
  BY DEF RepliesInv, TypeOK
<1>2. PICK res : ReturnWith(k, res) /\ (res = Missing \/ (res = call[k].reply /\ ~ShutdownTaskDone))
  BY DEF Resume, TimeOut, Cancel
<1> PICK new : new = [call[k] EXCEPT !.status = "returned", !.reply = res]
  OBVIOUS
<1>3. /\ call[k].status = "waiting" /\ UNCHANGED stage
      /\ call' = [call EXCEPT ![k] = new]
  BY <1>1, <1>2 DEF ReturnWith, loopVars, CallState
<1>4. /\ new.status = "returned" /\ new.reply = res
      /\ new.to = call[k].to /\ new.accepts = call[k].accepts
  BY <1>1 DEF CallState
<1>5. PhaseOf(new) = "done" /\ AskOf(new) = [to |-> call[k].to, accepts |-> call[k].accepts]
  BY <1>4 DEF PhaseOf, AskOf
<1>6. phases[k] = IF call[k].reply = Missing THEN "asked" ELSE "settled"
  BY <1>3, Seen DEF PhaseOf
<1>7. asks[k] = AskOf(new) /\ values[k] = call[k].reply
  BY <1>3, <1>5, Seen DEF PhaseOf, AskOf, values
<1>8. /\ phases' = [phases EXCEPT ![k] = PhaseOf(new)]
      /\ asks' = [asks EXCEPT ![k] = AskOf(new)]
      /\ values' = [values EXCEPT ![k] = new.reply]
  BY <1>1, <1>3, OneCall
<1>9. asks' = asks /\ UNCHANGED ShutdownTaskDone
  BY <1>3, <1>7, <1>8, Unchanged DEF ShutdownTaskDone
<1>10. CASE res = Missing
  BY <1>4, <1>5, <1>6, <1>8, <1>9, <1>10, GiveUpIs DEF RR!Next
<1>11. CASE res # Missing
  <2>1. values' = values /\ phases[k] = "settled" /\ ~ShutdownTaskDone
    BY <1>2, <1>4, <1>6, <1>7, <1>8, <1>11, Unchanged
  <2> QED
    BY <1>5, <1>8, <1>9, <2>1, ReturnIs DEF RR!Next
<1> QED
  BY <1>10, <1>11

LEMMA DeliverRefines == RepliesInv /\ Deliver => [RR!Next]_RR!absVars
<1> SUFFICES ASSUME RepliesInv, Deliver PROVE [RR!Next]_RR!absVars
  OBVIOUS
<1> PICK m, k : m = Head(ready) /\ k = <<m.to, m.replyTo>>
  OBVIOUS
<1>1. ready \in Seq(Message) /\ ready # <<>> /\ 1 \in 1..Len(ready) /\ m = ready[1]
  BY DEF Deliver, RepliesInv, TypeOK
<1>2. m \in Message /\ Genuine(call, m)
  BY <1>1 DEF RepliesInv, MessagesAreGenuine
<1>3. CASE ~Expected(m)
  <2>1. Handle(m) /\ call' = call
    BY <1>3 DEF Deliver
  <2>2. UNCHANGED ShutdownTaskDone
    BY <2>1 DEF Handle, NoHandler, AgentTakes, Instructed, InstructedToShutdown,
                ShutsTheRouterDown, ShutdownTaskDone
  <2> QED
    BY <2>1, <2>2, OtherSteps, Stutter
<1>4. CASE Expected(m)
  <2>1. k \in entries /\ k \in Calls /\ m.subject \in call[k].accepts
    BY <1>4 DEF Expected, RepliesInv, TypeOK
  <2>2. call[k].status \in {"waiting", "raised"} /\ call[k].reply = Missing
    BY <2>1 DEF RepliesInv, EntriesAwaitTheirReply
  <2>3. m.replyTo \in Ids
    BY <2>1 DEF Calls
  <2>4. call[k].status = "waiting" /\ m.from \in {call[k].to, Nobody}
    BY <1>2, <2>2, <2>3 DEF Genuine, Routed
  <2>5. UNCHANGED stage /\ call' = [call EXCEPT ![k].reply = m]
    BY <1>4, <2>2 DEF Deliver
  <2>6. call \in [Calls -> CallState] /\ call[k] \in CallState
    BY <2>1 DEF RepliesInv, TypeOK
  <2> PICK new : new = [call[k] EXCEPT !.reply = m]
    OBVIOUS
  <2>7. call' = [call EXCEPT ![k] = new]
    BY <2>5
  <2>8. /\ new.status = "waiting" /\ new.reply = m
        /\ new.to = call[k].to /\ new.accepts = call[k].accepts
    BY <2>4, <2>6 DEF CallState
  <2>9. PhaseOf(new) = "settled" /\ AskOf(new) = [to |-> call[k].to, accepts |-> call[k].accepts]
    BY <1>2, <2>8, MissingAssumption DEF PhaseOf, AskOf
  <2>10. phases[k] = "asked" /\ asks[k] = [to |-> call[k].to, accepts |-> call[k].accepts]
    BY <2>1, <2>2, <2>4, Seen DEF PhaseOf, AskOf
  <2>11. k[1] = m.to /\ k[2] = m.replyTo
    OBVIOUS
  <2>12. RR!Answers(m, k, asks[k])
    BY <1>2, <2>1, <2>4, <2>10, <2>11 DEF RR!Answers
  <2>13. /\ phases' = [phases EXCEPT ![k] = PhaseOf(new)]
         /\ asks' = [asks EXCEPT ![k] = AskOf(new)]
         /\ values' = [values EXCEPT ![k] = new.reply]
    BY <2>1, <2>6, <2>7, OneCall
  <2>14. asks' = asks /\ UNCHANGED ShutdownTaskDone
    BY <2>5, <2>9, <2>10, <2>13, Unchanged DEF ShutdownTaskDone
  <2>15. RR!Settle(k)
    BY <1>2, <2>1, <2>8, <2>9, <2>10, <2>12, <2>13, <2>14, SettleIs
  <2> QED
    BY <2>1, <2>15 DEF RR!Next
<1> QED
  BY <1>3, <1>4

\* The main loop, agents, and the shutdown of the router.
LEMMA RuntimeRefines ==
    MainLoop \/ Shutdown \/ Trip \/ Agent => [RR!Next]_RR!absVars
<1>1. CASE Trip
  BY <1>1, OtherSteps, CloseIs DEF Trip, clientVars, ShutdownTaskDone, RR!Next
<1>2. ASSUME MainLoop \/ Shutdown \/ Agent
      PROVE  call' = call /\ UNCHANGED ShutdownTaskDone
  BY <1>2 DEF MainLoop, TaskListChanged, Stop, MsgArrived, Shutdown, ShutsTheRouterDown, Agent,
              AgentReplies, AgentIsDone, AfterShutdown, clientVars, loopVars, ShutdownTaskDone
<1>3. CASE MainLoop \/ Shutdown \/ Agent
  BY <1>2, <1>3, OtherSteps, Stutter
<1> QED
  BY <1>1, <1>3

\* The connections of a router and its main loop implement the promise of
\* RequestReply to the callers of send: each call is made once, settled by at most
\* one message, which answers it, and returns once, with that or with Missing;
\* after a shutdown with Missing (Connection.send, _deliver, Router.shutdown).
THEOREM RouterImplementsRequestReply == Spec => ImplementsRequestReply
<1>1. Init => RR!Init
  <2> SUFFICES ASSUME Init PROVE RR!Init
    OBVIOUS
  <2>1. \A k \in Calls : call[k].status = "unused" /\ call[k].reply = Missing
    BY DEF Init, Sent
  <2>2. \A k \in Calls : Phase(k) = "idle"
    BY <2>1 DEF Phase
  <2> QED
    BY <2>1, <2>2 DEF Init, RR!Init, ShutdownTaskDone
<1>2. RepliesInv /\ [Next]_vars => [RR!Next]_RR!absVars
  <2>1. ASSUME UNCHANGED vars PROVE UNCHANGED RR!absVars
    BY <2>1, OtherSteps DEF vars
  <2> QED
    BY <2>1, ClientRefines, WaiterRefines, DeliverRefines, RuntimeRefines DEF Next
<1> QED
  BY <1>1, <1>2, RepliesInvariant, PTL DEF Spec, ImplementsRequestReply, RR!Spec

=============================================================================
