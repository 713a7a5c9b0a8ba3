---------------------------- MODULE LocalRouter ----------------------------
(***************************************************************************)
(* The connections of one router in LOCAL_MODE and the part of its main    *)
(* loop that moves messages between them (_core.py: Connection, Router).   *)
(*                                                                         *)
(* A connection sends a message either without waiting (async send) or     *)
(* waiting for a reply up to a timeout (semi-synchronous send).  The       *)
(* router puts a message in the inbox of its addressee, or bounces it as   *)
(* MSG_NOT_DELIVERED.  The main loop turns the head of an inbox into a     *)
(* _deliver task, which gives the message to the send waiting for it or to *)
(* the connection's handler.                                               *)
(*                                                                         *)
(* asyncio runs one task at a time, so what runs between two suspension    *)
(* points is one action.  Abstractions:                                    *)
(*  - the ids that a send never waits on (those of the replies made while  *)
(*    handling a message) are all AnonId, so the ids of a connection's own *)
(*    sends run from 1 to MaxSends;                                        *)
(*  - inbox.get() and the main loop's processing of its result are one     *)
(*    step: MainLoop.tla has the task list in detail;                      *)
(*  - a handler is user code: it keeps a request whose subject it knows as *)
(*    long as it likes and then answers it or not; for any other message   *)
(*    it returns the list of instructions Fn gives.                        *)
(***************************************************************************)
EXTENDS Integers, Sequences

CONSTANTS
    Conn,           \* the connections, that is the router-level endpoints
    AppSubjects,    \* subjects the handlers know
    Fn,             \* Fn[c]: the instructions c's handler returns, Missing: no handler
    Callers,        \* bound: the connections that clients send from
    MaxSends,       \* bound: sends made from each of them
    Missing,        \* the sentinel of _utils/sentinels.py
    Nobody          \* the replyAddr (None) of a message the router itself made

Instruction == {"IGNORE_UNHANDLED_REPLIES", "HANDLE_PING", "HANDLE_SHUTDOWN",
                "HANDLE_DOES_NOT_UNDERSTAND"}

SystemSubjects == {"PING", "SHUTDOWN", "MSG_NOT_DELIVERED", "DOES_NOT_UNDERSTAND"}
Subjects == AppSubjects \cup SystemSubjects

\* HANDLE_DOES_NOT_UNDERSTAND catches everything: it is last wherever the
\* repository writes a list of instructions.
InstructionLists ==
    {list \in Seq(Instruction) :
        \A i \in 1..Len(list) :
            list[i] = "HANDLE_DOES_NOT_UNDERSTAND" => i = Len(list)}

ASSUME ConnAssumption == Nobody \notin Conn
ASSUME SubjectsAssumption == AppSubjects \cap SystemSubjects = {}
ASSUME BoundsAssumption == Callers \subseteq Conn /\ MaxSends \in Nat
ASSUME FnAssumption ==
    \A c \in Conn : Fn[c] = Missing \/ Fn[c] \in InstructionLists

Ids == 1..MaxSends
AnonId == 0             \* an id that no send waits on
NotAReply == -1         \* _replyId is None

Message == [from : Conn \cup {Nobody}, to : Conn, subject : Subjects,
            id : Ids \cup {AnonId}, replyTo : Ids \cup {AnonId, NotAReply}]
ASSUME MissingAssumption == Missing \notin Message

Calls == Callers \X Ids   \* a send is named by its connection and its _msgId

VARIABLES
    conn,               \* see ConnStates
    inbox,              \* _inboxByREp
    seed,               \* _msgIdSeed: the last id given to a client's send
    call,               \* the sends: the caller's coroutine and its future
    entries,            \* keys of _futureAndSubjectsByReplyId
    polled,             \* connections with an inbox.get() task in the task list
    taskListChanged,    \* the event of that name
    ready,              \* the _deliver tasks created and not yet run, oldest first
    handling,           \* messages whose handler is suspended
    stage               \* the router's life: see Stages

vars == <<conn, inbox, seed, call, entries, polled, taskListChanged, ready,
          handling, stage>>
clientVars == <<seed, call, entries>>
loopVars == <<polled, taskListChanged, stage>>

\* An "open" connection is in _connectionByREp; shutdown() empties that, so that the
\* connection is "unlisted"; one that is "dropped" has been garbage collected.
ConnStates == {"new", "open", "unlisted", "dropped"}

\* shutdown() has set the event ("signalled"), the task that waits for the event
\* is done ("tripped"), the main loop has ended and set hasShutdown ("stopped").
Stages == {"running", "signalled", "tripped", "stopped"}

\* status: "unused", "cast" (sent, nobody waits), "waiting", "returned", "raised".
\* reply: the result of the future, then what send returned.
CallState ==
    [status : {"unused", "cast", "waiting", "returned", "raised"},
     to : Conn \cup {Nobody}, accepts : SUBSET Subjects,
     reply : Message \cup {Missing}]
Sent(status, to, accepts) ==
    [status |-> status, to |-> to, accepts |-> accepts, reply |-> Missing]

open == {c \in Conn : conn[c] \in {"open", "unlisted"}}   \* the keys of _inboxByREp
live == {c \in Conn : conn[c] = "open"}                  \* the keys of _connectionByREp

Init ==
    /\ conn = [c \in Conn |-> "new"]
    /\ inbox = [c \in Conn |-> <<>>]
    /\ seed = [c \in Conn |-> 0]
    /\ call = [k \in Calls |-> Sent("unused", Nobody, {})]
    /\ entries = {}
    /\ polled = {}
    /\ taskListChanged = FALSE
    /\ ready = <<>>
    /\ handling = {}
    /\ stage = "running"

----------------------------------------------------------------------------
\* Messages and routing

IsReply(m) == m.replyTo # NotAReply

\* msg.reply(..., subject=s), sent by send() without a timeout
Reply(m, s) == [from |-> m.to, to |-> m.from, subject |-> s, id |-> AnonId,
                replyTo |-> m.id]

\* what _route makes of a message to a connection without an inbox: it has no replyAddr
Bounce(m) == [from |-> Nobody, to |-> m.from, subject |-> "MSG_NOT_DELIVERED",
              id |-> AnonId, replyTo |-> m.id]

\* faulty: no bounce
RouteSilently(box, m) ==
    IF m.to \in open THEN [box EXCEPT ![m.to] = Append(@, m)] ELSE box

\* the inboxes after _route(m), when they were box before
Route(box, m) ==
    IF m.to \in open THEN [box EXCEPT ![m.to] = Append(@, m)]
    ELSE IF m.subject # "MSG_NOT_DELIVERED" /\ m.from \in open
         THEN [box EXCEPT ![m.from] = Append(@, Bounce(m))]
         ELSE box

\* send(msg.reply(...)): to a message that carries no replyAddr it raises
Answer(box, m, s) == IF m.from = Nobody THEN box ELSE Route(box, Reply(m, s))

----------------------------------------------------------------------------
\* Connections come and go

\* also after shutdown()
NewConnection(c) ==
    /\ conn[c] = "new"
    /\ conn' = [conn EXCEPT ![c] = "open"]
    /\ taskListChanged' = TRUE
    /\ UNCHANGED <<inbox, clientVars, polled, ready, handling, stage>>

\* Nobody holds the connection any more, and neither does a coroutine of its own.
Idle(c) ==
    /\ \A k \in Calls : k[1] = c => call[k].status # "waiting"
    /\ \A i \in 1..Len(ready) : ready[i].to # c
    /\ \A m \in handling : m.to # c

\* __del__ runs: the inbox goes with the messages in it.  The dictionary that
\* shutdown() puts in the place of the weak one holds what is made later.
Drop(c) ==
    /\ c \in IF stage = "running" THEN open ELSE open \ live
    /\ Idle(c)
    /\ conn' = [conn EXCEPT ![c] = "dropped"]
    /\ inbox' = [inbox EXCEPT ![c] = <<>>]
    /\ entries' = {k \in entries : k[1] # c}
    /\ taskListChanged' = TRUE
    /\ UNCHANGED <<seed, call, polled, ready, handling, stage>>

----------------------------------------------------------------------------
\* send

Request(c, to, s) == [from |-> c, to |-> to, subject |-> s, id |-> seed[c] + 1,
                      replyTo |-> NotAReply]

NextSend(c) ==
    /\ c \in Callers
    /\ c \in open
    /\ seed[c] < MaxSends
    /\ seed' = [seed EXCEPT ![c] = @ + 1]

\* without a timeout: nobody waits
Cast(c, to, s) ==
    /\ NextSend(c)
    /\ call' = [call EXCEPT ![<<c, seed[c] + 1>>] = Sent("cast", to, {})]
    /\ inbox' = Route(inbox, Request(c, to, s))
    /\ UNCHANGED <<conn, entries, loopVars, ready, handling>>

\* with a timeout: the entry is made, the message routed, and the caller waits
Call(c, to, s, additional) ==
    LET k == <<c, seed[c] + 1>>
    IN  /\ NextSend(c)
        /\ call' = [call EXCEPT ![k] = Sent("waiting", to, {s} \cup additional)]
        /\ entries' = entries \cup {k}
        /\ inbox' = Route(inbox, Request(c, to, s))
        /\ UNCHANGED <<conn, loopVars, ready, handling>>

\* to another router: _route raises after the entry is made, and nothing takes it out
CallElsewhere(c, s) ==
    LET k == <<c, seed[c] + 1>>
    IN  /\ NextSend(c)
        /\ call' = [call EXCEPT ![k] = Sent("raised", Nobody, {s})]
        /\ entries' = entries \cup {k}
        /\ UNCHANGED <<conn, inbox, loopVars, ready, handling>>

ShutdownTaskDone == stage \in {"tripped", "stopped"}

\* faulty: None instead of the sentinel Missing
ReturnNone(k, res) ==
    /\ call[k].status = "waiting"
    /\ call' = [call EXCEPT ![k].status = "returned",
                            ![k].reply = IF res = Missing THEN Nobody ELSE res]
    /\ entries' = entries \ {k}
    /\ UNCHANGED <<conn, inbox, seed, loopVars, ready, handling>>

\* faulty: the entry is not popped
ReturnKeepingEntry(k, res) ==
    /\ call[k].status = "waiting"
    /\ call' = [call EXCEPT ![k].status = "returned", ![k].reply = res]
    /\ UNCHANGED <<conn, inbox, seed, entries, loopVars, ready, handling>>

ReturnWith(k, res) ==
    /\ call[k].status = "waiting"
    /\ call' = [call EXCEPT ![k].status = "returned", ![k].reply = res]
    /\ entries' = entries \ {k}
    /\ UNCHANGED <<conn, inbox, seed, loopVars, ready, handling>>

\* faulty: the future is looked at before the shutdown task
ResumeFutureFirst(k) ==
    /\ ShutdownTaskDone \/ call[k].reply # Missing
    /\ ReturnWith(k, call[k].reply)

\* faulty: the shutdown task is not waited for
ResumeOnReply(k) ==
    /\ call[k].reply # Missing
    /\ ReturnWith(k, call[k].reply)

\* The waiter resumes because the shutdown task or its future is done; the
\* shutdown task is looked at first.
Resume(k) ==
    /\ ShutdownTaskDone \/ call[k].reply # Missing
    /\ ReturnWith(k, IF ShutdownTaskDone THEN Missing ELSE call[k].reply)

\* The timeout expires: the future is looked at all the same (Resume).
TimeOut(k) ==
    /\ ~ShutdownTaskDone
    /\ call[k].reply = Missing
    /\ ReturnWith(k, Missing)

\* The caller's task is cancelled, with or without its reply.
Cancel(k) == ReturnWith(k, Missing)

----------------------------------------------------------------------------
\* The main loop

TaskListChanged ==
    /\ stage # "stopped"
    /\ taskListChanged
    /\ taskListChanged' = FALSE
    /\ polled' = live
    /\ UNCHANGED <<conn, inbox, clientVars, ready, handling, stage>>

\* A message for a connection that is no longer in _connectionByREp is dropped,
\* and its inbox is not watched again.
MsgArrived(c) ==
    /\ stage # "stopped"
    /\ c \in polled
    /\ inbox[c] # <<>>
    /\ inbox' = [inbox EXCEPT ![c] = Tail(@)]
    /\ IF c \in live
       THEN ready' = Append(ready, Head(inbox[c])) /\ UNCHANGED polled
       ELSE polled' = polled \ {c} /\ UNCHANGED ready
    /\ UNCHANGED <<conn, clientVars, taskListChanged, handling, stage>>

\* Router.shutdown(), for the first time or again
ShutsTheRouterDown ==
    /\ conn' = [c \in Conn |-> IF conn[c] = "open" THEN "unlisted" ELSE conn[c]]
    /\ stage' = IF stage = "running" THEN "signalled" ELSE stage

Shutdown ==
    /\ ShutsTheRouterDown
    /\ UNCHANGED <<inbox, clientVars, polled, taskListChanged, ready, handling>>

\* _isShuttingDownTask runs to its end
Trip ==
    /\ stage = "signalled"
    /\ stage' = "tripped"
    /\ UNCHANGED <<conn, inbox, clientVars, polled, taskListChanged, ready, handling>>

\* the main loop sees the task done, cancels what it watches and sets hasShutdown
Stop ==
    /\ stage = "tripped"
    /\ stage' = "stopped"
    /\ polled' = {}
    /\ UNCHANGED <<conn, inbox, clientVars, taskListChanged, ready, handling>>

----------------------------------------------------------------------------
\* _deliver

\* the instructions of c's handler that are reached: the loop over them breaks
\* at IGNORE_UNHANDLED_REPLIES when the message is a reply
Reached(m) ==
    LET list == Fn[m.to]
    IN  {list[i] : i \in {i \in 1..Len(list) :
            IsReply(m) => \A j \in 1..i : list[j] # "IGNORE_UNHANDLED_REPLIES"}}

KnownToAgent(m) == m.subject \in AppSubjects /\ ~IsReply(m)
ShutsDown(m) ==
    /\ m.subject = "SHUTDOWN" /\ ~IsReply(m)
    /\ "HANDLE_SHUTDOWN" \in Reached(m)

Pinged(box, m) ==
    IF "HANDLE_PING" \in Reached(m) /\ m.subject = "PING" /\ ~IsReply(m)
    THEN Answer(box, m, "PING") ELSE box
NotUnderstood(box, m) ==
    IF "HANDLE_DOES_NOT_UNDERSTAND" \in Reached(m) /\ m.subject # "DOES_NOT_UNDERSTAND"
    THEN Answer(box, m, "DOES_NOT_UNDERSTAND") ELSE box

\* faulty: undeliverable messages about undeliverable messages
NoHandlerAlwaysTells(m) ==
    /\ Fn[m.to] = Missing
    /\ inbox' = Answer(inbox, m, "MSG_NOT_DELIVERED")
    /\ UNCHANGED <<conn, handling, stage>>

\* no handler: tell the sender, unless the message says as much itself
NoHandler(m) ==
    /\ Fn[m.to] = Missing
    /\ inbox' = IF m.subject = "MSG_NOT_DELIVERED" THEN inbox
                ELSE Answer(inbox, m, "MSG_NOT_DELIVERED")
    /\ UNCHANGED <<conn, handling, stage>>

\* the handler keeps a request it knows
AgentTakes(m) ==
    /\ Fn[m.to] # Missing
    /\ KnownToAgent(m)
    /\ handling' = handling \cup {m}
    /\ UNCHANGED <<conn, inbox, stage>>

\* it returns its instructions for any other message: PING is answered and then,
\* as nothing leaves the loop, DOES_NOT_UNDERSTAND is sent too
Instructed(m) ==
    /\ Fn[m.to] # Missing
    /\ ~KnownToAgent(m) /\ ~ShutsDown(m)
    /\ inbox' = NotUnderstood(Pinged(inbox, m), m)
    /\ UNCHANGED <<conn, handling, stage>>

\* HANDLE_SHUTDOWN: shut the router down and wait for it to have stopped
InstructedToShutdown(m) ==
    /\ Fn[m.to] # Missing
    /\ ShutsDown(m)
    /\ ShutsTheRouterDown
    /\ handling' = handling \cup {m}
    /\ UNCHANGED inbox

Handle(m) ==
    NoHandler(m) \/ AgentTakes(m) \/ Instructed(m) \/ InstructedToShutdown(m)

\* faulty: the subject is not looked at
ExpectedById(m) == <<m.to, m.replyTo>> \in entries

\* m replies to a send that has an entry, under a subject it accepts
Expected(m) ==
    /\ <<m.to, m.replyTo>> \in entries
    /\ m.subject \in call[<<m.to, m.replyTo>>].accepts

\* The entry of the send that m replies to is taken out whatever the subject
\* of m; the send gets m only when it accepts the subject.
Deliver ==
    /\ ready # <<>>
    /\ ready' = Tail(ready)
    /\ LET m == Head(ready)
           k == <<m.to, m.replyTo>>
       IN  /\ entries' = entries \ {k}
           /\ IF Expected(m)
              THEN /\ call' = IF call[k].reply = Missing
                              THEN [call EXCEPT ![k].reply = m] ELSE call
                   /\ UNCHANGED <<conn, inbox, handling, stage>>
              ELSE Handle(m) /\ UNCHANGED call
    /\ UNCHANGED <<seed, polled, taskListChanged>>

\* the handler answers the request it kept, under a subject of its choice
AgentReplies(m, s) ==
    /\ m \in handling /\ KnownToAgent(m)
    /\ handling' = handling \ {m}
    /\ inbox' = Answer(inbox, m, s)
    /\ UNCHANGED <<conn, clientVars, loopVars, ready>>

\* or returns without an answer
AgentIsDone(m) ==
    /\ m \in handling /\ KnownToAgent(m)
    /\ handling' = handling \ {m}
    /\ UNCHANGED <<conn, inbox, clientVars, loopVars, ready>>

\* the instructions after HANDLE_SHUTDOWN, once the router has stopped
AfterShutdown(m) ==
    /\ stage = "stopped"
    /\ m \in handling /\ ShutsDown(m)
    /\ handling' = handling \ {m}
    /\ inbox' = NotUnderstood(inbox, m)
    /\ UNCHANGED <<conn, clientVars, loopVars, ready>>

----------------------------------------------------------------------------

Additional == {{}, {"MSG_NOT_DELIVERED"}}
\* what a client sends: the subjects the agents know, and the two the instructions do
ClientSubjects == AppSubjects \cup {"PING", "SHUTDOWN"}

Client ==
    \E c \in Conn :
        \/ NewConnection(c)
        \/ Drop(c)
        \/ \E to \in Conn, s \in ClientSubjects : Cast(c, to, s)
        \/ \E to \in Conn, s \in ClientSubjects, a \in Additional : Call(c, to, s, a)
        \/ \E s \in ClientSubjects : CallElsewhere(c, s)
Waiter == \E k \in Calls : Resume(k) \/ TimeOut(k) \/ Cancel(k)
MainLoop == TaskListChanged \/ Stop \/ \E c \in Conn : MsgArrived(c)
Agent ==
    \E m \in handling :
        \/ \E s \in AppSubjects : AgentReplies(m, s)
        \/ AgentIsDone(m)
        \/ AfterShutdown(m)

Next == Client \/ Waiter \/ MainLoop \/ Shutdown \/ Trip \/ Deliver \/ Agent

Spec == Init /\ [][Next]_vars

=============================================================================
