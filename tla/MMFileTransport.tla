-------------------------- MODULE MMFileTransport --------------------------
(***************************************************************************)
(* A connection between two processes over memory mapped files (vb6:       *)
(* VLMMMFileTransport.cls, VLMMMFileListener.cls).                         *)
(*                                                                         *)
(* Each end owns a window, to which the other posts window messages, and a *)
(* mapped file with room for one message, which the other reads.  An end   *)
(* sends one message at a time: it writes its file, posts InTransit, and   *)
(* waits for Received.  Messages that arrive are queued and offered to the *)
(* application, which may refuse; a timer then offers them again.          *)
(*                                                                         *)
(* Each end is a process with one thread.  A handler runs to its end, but  *)
(* for the events bytesArrived and connected: the application's code runs  *)
(* inside them, may call send and disconnect, and, when it calls DoEvents, *)
(* lets other handlers of the same end run before it returns (MaxNesting). *)
(*                                                                         *)
(* The timer that repeats the connected event has no effect here.          *)
(* Garbled is not modelled: each end learns the size of the other's file,  *)
(* which the sender has checked.  Timeouts do not exist in the code.       *)
(***************************************************************************)
EXTENDS Integers, Sequences

CONSTANTS
    Data,           \* the messages
    Big,            \* those that do not fit the mapped file
    MaxSends,       \* bound: MaxSends[e] messages sent from the end e
    MaxNesting,     \* handlers of an end at a time: 1 without DoEvents
    Nothing         \* what a file holds before it is written

\* "A" calls connectViaNamedWindow, "B" is made by the listener.
End == {"A", "B"}
Peer(e) == IF e = "A" THEN "B" ELSE "A"

ASSUME DataAssumption == Big \subseteq Data /\ Nothing \notin Data
ASSUME BoundsAssumption ==
    /\ MaxSends \in [End -> Nat] /\ MaxNesting \in Nat \ {0}

WindowMessage == {"Request", "Agreed", "Acknowledged", "InTransit", "Received", "Disconnect"}

VARIABLES
    state,          \* myIsConnecting, myIsConnected: see States
    disconnecting,  \* myIsDisconnecting, and how far disconnect has come
    posted,         \* window messages posted to an end and not yet handled
    file,           \* what the end's mapped file holds
    isSending,      \* myIsSending
    sendQueue,      \* mySendQueue
    arrived,        \* myMessageInTransitQueue
    frames,         \* handlers waiting for an event to return, innermost last
    timer,          \* the MESSAGE_ARRIVED timer runs
    sends,          \* calls of send so far
    taken,          \* messages the application has received
    tooBig          \* history: the ends whose privateSendMessage has raised
                    \* "MMFile not big enough for message"

vars == <<state, disconnecting, posted, file, isSending, sendQueue, arrived,
          frames, timer, sends, taken, tooBig>>
sendVars == <<file, isSending, sendQueue, tooBig>>
receiveVars == <<arrived, frames, timer, taken>>

\* "crashed" is an access violation
States == {"none", "connecting", "connected", "closed", "crashed"}
\* "asking": the application has not yet received the disconnecting event;
\* "raised": disconnect has raised an error half way
Disconnects == {"no", "asking", "raised"}

\* A frame of bytesArrived offers a message, one of connected nothing.
ConnectedFrame == [kind |-> "connected", offer |-> Nothing]
Frame == [kind : {"arrival", "timer"}, offer : Data] \cup {ConnectedFrame}

Init ==
    /\ state = [e \in End |-> "none"]
    /\ disconnecting = [e \in End |-> "no"]
    /\ posted = [e \in End |-> <<>>]
    /\ file = [e \in End |-> Nothing]
    /\ isSending = [e \in End |-> FALSE]
    /\ sendQueue = [e \in End |-> <<>>]
    /\ arrived = [e \in End |-> <<>>]
    /\ frames = [e \in End |-> <<>>]
    /\ timer = [e \in End |-> FALSE]
    /\ sends = [e \in End |-> 0]
    /\ taken = [e \in End |-> <<>>]
    /\ tooBig = {}

HasWindow(e) == state[e] \in {"connecting", "connected"}

\* Posting to a window that is gone fails.
Post(e, messages) == [posted EXCEPT ![e] = IF HasWindow(e) THEN @ \o messages ELSE @]

\* e handles its next window message and posts messages to the other end
HandleAndPost(e, messages) ==
    posted' = [Post(Peer(e), messages) EXCEPT ![e] = Tail(@)]

\* the thread of e can run a handler
CanHandle(e) == HasWindow(e) /\ Len(frames[e]) < MaxNesting

Handles(e, message) ==
    /\ CanHandle(e)
    /\ posted[e] # <<>> /\ Head(posted[e]) = message
    /\ disconnecting[e] = "no"

----------------------------------------------------------------------------
\* Sending

\* what it does to the file, or the error it raises
WriteFile(e, message) ==
    /\ file' = IF message \in Big THEN file ELSE [file EXCEPT ![e] = message]
    /\ tooBig' = IF message \in Big THEN tooBig \cup {e} ELSE tooBig

\* faulty: isSending is not set, so that the next call of send writes the file
PrivateSendUnmarked(e, queue) ==
    /\ sendQueue' = [sendQueue EXCEPT ![e] = Tail(queue)]
    /\ isSending' = [isSending EXCEPT ![e] = FALSE]
    /\ WriteFile(e, Head(queue))

\* privateSendMessage takes the first message of queue.  One that is too big
\* raises an error: it is not sent, and no Received will come.
PrivateSend(e, queue) ==
    /\ sendQueue' = [sendQueue EXCEPT ![e] = Tail(queue)]
    /\ isSending' = [isSending EXCEPT ![e] = TRUE]
    /\ WriteFile(e, Head(queue))

InTransit(queue) == IF Head(queue) \in Big THEN <<>> ELSE <<"InTransit">>

\* disconnect has unmapped the file: a message that fits is copied to address 0
Crashes(e, queue) ==
    /\ disconnecting[e] # "no" \/ state[e] = "closed"
    /\ Head(queue) \notin Big

Crash(e) ==
    /\ state' = [state EXCEPT ![e] = "crashed"]
    /\ posted' = [posted EXCEPT ![e] = <<>>]
    /\ UNCHANGED sendVars

PrivateSendAndPost(e, queue) ==
    /\ PrivateSend(e, queue)
    /\ posted' = Post(Peer(e), InTransit(queue))
    /\ UNCHANGED state

CallsSend(e) ==
    /\ HasWindow(e)
    /\ sends[e] < MaxSends[e]
    /\ sends' = [sends EXCEPT ![e] = @ + 1]

\* while connecting, or waiting for Received: the message is queued, also when
\* send then raises "1000 messages in queue"
SendLater(e, d) ==
    /\ CallsSend(e)
    /\ isSending[e] \/ state[e] = "connecting"
    /\ sendQueue' = [sendQueue EXCEPT ![e] = Append(@, d)]
    /\ UNCHANGED <<state, disconnecting, posted, file, isSending, tooBig, receiveVars>>

SendNow(e, d) ==
    LET queue == Append(sendQueue[e], d)
    IN  /\ CallsSend(e)
        /\ ~isSending[e] /\ state[e] = "connected"
        /\ ~Crashes(e, queue)
        /\ PrivateSendAndPost(e, queue)
        /\ UNCHANGED <<disconnecting, receiveVars>>

SendCrashes(e, d) ==
    /\ CallsSend(e)
    /\ ~isSending[e] /\ state[e] = "connected"
    /\ Crashes(e, Append(sendQueue[e], d))
    /\ Crash(e)
    /\ UNCHANGED <<disconnecting, receiveVars>>

\* the other end has read the file
Received(e) ==
    /\ Handles(e, "Received")
    /\ IF sendQueue[e] # <<>>
       THEN /\ PrivateSend(e, sendQueue[e])
            /\ HandleAndPost(e, InTransit(sendQueue[e]))
       ELSE /\ isSending' = [isSending EXCEPT ![e] = FALSE]
            /\ HandleAndPost(e, <<>>)
            /\ UNCHANGED <<file, sendQueue, tooBig>>
    /\ UNCHANGED <<state, disconnecting, receiveVars, sends>>

----------------------------------------------------------------------------
\* Connecting

\* connectViaNamedWindow
Connect ==
    /\ state["A"] = "none"
    /\ state' = [state EXCEPT !["A"] = "connecting"]
    /\ posted' = [posted EXCEPT !["B"] = <<"Request">>]
    /\ UNCHANGED <<disconnecting, sendVars, receiveVars, sends>>

\* The listener makes the other end, which posts Agreed; if that fails its
\* initialisation raises an error and nobody gets to see it.
Request ==
    /\ state["B"] = "none" /\ posted["B"] # <<>>
    /\ state' = [state EXCEPT !["B"] = IF HasWindow("A") THEN "connecting" ELSE "closed"]
    /\ posted' = [Post("A", <<"Agreed">>) EXCEPT !["B"] = <<>>]
    /\ UNCHANGED <<disconnecting, sendVars, receiveVars, sends>>

\* e is connected, tells the other end, and raises connected
Established(e, message, reply) ==
    /\ Handles(e, message)
    /\ state' = [state EXCEPT ![e] = "connected"]
    /\ HandleAndPost(e, reply)
    /\ frames' = [frames EXCEPT ![e] = Append(@, ConnectedFrame)]
    /\ UNCHANGED <<disconnecting, sendVars, arrived, timer, sends, taken>>

Agreed(e) == Established(e, "Agreed", <<"Acknowledged">>)
Acknowledged(e) == Established(e, "Acknowledged", <<>>)

Innermost(e) == frames[e][Len(frames[e])]
Outer(e) == SubSeq(frames[e], 1, Len(frames[e]) - 1)
Running(e) == frames[e] # <<>> /\ state[e] # "crashed"

\* connected comes back, and what was sent while connecting goes, unless the
\* application has sent or disconnected inside the event
ConnectedReturns(e) ==
    LET queue == sendQueue[e]
    IN  /\ Running(e) /\ Innermost(e).kind = "connected"
        /\ frames' = [frames EXCEPT ![e] = Outer(e)]
        /\ \/ /\ isSending[e] \/ queue = <<>>
              /\ UNCHANGED <<state, posted, sendVars>>
           \/ /\ ~isSending[e] /\ queue # <<>> /\ ~Crashes(e, queue)
              /\ PrivateSendAndPost(e, queue)
           \/ /\ ~isSending[e] /\ queue # <<>> /\ Crashes(e, queue)
              /\ Crash(e)
        /\ UNCHANGED <<disconnecting, arrived, timer, sends, taken>>

----------------------------------------------------------------------------
\* Receiving

Offer(e, kind, queue) ==
    frames' = [frames EXCEPT ![e] = Append(@, [kind |-> kind, offer |-> Head(queue)])]

\* faulty: an end reads its own file
MessageInTransitOwnFile(e) ==
    LET queue == Append(arrived[e], file[e])
    IN  /\ Handles(e, "InTransit")
        /\ HandleAndPost(e, <<"Received">>)
        /\ arrived' = [arrived EXCEPT ![e] = queue]
        /\ Offer(e, "arrival", queue)
        /\ UNCHANGED <<state, disconnecting, sendVars, timer, sends, taken>>

\* faulty: the sender is not told
MessageInTransitUnanswered(e) ==
    LET queue == Append(arrived[e], file[Peer(e)])
    IN  /\ Handles(e, "InTransit")
        /\ HandleAndPost(e, <<>>)
        /\ arrived' = [arrived EXCEPT ![e] = queue]
        /\ Offer(e, "arrival", queue)
        /\ UNCHANGED <<state, disconnecting, sendVars, timer, sends, taken>>

\* read the file, tell the sender, queue the message and offer the oldest
MessageInTransit(e) ==
    LET queue == Append(arrived[e], file[Peer(e)])
    IN  /\ Handles(e, "InTransit")
        /\ HandleAndPost(e, <<"Received">>)
        /\ arrived' = [arrived EXCEPT ![e] = queue]
        /\ Offer(e, "arrival", queue)
        /\ UNCHANGED <<state, disconnecting, sendVars, timer, sends, taken>>

\* the MESSAGE_ARRIVED timer, which disconnecting does not stop
Timer(e) ==
    /\ CanHandle(e) /\ timer[e]
    /\ IF arrived[e] = <<>>
       THEN timer' = [timer EXCEPT ![e] = FALSE] /\ UNCHANGED frames
       ELSE Offer(e, "timer", arrived[e]) /\ UNCHANGED timer
    /\ UNCHANGED <<state, disconnecting, posted, sendVars, arrived, sends, taken>>

Offering(e) == Running(e) /\ Innermost(e).kind # "connected"

\* faulty: the message goes although nobody has received it
RefusesAndRemoves(e) ==
    /\ Offering(e)
    /\ frames' = [frames EXCEPT ![e] = Outer(e)]
    /\ arrived' = [arrived EXCEPT ![e] = IF @ = <<>> THEN @ ELSE Tail(@)]
    /\ UNCHANGED <<state, disconnecting, posted, sendVars, timer, sends, taken>>

\* bytesArrived comes back and nobody has received the message
Refuses(e) ==
    /\ Offering(e)
    /\ frames' = [frames EXCEPT ![e] = Outer(e)]
    /\ timer' = IF Innermost(e).kind = "arrival" /\ arrived[e] # <<>> /\ HasWindow(e)
                THEN [timer EXCEPT ![e] = TRUE] ELSE timer
    /\ UNCHANGED <<state, disconnecting, posted, sendVars, arrived, sends, taken>>

\* or somebody has: the head of the queue, whatever it is now, is removed, and
\* the next one is offered by the same handler
Receives(e) ==
    LET queue == IF arrived[e] = <<>> THEN <<>> ELSE Tail(arrived[e])
        frame == Innermost(e)
    IN  /\ Offering(e)
        /\ taken' = [taken EXCEPT ![e] = Append(@, frame.offer)]
        /\ arrived' = [arrived EXCEPT ![e] = queue]
        /\ IF queue # <<>>
           THEN /\ frames' = [frames EXCEPT ![e] =
                        Append(Outer(e), [kind |-> frame.kind, offer |-> Head(queue)])]
                /\ UNCHANGED timer
           ELSE /\ frames' = [frames EXCEPT ![e] = Outer(e)]
                \* the timer's handler raises an error when it finds the queue empty
                /\ timer' = IF frame.kind = "timer" /\ arrived[e] # <<>>
                            THEN [timer EXCEPT ![e] = FALSE] ELSE timer
        /\ UNCHANGED <<state, disconnecting, posted, sendVars, sends>>

----------------------------------------------------------------------------
\* Disconnecting

\* the window is destroyed, with what is posted to it and its timers
Finish(e, post) ==
    /\ state' = [state EXCEPT ![e] = "closed"]
    /\ disconnecting' = [disconnecting EXCEPT ![e] = "no"]
    /\ posted' = [post EXCEPT ![e] = <<>>]
    /\ timer' = [timer EXCEPT ![e] = FALSE]

Ask(e, post) ==
    /\ disconnecting' = [disconnecting EXCEPT ![e] = "asking"]
    /\ posted' = post
    /\ UNCHANGED <<state, timer>>

\* the other end, once it is known, is told
Tell(e, post) ==
    IF state[e] = "connected" /\ HasWindow(Peer(e))
    THEN [post EXCEPT ![Peer(e)] = Append(@, "Disconnect")] ELSE post

\* faulty: when the application receives the event at once, nobody is told
DisconnectingSilently(e, post) == Ask(e, Tell(e, post)) \/ Finish(e, post)

\* disconnect: "A" does not know the other end before Agreed, "B" has not
\* mapped its file before Acknowledged, and unmapping it raises an error
Disconnecting(e, post) ==
    IF state[e] = "connecting" /\ e = "B"
    THEN /\ disconnecting' = [disconnecting EXCEPT ![e] = "raised"]
         /\ posted' = post
         /\ UNCHANGED <<state, timer>>
    ELSE Ask(e, Tell(e, post)) \/ Finish(e, Tell(e, post))

\* the application calls disconnect
Disconnect(e) ==
    /\ HasWindow(e) /\ disconnecting[e] = "no"
    /\ Disconnecting(e, posted)
    /\ UNCHANGED <<sendVars, arrived, frames, sends, taken>>

\* the other end has disconnected
Disconnected(e) ==
    /\ Handles(e, "Disconnect")
    /\ Disconnecting(e, [posted EXCEPT ![e] = Tail(@)])
    /\ UNCHANGED <<sendVars, arrived, frames, sends, taken>>

\* the DISCONNECTING timer: the application receives the event at last
DisconnectTimer(e) ==
    /\ CanHandle(e)
    /\ disconnecting[e] = "asking"
    /\ Finish(e, posted)
    /\ UNCHANGED <<sendVars, arrived, frames, sends, taken>>

\* processWinProc while disconnecting
Ignore(e) ==
    /\ CanHandle(e)
    /\ disconnecting[e] # "no" /\ posted[e] # <<>>
    /\ posted' = [posted EXCEPT ![e] = Tail(@)]
    /\ UNCHANGED <<state, disconnecting, sendVars, receiveVars, sends>>

----------------------------------------------------------------------------

Application(e) ==
    \/ \E d \in Data : SendLater(e, d) \/ SendNow(e, d) \/ SendCrashes(e, d)
    \/ ConnectedReturns(e) \/ Refuses(e) \/ Receives(e)
    \/ Disconnect(e)

Window(e) ==
    \/ Agreed(e) \/ Acknowledged(e) \/ MessageInTransit(e) \/ Received(e)
    \/ Disconnected(e) \/ Ignore(e)

Next ==
    \/ Connect \/ Request
    \/ \E e \in End : Application(e) \/ Window(e) \/ Timer(e) \/ DisconnectTimer(e)

Spec == Init /\ [][Next]_vars

=============================================================================
