---------------------------- MODULE RequestReply ----------------------------
(***************************************************************************)
(* What Connection.send(msg, timeout) promises its callers, whatever the   *)
(* router does: a call is made once, is settled by at most one message,    *)
(* which answers it, and returns once, with that message or with Missing.  *)
(* Once the router is closed no call returns a message any more.           *)
(***************************************************************************)
CONSTANTS
    Calls,      \* pairs of a connection and a message id
    Requests,    \* records: the connection asked (to), the subjects accepted (accepts)
    Message,    \* the messages
    Missing,    \* the result of a call that got no reply
    Nobody      \* the sender of a message that the router itself made

VARIABLES phase, ask, value, closed

absVars == <<phase, ask, value, closed>>

\* m answers the request r of call k: it comes back to the caller under the
\* call's id, from the connection asked or from the router, with a subject
\* the caller accepts.
Answers(m, k, r) ==
    /\ m \in Message
    /\ m.to = k[1]
    /\ m.replyTo = k[2]
    /\ m.from \in {r.to, Nobody}
    /\ m.subject \in r.accepts

Init ==
    /\ phase = [k \in Calls |-> "idle"]
    /\ ask = [k \in Calls |-> Missing]
    /\ value = [k \in Calls |-> Missing]
    /\ closed = FALSE

Ask(k) ==
    /\ phase[k] = "idle"
    /\ phase' = [phase EXCEPT ![k] = "asked"]
    /\ \E r \in Requests : ask' = [ask EXCEPT ![k] = r]
    /\ UNCHANGED <<value, closed>>

Settle(k) ==
    /\ phase[k] = "asked"
    /\ phase' = [phase EXCEPT ![k] = "settled"]
    /\ Answers(value'[k], k, ask[k])
    /\ value' = [value EXCEPT ![k] = value'[k]]
    /\ UNCHANGED <<ask, closed>>

\* with the message that settled the call
Return(k) ==
    /\ ~closed
    /\ phase[k] = "settled"
    /\ phase' = [phase EXCEPT ![k] = "done"]
    /\ UNCHANGED <<ask, value, closed>>

\* a timeout, a cancellation, a shutdown: settled or not, the call gets Missing
GiveUp(k) ==
    /\ phase[k] \in {"asked", "settled"}
    /\ phase' = [phase EXCEPT ![k] = "done"]
    /\ value' = [value EXCEPT ![k] = Missing]
    /\ UNCHANGED <<ask, closed>>

Close ==
    /\ ~closed
    /\ closed' = TRUE
    /\ UNCHANGED <<phase, ask, value>>

Next == Close \/ \E k \in Calls : Ask(k) \/ Settle(k) \/ Return(k) \/ GiveUp(k)

Spec == Init /\ [][Next]_absVars

=============================================================================
