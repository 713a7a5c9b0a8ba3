------------------------ MODULE DirectoryProperties ------------------------
(***************************************************************************)
(* What directories that share their entries promise.                      *)
(***************************************************************************)
EXTENDS Directory

\* Every variable has its type.
TypeOK ==
    /\ alive \in [Agent -> BOOLEAN]
    /\ entries \in [Dir -> SUBSET Entry]
    /\ told \in [Dir -> BOOLEAN]
    /\ stale \in [Dir -> SUBSET Address]
    /\ heartbeatDue \in [Dir -> BOOLEAN]
    /\ mail \in SUBSET Mail
    /\ unregistered \subseteq Agent

\* e means the same agent to a router of machine m as to the agent's own: without
\* a network address that is an agent of the machine, with one it is an agent
\* of the machine that has the address.
ReachableFrom(e, m) ==
    IF e.net = None THEN Machine[Home[e.agent]] = m
    ELSE Machine[Home[e.agent]] = Machine[e.net]

\* Whoever an entry has come through, and wherever it may go on to, its address
\* leads to the agent that registered it.
EntriesAreReachable ==
    /\ \A d \in Dir : \A e \in entries[d] : ReachableFrom(e, Machine[d])
    /\ \A m \in mail : \A e \in m.entries : ReachableFrom(e, Machine[m.to])

\* An entry without vnets is local: no other directory gets to know it, neither
\* by a share nor by an answer (1138: "share all except my local entries").
LocalEntriesStay ==
    /\ \A d \in Dir : \A e \in entries[d] : e.vnets = NoVnets => Home[e.agent] = d
    /\ \A m \in mail : \A e \in m.entries : e.vnets # NoVnets

\* A directory has one entry for an address, even when an agent registers anew
\* with other vnets while shares and answers with the old ones are under way.
OneEntryPerAddress ==
    \A d \in Dir : \A e, f \in entries[d] : AddressOf(e) = AddressOf(f) => e = f

(***************************************************************************)
(* Liveness                                                                *)
(***************************************************************************)

SharesArrive(d, h) == \E m \in mail : m.from = d /\ m.to = h /\ ShareArrives(m)
AnswersArrive(h, d) == \E m \in mail : m.from = h /\ m.to = d /\ AnswerArrives(m)

\* The timers run, and that the bound on mail has stopped one does not stop it
\* for ever; of messages that are sent again and again some arrive; a message does
\* not stay under way.  Nothing is assumed of agents.
Fairness ==
    /\ \A d \in Dir : SF_vars(EnsureNetwork(d)) /\ WF_vars(Heartbeat(d))
    /\ \A d \in Dir : \A h \in Hubs[d] : SF_vars(SharesArrive(d, h)) /\ SF_vars(AnswersArrive(h, d))
    /\ WF_vars(\E m \in mail : MailArrives(m) \/ Lose(m))

FairSpec == Spec /\ Fairness

\* d knows the address of e, and its vnets too unless the agent has been unregistered
Knows(d, e) == \E f \in entries[d] :
    /\ AddressOf(f) = AddressOf(e)
    /\ e.agent \in unregistered \/ f.vnets = e.vnets

\* d and its hub know the same, but for the entries that are not for sharing
Agrees(d, h) ==
    /\ \A e \in entries[d] : Local \in e.vnets => Knows(h, e)
    /\ \A e \in entries[h] : e.vnets # NoVnets => Knows(d, e)

\* In the end a directory that can share and its hub know the same agents, for
\* ever, also if messages are lost and cross unregistrations; and each has the
\* vnets the agent registered with.  An agent that has been unregistered is the
\* exception to the latter: when it registers with other vnets, a directory that
\* still has the old entry keeps that (1116: the address is there already).
Converges ==
    \A d \in Dir : \A h \in Hubs[d] : <>[](CanShare(d) => Agrees(d, h))

\* The entries of an agent that does not answer any more go from the directory it
\* registered with, if that has heartbeats.
DeadEntriesGo ==
    \A a \in Agent : Home[a] \in Heartbeating =>
        [](~alive[a] => <>(\A e \in entries[Home[a]] : e.agent # a))

=============================================================================
