----------------------------- MODULE Directory -----------------------------
(***************************************************************************)
(* Directories that share their entries (_core.py: Directory).             *)
(*                                                                         *)
(* Agents register with the directory of their router.  A timer makes each *)
(* directory send its entries to the hubs of its machine, and ask those of *)
(* the network; a hub adds what is new to it and answers with its own.     *)
(*                                                                         *)
(* Abstractions:                                                           *)
(*  - an agent offers one service, and entries differ in the agent, the    *)
(*    network address it is reached at and the virtual networks; the order *)
(*    of entries is left out;                                              *)
(*  - a handler or a timer function of a directory does not suspend: its   *)
(*    sends do not wait for replies;                                       *)
(*  - messages between routers may be lost, see SocketBundle; those of an  *)
(*    agent to its own directory are not;                                  *)
(*  - hubs listen from the start and have one address each, a directory    *)
(*    has one network hub at most, and entries are well formed.            *)
(***************************************************************************)
EXTENDS Integers, FiniteSets

CONSTANTS
    Dir,            \* the directories, one per router
    Machine,        \* the machine of a directory
    Hubs,           \* _hubs but for the directory itself: hubs of its machine
    NetHub,         \* _netHubs: a hub of another machine, or None
    Served,         \* _vnets
    Agent,
    Home,           \* the directory of an agent's router
    Offers,         \* the vnets with which an agent may register
    Vnet,
    Local,          \* LOCAL_VNET
    Heartbeating,   \* directories with heartbeatEntriesTimeout > 0
    None,           \* no network address, no network hub
    Null,           \* no virtual network
    MaxUnregistered,    \* bound: agents that are unregistered, once each
    MaxMail             \* bound: messages between directories when a timer sends

NoVnets == {Null}   \* the vnets of a local entry: None
Vnets == (SUBSET Vnet) \cup {NoVnets}
NetAddr == Dir \cup {None}

ASSUME DirAssumption ==
    /\ None \notin Dir /\ Null \notin Vnet /\ Local \in Vnet
    /\ Home \in [Agent -> Dir] /\ Offers \in [Agent -> SUBSET Vnets]
    /\ Hubs \in [Dir -> SUBSET Dir] /\ NetHub \in [Dir -> NetAddr]
    /\ Served \in [Dir -> SUBSET Vnet]
    /\ Heartbeating \subseteq Dir
    /\ MaxUnregistered \in Nat /\ MaxMail \in Nat

\* how hubs are configured
ASSUME HubAssumption ==
    \A d \in Dir :
        /\ \A h \in Hubs[d] : h # d /\ Machine[h] = Machine[d]
        /\ NetHub[d] # None => Machine[NetHub[d]] # Machine[d]

Entry == [agent : Agent, net : NetAddr, vnets : Vnets]
Address == [agent : Agent, net : NetAddr]
AddressOf(e) == [agent |-> e.agent, net |-> e.net]

\* "ask" and "told" are GET_VNETS, "share" and "answer" are SHARE_ENTRIES;
\* byNet: the message travels over the network
Mail == [kind : {"ask", "told", "share", "answer"}, from : Dir, to : Dir,
         byNet : BOOLEAN, entries : SUBSET Entry]

VARIABLES
    alive,          \* agents whose connection exists
    entries,        \* _entries
    told,           \* the network hub is in _vnetsByHub
    stale,          \* _potentiallyStale
    heartbeatDue,   \* _heartbeatEntries is scheduled
    mail,           \* messages between directories under way
    unregistered    \* history: agents that have been unregistered

vars == <<alive, entries, told, stale, heartbeatDue, mail, unregistered>>

Init ==
    /\ alive = [a \in Agent |-> TRUE]
    /\ entries = [d \in Dir |-> {}]
    /\ told = [d \in Dir |-> FALSE]
    /\ stale = [d \in Dir |-> {}]
    /\ heartbeatDue = [d \in Dir |-> d \in Heartbeating]
    /\ mail = {}
    /\ unregistered = {}

Letter(kind, from, to, byNet, es) ==
    [kind |-> kind, from |-> from, to |-> to, byNet |-> byNet, entries |-> es]

\* what is new to known: an address that is there already keeps its entry
Merge(known, new) ==
    known \cup {e \in new : \A f \in known : AddressOf(f) # AddressOf(e)}

----------------------------------------------------------------------------
\* Agents

\* msgArrived, REGISTER_ENTRY.  The message is sent to directoryAddr, so that its
\* replyAddr has no router in it: it is not the address of an entry, and nothing is
\* taken out of _potentiallyStale.
Register(a, v) ==
    LET d == Home[a]
        e == [agent |-> a, net |-> None, vnets |-> v]
    IN  /\ alive[a]
        /\ entries' = [entries EXCEPT ![d] = Merge(@, {e})]
        /\ UNCHANGED <<alive, told, stale, heartbeatDue, mail, unregistered>>

\* once per agent
IsUnregistered(a) ==
    /\ a \notin unregistered
    /\ unregistered' = unregistered \cup {a}
    /\ Cardinality(unregistered') <= MaxUnregistered

\* UNREGISTER_ENTRY, of its own entry
UnregisterEntry(a, e) ==
    /\ alive[a] /\ e.agent = a /\ e \in entries[Home[a]]
    /\ IsUnregistered(a)
    /\ entries' = [entries EXCEPT ![Home[a]] = @ \ {e}]
    /\ UNCHANGED <<alive, told, stale, heartbeatDue, mail>>

\* UNREGISTER_ADDR, of an agent that somebody could not reach
UnregisterAddr(d, address) ==
    /\ ~alive[address.agent]
    /\ \E e \in entries[d] : AddressOf(e) = address
    /\ IsUnregistered(address.agent)
    /\ entries' = [entries EXCEPT ![d] = {e \in @ : AddressOf(e) # address}]
    /\ UNCHANGED <<alive, told, stale, heartbeatDue, mail>>

Die(a) ==
    /\ alive[a]
    /\ alive' = [alive EXCEPT ![a] = FALSE]
    /\ UNCHANGED <<entries, told, stale, heartbeatDue, mail, unregistered>>

----------------------------------------------------------------------------
\* Sharing

\* With a local entry the search for LOCAL_VNET in its vnets raises, before
\* anything is sent.
CanShare(d) == Hubs[d] = {} \/ \A e \in entries[d] : e.vnets # NoVnets

Share(d) ==
    {Letter("share", d, h, FALSE, {e \in entries[d] : Local \in e.vnets}) : h \in Hubs[d]}

\* An answer of the network hub is there, but the condition that fetches it
\* replaces it by a truth value: looking for an entry's vnets in that raises.
CanShareByNet(d) == \A e \in entries[d] : e.vnets = {}

\* no entry is ever in what is shared with a network hub
ShareByNet(d) ==
    IF NetHub[d] = None THEN {}
    ELSE IF ~told[d] THEN {Letter("ask", d, NetHub[d], TRUE, {})}
    ELSE IF CanShareByNet(d) THEN {Letter("share", d, NetHub[d], TRUE, {})} ELSE {}

\* _ensureNetwork, which runs once more, and to the same effect, when it raises;
\* its timer is set again in either case
EnsureNetwork(d) ==
    /\ CanShare(d)
    /\ Cardinality(mail) < MaxMail
    /\ mail' = mail \cup Share(d) \cup ShareByNet(d)
    /\ UNCHANGED <<alive, entries, told, stale, heartbeatDue, unregistered>>

\* faulty: entries of other machines are passed on as they are
NetEntriesRaw(d, known) == {e \in known : e.vnets # NoVnets /\ e.vnets \cap Served[d] # {}}

\* what a network hub answers: entries of its machine, under its own address
NetEntries(d, known) ==
    {[agent |-> e.agent, net |-> d, vnets |-> e.vnets] :
        e \in {f \in known : f.net = None /\ f.vnets # NoVnets /\ f.vnets \cap Served[d] # {}}}

\* faulty: all entries are in the answer
AnswersAll(m, known) ==
    {Letter("answer", m.to, m.from, m.byNet,
            IF m.byNet THEN NetEntries(m.to, known) ELSE known)}

\* A local entry makes the answer over the network raise.
Answers(m, known) ==
    IF m.byNet
    THEN IF \E e \in known : e.vnets = NoVnets THEN {}
         ELSE {Letter("answer", m.to, m.from, TRUE, NetEntries(m.to, known))}
    ELSE {Letter("answer", m.to, m.from, FALSE, {e \in known : e.vnets # NoVnets})}

\* faulty: an entry is new unless the very same is there
ShareArrivesAnew(m) ==
    LET known == entries[m.to] \cup m.entries
    IN  /\ m \in mail /\ m.kind = "share"
        /\ entries' = [entries EXCEPT ![m.to] = known]
        /\ mail' = (mail \ {m}) \cup Answers(m, known)
        /\ UNCHANGED <<alive, told, stale, heartbeatDue, unregistered>>

\* msgArrived, SHARE_ENTRIES
ShareArrives(m) ==
    LET known == Merge(entries[m.to], m.entries)
    IN  /\ m \in mail /\ m.kind = "share"
        /\ entries' = [entries EXCEPT ![m.to] = known]
        /\ mail' = (mail \ {m}) \cup Answers(m, known)
        /\ UNCHANGED <<alive, told, stale, heartbeatDue, unregistered>>

\* faulty: the answer is taken for an acknowledgement
AnswerIsIgnored(m) ==
    /\ m \in mail /\ m.kind = "answer"
    /\ mail' = mail \ {m}
    /\ UNCHANGED <<alive, entries, told, stale, heartbeatDue, unregistered>>

AnswerArrives(m) ==
    /\ m \in mail /\ m.kind = "answer"
    /\ entries' = [entries EXCEPT ![m.to] = Merge(@, m.entries)]
    /\ mail' = mail \ {m}
    /\ UNCHANGED <<alive, told, stale, heartbeatDue, unregistered>>

\* msgArrived, GET_VNETS and its reply
AskArrives(m) ==
    /\ m \in mail /\ m.kind = "ask"
    /\ mail' = (mail \ {m}) \cup {Letter("told", m.to, m.from, TRUE, {})}
    /\ UNCHANGED <<alive, entries, told, stale, heartbeatDue, unregistered>>

ToldArrives(m) ==
    /\ m \in mail /\ m.kind = "told"
    /\ told' = [told EXCEPT ![m.to] = TRUE]
    /\ mail' = mail \ {m}
    /\ UNCHANGED <<alive, entries, stale, heartbeatDue, unregistered>>

MailArrives(m) == ShareArrives(m) \/ AnswerArrives(m) \/ AskArrives(m) \/ ToldArrives(m)

Lose(m) ==
    /\ mail' = mail \ {m}
    /\ UNCHANGED <<alive, entries, told, stale, heartbeatDue, unregistered>>

----------------------------------------------------------------------------
\* Heartbeats

\* faulty: entries are remembered in place of their addresses
HeartbeatOfEntries(d) ==
    LET kept == {e \in entries[d] : AddressOf(e) \notin stale[d]}
    IN  /\ heartbeatDue[d]
        /\ heartbeatDue' = [heartbeatDue EXCEPT ![d] = FALSE]
        /\ entries' = [entries EXCEPT ![d] = kept]
        /\ stale' = [stale EXCEPT ![d] = kept]
        /\ UNCHANGED <<alive, told, mail, unregistered>>

\* _heartbeatEntries, which nobody schedules again
Heartbeat(d) ==
    LET kept == {e \in entries[d] : AddressOf(e) \notin stale[d]}
    IN  /\ heartbeatDue[d]
        /\ heartbeatDue' = [heartbeatDue EXCEPT ![d] = FALSE]
        /\ entries' = [entries EXCEPT ![d] = kept]
        /\ stale' = [stale EXCEPT ![d] = {AddressOf(e) : e \in kept}]
        /\ UNCHANGED <<alive, told, mail, unregistered>>

\* the answer to a PING: its replyAddr is the address that was pinged
Hears(d, address) ==
    /\ alive[address.agent] /\ address \in stale[d]
    /\ stale' = [stale EXCEPT ![d] = @ \ {address}]
    /\ UNCHANGED <<alive, entries, told, heartbeatDue, mail, unregistered>>

----------------------------------------------------------------------------

Next ==
    \/ \E a \in Agent : Die(a) \/ \E v \in Offers[a] : Register(a, v)
    \/ \E a \in Agent : \E e \in entries[Home[a]] : UnregisterEntry(a, e)
    \/ \E d \in Dir, address \in Address : UnregisterAddr(d, address)
    \/ \E d \in Dir : EnsureNetwork(d) \/ Heartbeat(d)
    \/ \E m \in mail : MailArrives(m) \/ Lose(m)
    \/ \E d \in Dir : \E address \in stale[d] : Hears(d, address)

Spec == Init /\ [][Next]_vars

=============================================================================
