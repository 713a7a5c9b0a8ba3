------------------------- MODULE SocketBundleProofs -------------------------
(***************************************************************************)
(* Proofs about two routers and the ipc sockets between them: types, the   *)
(* routes, and that a letter arrives at most once, for any number of       *)
(* letters and crashes.                                                    *)
(***************************************************************************)
EXTENDS SocketBundleProperties, SequenceFacts

\* Where a callback is and what it holds: an accumulator is taken by one callback,
\* and nobody registers it again.
Callbacks ==
    \A p \in DOMAIN pipes :
        /\ pipes[p].pc \in {"create", "add", "announce"} => pipes[p].box = 0 /\ pipes[p].next = 1
        /\ pipes[p].pc = "create" => pipes[p].fresh
        /\ pipes[p].pc = "flush" => pipes[p].box # 0
        /\ pipes[p].box # 0 =>
            /\ pipes[p].box \in DOMAIN dials[pipes[p].dialer]
            /\ pipes[p].box # registered[pipes[p].dialer]
            /\ \A q \in DOMAIN pipes :
                pipes[q].dialer = pipes[p].dialer /\ pipes[q].box = pipes[p].box => q = p

\* A router announces itself on pipes it has dialled.
DialersAnnounce ==
    \A p \in DOMAIN pipes : \A r \in Router : \A i \in DOMAIN pipes[p].wire[r] :
        pipes[p].wire[r][i] = Announcement => pipes[p].dialer = Peer(r)

\* A pipe is among the routes of its dialer when its callback has added it; while
\* an address is published without a route, a callback is about to add one to the
\* dictionary in use.
RoutesOf(r) ==
    /\ NoneTwice(routes[r])
    /\ \A i \in DOMAIN routes[r] :
        pipes[routes[r][i]].dialer = r => pipes[routes[r][i]].pc \notin {"create", "add"}
    /\ published[r] => \/ routes[r] # <<>>
                       \/ \E p \in DOMAIN pipes :
                            pipes[p].dialer = r /\ pipes[p].pc = "add" /\ pipes[p].fresh
Routes == \A r \in Router : RoutesOf(r)

\* Only a crash closes pipes.
PipesAreOpen == crashes = 0 => \A p \in DOMAIN pipes : pipes[p].open

(***************************************************************************)
(* The places where a letter may be: with the thread that routes it, in an *)
(* accumulator and not yet flushed, on a pipe, or at an agent.             *)
(***************************************************************************)

InHand(m, r) == hand[r] # Idle /\ hand[r].message = m
InBox(m, r, i, j) ==
    /\ i \in DOMAIN dials[r] /\ j \in DOMAIN dials[r][i] /\ dials[r][i][j] = m
    /\ \A p \in DOMAIN pipes :
        pipes[p].dialer = r /\ pipes[p].box = i => pipes[p].next <= j
OnWire(m, r, p, i) ==
    p \in DOMAIN pipes /\ i \in DOMAIN pipes[p].wire[r] /\ pipes[p].wire[r][i] = m

AtHand(r) == [at |-> "hand", r |-> r]
AtBox(r, i, j) == [at |-> "box", r |-> r, i |-> i, j |-> j]
AtWire(r, p, i) == [at |-> "wire", r |-> r, p |-> p, i |-> i]
AtAgent == [at |-> "agent"]
Place == {AtHand(r) : r \in Router}
    \cup {AtBox(r, i, j) : r \in Router, i \in Nat, j \in Nat}
    \cup {AtWire(r, p, i) : r \in Router, p \in Nat, i \in Nat}
    \cup {AtAgent}

IsAt(m, x) ==
    CASE x.at = "hand" -> InHand(m, x.r)
      [] x.at = "box" -> InBox(m, x.r, x.i, x.j)
      [] x.at = "wire" -> OnWire(m, x.r, x.p, x.i)
      [] OTHER -> arrived[m] > 0

OnePlaceOf(m) ==
    /\ \A x, y \in Place : IsAt(m, x) /\ IsAt(m, y) => x = y
    /\ m.n > sent[m.from] => \A x \in Place : ~IsAt(m, x)
    /\ arrived[m] <= 1
OnePlace == \A m \in Letter : OnePlaceOf(m)

(***************************************************************************)
(* What the actions do with the pipes                                      *)
(***************************************************************************)

Unwired(p, q) ==
    /\ p.dialer = q.dialer /\ p.dial = q.dial /\ p.open = q.open /\ p.pc = q.pc
    /\ p.fresh = q.fresh /\ p.box = q.box /\ p.next = q.next

LEMMA RouterPeer ==
    ASSUME NEW r \in Router
    PROVE  Peer(r) \in Router /\ Peer(r) # r /\ Peer(Peer(r)) = r
  BY DEF Router, Peer

\* Writing to a pipe, which may be closed.
LEMMA PutEffect ==
    ASSUME NEW ps \in Seq(Pipe), NEW p \in DOMAIN ps, NEW r \in Router, NEW m \in Written
    PROVE  /\ Put(ps, p, r, m) \in Seq(Pipe)
           /\ DOMAIN Put(ps, p, r, m) = DOMAIN ps
           /\ \A q \in DOMAIN ps : q # p => Put(ps, p, r, m)[q] = ps[q]
           /\ Unwired(Put(ps, p, r, m)[p], ps[p])
           /\ Put(ps, p, r, m)[p].wire[r] = ps[p].wire[r]
           /\ Put(ps, p, r, m)[p].wire[Peer(r)] \in
                {ps[p].wire[Peer(r)], Append(ps[p].wire[Peer(r)], m)}
<1>. PICK w : w = [ps[p].wire EXCEPT ![Peer(r)] = Append(@, m)]
  OBVIOUS
<1>. PICK new : new = [ps[p] EXCEPT !.wire = w]
  OBVIOUS
<1>0. ps[p] \in Pipe
  OBVIOUS
<1>1. ps[p].wire \in [Router -> Seq(Written)] /\ Peer(r) \in Router /\ Peer(r) # r
  BY <1>0, RouterPeer DEF Pipe
<1>2. Append(ps[p].wire[Peer(r)], m) \in Seq(Written)
  BY <1>1
<1>3. /\ w \in [Router -> Seq(Written)] /\ w[r] = ps[p].wire[r]
      /\ w[Peer(r)] = Append(ps[p].wire[Peer(r)], m)
  BY <1>1, <1>2
<1>4. new \in Pipe /\ new.wire = w /\ Unwired(new, ps[p])
  BY <1>0, <1>1, <1>3 DEF Pipe, Unwired
<1>5. CASE ps[p].open
  <2>1. Put(ps, p, r, m) = [ps EXCEPT ![p] = new]
    BY <1>5 DEF Put
  <2>2. /\ [ps EXCEPT ![p] = new] \in Seq(Pipe)
        /\ DOMAIN [ps EXCEPT ![p] = new] = DOMAIN ps
        /\ \A j \in DOMAIN ps : [ps EXCEPT ![p] = new][j] = IF j = p THEN new ELSE ps[j]
    BY <1>4, Replace
  <2>. QED
    BY <1>3, <1>4, <2>1, <2>2
<1>6. CASE ~ps[p].open
  BY <1>6 DEF Put, Unwired
<1>. QED
  BY <1>5, <1>6

LEMMA ReceivedEffect ==
    ASSUME NEW ps \in Seq(Pipe), NEW p \in DOMAIN ps, NEW r \in Router, ps[p].wire[r] # <<>>
    PROVE  /\ Received(ps, r, p) \in Seq(Pipe)
           /\ DOMAIN Received(ps, r, p) = DOMAIN ps
           /\ \A q \in DOMAIN ps : q # p => Received(ps, r, p)[q] = ps[q]
           /\ Unwired(Received(ps, r, p)[p], ps[p])
           /\ Received(ps, r, p)[p].wire[r] = Tail(ps[p].wire[r])
           /\ Received(ps, r, p)[p].wire[Peer(r)] = ps[p].wire[Peer(r)]
<1>. PICK w : w = [ps[p].wire EXCEPT ![r] = Tail(@)]
  OBVIOUS
<1>. PICK new : new = [ps[p] EXCEPT !.wire = w]
  OBVIOUS
<1>0. ps[p] \in Pipe
  OBVIOUS
<1>1. ps[p].wire \in [Router -> Seq(Written)] /\ Peer(r) \in Router /\ Peer(r) # r
  BY <1>0, RouterPeer DEF Pipe
<1>2. Tail(ps[p].wire[r]) \in Seq(Written)
  BY <1>1
<1>3. /\ w \in [Router -> Seq(Written)] /\ w[r] = Tail(ps[p].wire[r])
      /\ w[Peer(r)] = ps[p].wire[Peer(r)]
  BY <1>1, <1>2
<1>4. new \in Pipe /\ new.wire = w /\ Unwired(new, ps[p])
  BY <1>0, <1>1, <1>3 DEF Pipe, Unwired
<1>5. Received(ps, r, p) = [ps EXCEPT ![p] = new]
  BY DEF Received
<1>6. /\ [ps EXCEPT ![p] = new] \in Seq(Pipe)
      /\ DOMAIN [ps EXCEPT ![p] = new] = DOMAIN ps
      /\ \A j \in DOMAIN ps : [ps EXCEPT ![p] = new][j] = IF j = p THEN new ELSE ps[j]
  BY <1>4, Replace
<1>. QED
  BY <1>3, <1>4, <1>5, <1>6

LEMMA ReplacedEffect ==
    ASSUME NEW ps \in Seq(Pipe), NEW r \in Router
    PROVE  /\ Replaced(ps, r) \in Seq(Pipe)
           /\ DOMAIN Replaced(ps, r) = DOMAIN ps
           /\ \A p \in DOMAIN ps :
                /\ Replaced(ps, r)[p] = [ps[p] EXCEPT !.fresh = Replaced(ps, r)[p].fresh]
                /\ Replaced(ps, r)[p].fresh = ps[p].fresh
                    \/ (ps[p].dialer = r /\ ps[p].pc = "add")
<1>1. ASSUME NEW p \in DOMAIN ps
      PROVE  /\ Replaced(ps, r)[p] \in Pipe
             /\ Replaced(ps, r)[p] = [ps[p] EXCEPT !.fresh = Replaced(ps, r)[p].fresh]
             /\ Replaced(ps, r)[p].fresh = ps[p].fresh
                    \/ (ps[p].dialer = r /\ ps[p].pc = "add")
  <2>1. ps[p] \in Pipe
    OBVIOUS
  <2>2. [ps[p] EXCEPT !.fresh = FALSE] \in Pipe /\ [ps[p] EXCEPT !.fresh = FALSE].fresh = FALSE
    BY <2>1 DEF Pipe
  <2>3. ps[p] = [ps[p] EXCEPT !.fresh = ps[p].fresh]
    BY <2>1 DEF Pipe
  <2>. QED
    BY <2>1, <2>2, <2>3 DEF Replaced
<1>2. DOMAIN Replaced(ps, r) = 1..Len(ps) /\ Len(ps) \in Nat
  BY DEF Replaced
<1>3. Replaced(ps, r) \in [1..Len(ps) -> Pipe]
  BY <1>1, <1>2 DEF Replaced
<1>. QED
  BY <1>1, <1>2, <1>3, SeqDef

BundleInv == TypeOK /\ Callbacks /\ DialersAnnounce /\ Routes /\ PipesAreOpen /\ OnePlace

(***************************************************************************)
(* The pipes after each action that changes them                           *)
(***************************************************************************)

LEMMA PipeFields ==
    ASSUME TypeOK, NEW p \in DOMAIN pipes
    PROVE  /\ pipes \in Seq(Pipe) /\ pipes[p] \in Pipe
           /\ pipes[p].dialer \in Router /\ pipes[p].dial \in Nat /\ pipes[p].open \in BOOLEAN
           /\ pipes[p].wire \in [Router -> Seq(Written)]
           /\ pipes[p].pc \in {"create", "add", "announce", "flush", "done"}
           /\ pipes[p].fresh \in BOOLEAN /\ pipes[p].box \in Nat /\ pipes[p].next \in Nat \ {0}
           /\ DOMAIN pipes = 1..Len(pipes) /\ Len(pipes) \in Nat
<1>1. pipes \in Seq(Pipe)
  BY DEF TypeOK
<1>2. pipes[p] \in Pipe
  BY <1>1
<1>3. DOMAIN pipes = 1..Len(pipes) /\ Len(pipes) \in Nat
  BY <1>1
<1>4. /\ pipes[p].dialer \in Router /\ pipes[p].dial \in Nat /\ pipes[p].open \in BOOLEAN
      /\ pipes[p].wire \in [Router -> Seq(Written)]
      /\ pipes[p].pc \in {"create", "add", "announce", "flush", "done"}
      /\ pipes[p].fresh \in BOOLEAN /\ pipes[p].box \in Nat /\ pipes[p].next \in Nat \ {0}
  BY <1>2 DEF Pipe
<1>. QED
  BY <1>1, <1>2, <1>3, <1>4

LEMMA RouteByPipeEffect ==
    ASSUME TypeOK, NEW r \in Router, RouteByPipe(r)
    PROVE  /\ hand[r].message \in Letter /\ routes[r][1] \in DOMAIN pipes
           /\ pipes' = Put(pipes, routes[r][1], r, hand[r].message)
           /\ pipes' \in Seq(Pipe) /\ DOMAIN pipes' = DOMAIN pipes
           /\ \A q \in DOMAIN pipes : q # routes[r][1] => pipes'[q] = pipes[q]
           /\ Unwired(pipes'[routes[r][1]], pipes[routes[r][1]])
           /\ pipes'[routes[r][1]].wire[r] = pipes[routes[r][1]].wire[r]
           /\ pipes'[routes[r][1]].wire[Peer(r)] \in
                {pipes[routes[r][1]].wire[Peer(r)],
                 Append(pipes[routes[r][1]].wire[Peer(r)], hand[r].message)}
<1>1. hand[r] \in Hand /\ hand[r].at = "look" /\ hand[r].message # Bounce
  BY DEF TypeOK, RouteByPipe
<1>2. hand[r].message \in Letter
  BY <1>1 DEF Hand, Idle, Routed
<1>3. routes[r] \in Seq(DOMAIN pipes) /\ routes[r] # <<>>
  BY DEF TypeOK, RouteByPipe
<1>4. routes[r][1] \in DOMAIN pipes
  BY <1>3
<1>5. pipes \in Seq(Pipe) /\ hand[r].message \in Written
  BY <1>2 DEF TypeOK, Written
<1>6. pipes' = Put(pipes, routes[r][1], r, hand[r].message)
  BY DEF RouteByPipe
<1>7. ASSUME NEW p \in DOMAIN pipes, NEW m \in Written
      PROVE  /\ Put(pipes, p, r, m) \in Seq(Pipe)
             /\ DOMAIN Put(pipes, p, r, m) = DOMAIN pipes
             /\ \A q \in DOMAIN pipes : q # p => Put(pipes, p, r, m)[q] = pipes[q]
             /\ Unwired(Put(pipes, p, r, m)[p], pipes[p])
             /\ Put(pipes, p, r, m)[p].wire[r] = pipes[p].wire[r]
             /\ Put(pipes, p, r, m)[p].wire[Peer(r)] \in
                  {pipes[p].wire[Peer(r)], Append(pipes[p].wire[Peer(r)], m)}
  BY <1>5, PutEffect
<1>. QED
  BY <1>2, <1>4, <1>5, <1>6, <1>7

LEMMA ArriveEffect ==
    ASSUME TypeOK, NEW r \in Router, NEW p \in DOMAIN pipes, Arrive(r, p)
    PROVE  /\ Head(pipes[p].wire[r]) \in Letter /\ pipes[p].wire[r] # <<>>
           /\ pipes' \in Seq(Pipe) /\ DOMAIN pipes' = DOMAIN pipes
           /\ \A q \in DOMAIN pipes : q # p => pipes'[q] = pipes[q]
           /\ Unwired(pipes'[p], pipes[p])
           /\ pipes'[p].wire[r] = Tail(pipes[p].wire[r])
           /\ pipes'[p].wire[Peer(r)] = pipes[p].wire[Peer(r)]
<1>1. pipes \in Seq(Pipe) /\ pipes[p].wire[r] \in Seq(Written)
  BY PipeFields
<1>2. /\ pipes[p].wire[r] # <<>> /\ Head(pipes[p].wire[r]) # Announcement
      /\ pipes' = Received(pipes, r, p)
  BY DEF Arrive, Receives
<1>3. Head(pipes[p].wire[r]) \in Letter
  BY <1>1, <1>2 DEF Written
<1>4. /\ Received(pipes, r, p) \in Seq(Pipe)
      /\ DOMAIN Received(pipes, r, p) = DOMAIN pipes
      /\ \A q \in DOMAIN pipes : q # p => Received(pipes, r, p)[q] = pipes[q]
      /\ Unwired(Received(pipes, r, p)[p], pipes[p])
      /\ Received(pipes, r, p)[p].wire[r] = Tail(pipes[p].wire[r])
      /\ Received(pipes, r, p)[p].wire[Peer(r)] = pipes[p].wire[Peer(r)]
  BY <1>1, <1>2, ReceivedEffect
<1>. QED
  BY <1>2, <1>3, <1>4

\* All that replacing a dictionary changes is who will add to an old one.
Refreshed(r, q, p) ==
    /\ q.dialer = p.dialer /\ q.dial = p.dial /\ q.open = p.open /\ q.pc = p.pc
    /\ q.box = p.box /\ q.next = p.next
    /\ q.fresh = p.fresh \/ (p.dialer = r /\ p.pc = "add")

LEMMA RegisterRouteBackEffect ==
    ASSUME TypeOK, NEW r \in Router, NEW p \in DOMAIN pipes, RegisterRouteBack(r, p)
    PROVE  /\ pipes[p].wire[r] # <<>> /\ Head(pipes[p].wire[r]) = Announcement
           /\ pipes' \in Seq(Pipe) /\ DOMAIN pipes' = DOMAIN pipes
           /\ \A q \in DOMAIN pipes : Refreshed(r, pipes'[q], pipes[q])
           /\ \A q \in DOMAIN pipes : q # p => pipes'[q].wire = pipes[q].wire
           /\ pipes'[p].wire[r] = Tail(pipes[p].wire[r])
           /\ pipes'[p].wire[Peer(r)] = pipes[p].wire[Peer(r)]
<1>1. pipes \in Seq(Pipe) /\ pipes[p].wire[r] \in Seq(Written)
  BY PipeFields
<1>2. /\ pipes[p].wire[r] # <<>> /\ Head(pipes[p].wire[r]) = Announcement
      /\ pipes' = Replaced(Received(pipes, r, p), r)
  BY DEF RegisterRouteBack, Receives
<1>. PICK ps : ps = Received(pipes, r, p)
  OBVIOUS
<1>4. /\ Received(pipes, r, p) \in Seq(Pipe)
      /\ DOMAIN Received(pipes, r, p) = DOMAIN pipes
      /\ \A q \in DOMAIN pipes : q # p => Received(pipes, r, p)[q] = pipes[q]
      /\ Unwired(Received(pipes, r, p)[p], pipes[p])
      /\ Received(pipes, r, p)[p].wire[r] = Tail(pipes[p].wire[r])
      /\ Received(pipes, r, p)[p].wire[Peer(r)] = pipes[p].wire[Peer(r)]
  BY <1>1, <1>2, ReceivedEffect
<1>5. /\ ps \in Seq(Pipe) /\ DOMAIN ps = DOMAIN pipes
      /\ \A q \in DOMAIN pipes : q # p => ps[q] = pipes[q]
      /\ Unwired(ps[p], pipes[p])
      /\ ps[p].wire[r] = Tail(pipes[p].wire[r])
      /\ ps[p].wire[Peer(r)] = pipes[p].wire[Peer(r)]
  BY <1>4
<1>6. /\ Replaced(ps, r) \in Seq(Pipe)
      /\ DOMAIN Replaced(ps, r) = DOMAIN ps
      /\ \A q \in DOMAIN ps :
           /\ Replaced(ps, r)[q] = [ps[q] EXCEPT !.fresh = Replaced(ps, r)[q].fresh]
           /\ Replaced(ps, r)[q].fresh = ps[q].fresh
               \/ (ps[q].dialer = r /\ ps[q].pc = "add")
  BY <1>5, ReplacedEffect
<1>. PICK rs : rs = Replaced(ps, r)
  OBVIOUS
<1>7. pipes' = rs
  BY <1>2
<1>8. ASSUME NEW q \in DOMAIN pipes
      PROVE  /\ rs[q].wire = ps[q].wire /\ Refreshed(r, rs[q], ps[q])
             /\ Refreshed(r, rs[q], pipes[q])
  <2>1. ps[q] \in Pipe
    BY <1>5
  <2>2. /\ rs[q] = [ps[q] EXCEPT !.fresh = rs[q].fresh]
        /\ rs[q].fresh = ps[q].fresh \/ (ps[q].dialer = r /\ ps[q].pc = "add")
    BY <1>5, <1>6
  <2>3. rs[q].wire = ps[q].wire /\ Refreshed(r, rs[q], ps[q])
    BY <2>1, <2>2 DEF Pipe, Refreshed
  <2>4. Unwired(ps[q], pipes[q])
    BY <1>5 DEF Unwired
  <2>. QED
    BY <2>3, <2>4 DEF Unwired, Refreshed
<1>. QED
  BY <1>2, <1>5, <1>6, <1>7, <1>8

LEMMA ConnectEffect ==
    ASSUME TypeOK, NEW r \in Router, NEW dial \in DOMAIN dials[r], Connect(r, dial)
    PROVE  \E n \in Nat \ DOMAIN pipes :
           /\ pipes' \in Seq(Pipe) /\ DOMAIN pipes' = DOMAIN pipes \cup {n}
           /\ \A q \in DOMAIN pipes : pipes'[q] = pipes[q]
           /\ pipes'[n].dialer = r /\ pipes'[n].open
           /\ pipes'[n].wire = [q \in Router |-> <<>>]
           /\ pipes'[n].pc \in {"create", "add"} /\ pipes'[n].fresh
           /\ pipes'[n].box = 0 /\ pipes'[n].next = 1
<1>. PICK new : new = [dialer |-> r, dial |-> dial, open |-> TRUE,
                       wire |-> [q \in Router |-> <<>>],
                       pc |-> IF published[r] THEN "add" ELSE "create",
                       fresh |-> TRUE, box |-> 0, next |-> 1]
  OBVIOUS
<1>1. pipes \in Seq(Pipe) /\ dial \in Nat
  <2>1. dials[r] \in Seq(Seq(Routed))
    BY DEF TypeOK
  <2>. QED
    BY <2>1 DEF TypeOK
<1>2. new \in Pipe
  <2>1. [q \in Router |-> <<>>] \in [Router -> Seq(Written)]
    OBVIOUS
  <2>. QED
    BY <1>1, <2>1 DEF Pipe
<1>3. pipes' = Append(pipes, new)
  BY DEF Connect
<1>4. /\ Append(pipes, new) \in Seq(Pipe)
      /\ DOMAIN Append(pipes, new) = DOMAIN pipes \cup {Len(pipes) + 1}
      /\ Len(pipes) + 1 \notin DOMAIN pipes
      /\ \A j \in DOMAIN pipes : Append(pipes, new)[j] = pipes[j]
      /\ Append(pipes, new)[Len(pipes) + 1] = new
  BY <1>1, <1>2, Appended
<1>5. Len(pipes) + 1 \in Nat
  BY <1>1
<1>. QED
  BY <1>3, <1>4, <1>5

LEMMA CreateEffect ==
    ASSUME TypeOK, NEW p \in DOMAIN pipes, Create(p)
    PROVE  /\ pipes[p].pc = "create" /\ pipes[p].dialer \in Router
           /\ pipes' \in Seq(Pipe) /\ DOMAIN pipes' = DOMAIN pipes
           /\ \A q \in DOMAIN pipes : q # p => Refreshed(pipes[p].dialer, pipes'[q], pipes[q])
           /\ \A q \in DOMAIN pipes : pipes'[q].wire = pipes[q].wire
           /\ pipes'[p] = [pipes[p] EXCEPT !.pc = "add"]
<1>. PICK r : r = pipes[p].dialer
  OBVIOUS
<1>1. pipes \in Seq(Pipe) /\ pipes[p] \in Pipe /\ r \in Router
  BY PipeFields
<1>2. /\ pipes[p].pc = "create"
      /\ pipes' = [Replaced(pipes, r) EXCEPT ![p].pc = "add"]
  BY DEF Create, Runs
<1>3. /\ Replaced(pipes, r) \in Seq(Pipe)
      /\ DOMAIN Replaced(pipes, r) = DOMAIN pipes
      /\ \A q \in DOMAIN pipes :
           /\ Replaced(pipes, r)[q] = [pipes[q] EXCEPT !.fresh = Replaced(pipes, r)[q].fresh]
           /\ Replaced(pipes, r)[q].fresh = pipes[q].fresh
               \/ (pipes[q].dialer = r /\ pipes[q].pc = "add")
  BY <1>1, ReplacedEffect
<1>. PICK rs : rs = Replaced(pipes, r)
  OBVIOUS
<1>4. rs[p] = pipes[p]
  <2>1. rs[p].fresh = pipes[p].fresh /\ rs[p] = [pipes[p] EXCEPT !.fresh = rs[p].fresh]
    BY <1>2, <1>3
  <2>2. rs[p] = [pipes[p] EXCEPT !.fresh = pipes[p].fresh]
    BY <2>1
  <2>3. [pipes[p] EXCEPT !.fresh = pipes[p].fresh] = pipes[p]
    BY <1>1 DEF Pipe
  <2>. QED
    BY <2>2, <2>3
<1>. PICK new : new = [pipes[p] EXCEPT !.pc = "add"]
  OBVIOUS
<1>5. new \in Pipe /\ new.wire = pipes[p].wire
  BY <1>1 DEF Pipe
<1>6. pipes' = [rs EXCEPT ![p] = new]
  BY <1>2, <1>4
<1>7. rs \in Seq(Pipe) /\ p \in DOMAIN rs /\ DOMAIN rs = DOMAIN pipes
  BY <1>3
<1>8. /\ [rs EXCEPT ![p] = new] \in Seq(Pipe)
      /\ DOMAIN [rs EXCEPT ![p] = new] = DOMAIN rs
      /\ \A j \in DOMAIN rs : [rs EXCEPT ![p] = new][j] = IF j = p THEN new ELSE rs[j]
  BY <1>5, <1>7, Replace
<1>9. ASSUME NEW q \in DOMAIN pipes
      PROVE  rs[q].wire = pipes[q].wire /\ Refreshed(r, rs[q], pipes[q])
  <2>1. pipes[q] \in Pipe
    BY <1>1
  <2>2. /\ rs[q] = [pipes[q] EXCEPT !.fresh = rs[q].fresh]
        /\ rs[q].fresh = pipes[q].fresh \/ (pipes[q].dialer = r /\ pipes[q].pc = "add")
    BY <1>3
  <2>. QED
    BY <2>1, <2>2 DEF Pipe, Refreshed
<1>. QED
  BY <1>1, <1>2, <1>5, <1>6, <1>7, <1>8, <1>9

LEMMA AddEffect ==
    ASSUME TypeOK, NEW p \in DOMAIN pipes, Add(p)
    PROVE  /\ pipes[p].pc = "add" /\ pipes[p].dialer \in Router
           /\ pipes' \in Seq(Pipe) /\ DOMAIN pipes' = DOMAIN pipes
           /\ \A q \in DOMAIN pipes : q # p => pipes'[q] = pipes[q]
           /\ pipes'[p] = [pipes[p] EXCEPT !.pc = "announce"]
<1>1. pipes \in Seq(Pipe) /\ pipes[p] \in Pipe /\ pipes[p].dialer \in Router
  BY PipeFields
<1>. PICK new : new = [pipes[p] EXCEPT !.pc = "announce"]
  OBVIOUS
<1>2. new \in Pipe
  BY <1>1 DEF Pipe
<1>3. pipes[p].pc = "add" /\ pipes' = [pipes EXCEPT ![p] = new]
  BY DEF Add, Runs
<1>4. /\ [pipes EXCEPT ![p] = new] \in Seq(Pipe)
      /\ DOMAIN [pipes EXCEPT ![p] = new] = DOMAIN pipes
      /\ \A j \in DOMAIN pipes : [pipes EXCEPT ![p] = new][j] = IF j = p THEN new ELSE pipes[j]
  BY <1>1, <1>2, Replace
<1>. QED
  BY <1>1, <1>3, <1>4

LEMMA AnnounceEffect ==
    ASSUME TypeOK, NEW p \in DOMAIN pipes, Announce(p)
    PROVE  /\ pipes[p].pc = "announce" /\ pipes[p].dialer \in Router
           /\ pipes' \in Seq(Pipe) /\ DOMAIN pipes' = DOMAIN pipes
           /\ \A q \in DOMAIN pipes : q # p => pipes'[q] = pipes[q]
           /\ pipes'[p].dialer = pipes[p].dialer /\ pipes'[p].open = pipes[p].open
           /\ pipes'[p].box = registered[pipes[p].dialer] /\ pipes'[p].next = pipes[p].next
           /\ pipes'[p].pc = IF registered[pipes[p].dialer] = 0 THEN "done" ELSE "flush"
           /\ pipes'[p].wire[pipes[p].dialer] = pipes[p].wire[pipes[p].dialer]
           /\ pipes'[p].wire[Peer(pipes[p].dialer)] \in
                {pipes[p].wire[Peer(pipes[p].dialer)],
                 Append(pipes[p].wire[Peer(pipes[p].dialer)], Announcement)}
<1>. PICK r : r = pipes[p].dialer
  OBVIOUS
<1>. PICK box : box = registered[r]
  OBVIOUS
<1>1. pipes \in Seq(Pipe) /\ pipes[p] \in Pipe /\ r \in Router
  BY PipeFields
<1>2. box \in Nat
  BY <1>1 DEF TypeOK
<1>. PICK ps : ps = Put(pipes, p, r, Announcement)
  OBVIOUS
<1>3. /\ pipes[p].pc = "announce"
      /\ pipes' = [ps EXCEPT ![p].box = box, ![p].pc = IF box = 0 THEN "done" ELSE "flush"]
  BY DEF Announce, Runs
<1>4. Announcement \in Written
  BY DEF Written
<1>5. /\ Put(pipes, p, r, Announcement) \in Seq(Pipe)
      /\ DOMAIN Put(pipes, p, r, Announcement) = DOMAIN pipes
      /\ \A q \in DOMAIN pipes : q # p => Put(pipes, p, r, Announcement)[q] = pipes[q]
      /\ Unwired(Put(pipes, p, r, Announcement)[p], pipes[p])
      /\ Put(pipes, p, r, Announcement)[p].wire[r] = pipes[p].wire[r]
      /\ Put(pipes, p, r, Announcement)[p].wire[Peer(r)] \in
           {pipes[p].wire[Peer(r)], Append(pipes[p].wire[Peer(r)], Announcement)}
  BY <1>1, <1>4, PutEffect
<1>. PICK new : new = [ps[p] EXCEPT !.box = box, !.pc = IF box = 0 THEN "done" ELSE "flush"]
  OBVIOUS
<1>6. ps \in Seq(Pipe) /\ p \in DOMAIN ps /\ DOMAIN ps = DOMAIN pipes
  BY <1>5
<1>7. ps[p] \in Pipe
  BY <1>6
<1>8. /\ new \in Pipe /\ new.box = box /\ new.pc = IF box = 0 THEN "done" ELSE "flush"
      /\ new.wire = ps[p].wire /\ new.dialer = ps[p].dialer /\ new.open = ps[p].open
      /\ new.next = ps[p].next
  BY <1>2, <1>7 DEF Pipe
<1>9. pipes' = [ps EXCEPT ![p] = new]
  BY <1>3, <1>6
<1>10. /\ [ps EXCEPT ![p] = new] \in Seq(Pipe)
       /\ DOMAIN [ps EXCEPT ![p] = new] = DOMAIN ps
       /\ \A j \in DOMAIN ps : [ps EXCEPT ![p] = new][j] = IF j = p THEN new ELSE ps[j]
  BY <1>6, <1>8, Replace
<1>11. /\ \A q \in DOMAIN pipes : q # p => ps[q] = pipes[q]
       /\ Unwired(ps[p], pipes[p]) /\ ps[p].wire[r] = pipes[p].wire[r]
       /\ ps[p].wire[Peer(r)] \in
           {pipes[p].wire[Peer(r)], Append(pipes[p].wire[Peer(r)], Announcement)}
  BY <1>5
<1>12. /\ pipes' \in Seq(Pipe) /\ DOMAIN pipes' = DOMAIN pipes /\ pipes'[p] = new
       /\ \A q \in DOMAIN pipes : q # p => pipes'[q] = pipes[q]
  BY <1>6, <1>9, <1>10, <1>11
<1>13. new.dialer = pipes[p].dialer /\ new.open = pipes[p].open /\ new.next = pipes[p].next
  BY <1>8, <1>11 DEF Unwired
<1>14. /\ new.wire[r] = pipes[p].wire[r]
       /\ new.wire[Peer(r)] \in
           {pipes[p].wire[Peer(r)], Append(pipes[p].wire[Peer(r)], Announcement)}
  BY <1>8, <1>11
<1>. QED
  BY <1>1, <1>3, <1>8, <1>12, <1>13, <1>14

LEMMA PipeWithNext ==
    ASSUME NEW c \in Pipe, NEW n \in Nat \ {0}
    PROVE  LET next == [c EXCEPT !.next = n + 1]
           IN  /\ next \in Pipe /\ next.wire = c.wire /\ next.dialer = c.dialer
               /\ next.open = c.open /\ next.pc = c.pc /\ next.box = c.box
               /\ next.next = n + 1
<1>1. n + 1 \in Nat \ {0}
  OBVIOUS
<1>2. ASSUME NEW k \in Nat \ {0}
      PROVE  LET next == [c EXCEPT !.next = k]
             IN  /\ next \in Pipe /\ next.wire = c.wire /\ next.dialer = c.dialer
                 /\ next.open = c.open /\ next.pc = c.pc /\ next.box = c.box
                 /\ next.next = k
  BY DEF Pipe
<1>. QED
  BY <1>1, <1>2

LEMMA EndedPipe ==
    ASSUME NEW c \in Pipe
    PROVE  LET ended == [c EXCEPT !.pc = "done", !.box = 0, !.next = 1]
           IN  /\ ended \in Pipe /\ ended.wire = c.wire /\ ended.dialer = c.dialer
               /\ ended.fresh = c.fresh /\ ended.pc = "done"
               /\ ended.box = 0 /\ ended.next = 1
<1>1. ASSUME NEW k \in Nat \ {0}
      PROVE  LET ended == [c EXCEPT !.pc = "done", !.box = 0, !.next = k]
             IN  /\ ended \in Pipe /\ ended.wire = c.wire /\ ended.dialer = c.dialer
                 /\ ended.fresh = c.fresh /\ ended.pc = "done"
                 /\ ended.box = 0 /\ ended.next = k
  BY DEF Pipe
<1>2. 1 \in Nat \ {0}
  OBVIOUS
<1>. QED
  BY <1>1, <1>2

LEMMA FlushEffect ==
    ASSUME TypeOK, Callbacks, NEW p \in DOMAIN pipes, Flush(p),
           NEW r, r = pipes[p].dialer, NEW box, box = dials[r][pipes[p].box]
    PROVE  /\ pipes[p].pc = "flush" /\ r \in Router /\ pipes[p].box \in DOMAIN dials[r]
           /\ box \in Seq(Routed)
           /\ pipes' \in Seq(Pipe) /\ DOMAIN pipes' = DOMAIN pipes
           /\ \A q \in DOMAIN pipes : q # p => pipes'[q] = pipes[q]
           /\ pipes'[p].dialer = r /\ pipes'[p].open = pipes[p].open
           /\ pipes'[p].box = pipes[p].box /\ pipes'[p].pc \in {"flush", "done"}
           /\ pipes'[p].wire[r] = pipes[p].wire[r]
           /\ \/ pipes'[p].next = pipes[p].next
                 /\ pipes'[p].wire[Peer(r)] = pipes[p].wire[Peer(r)]
              \/ /\ pipes[p].next \in DOMAIN box /\ box[pipes[p].next] \in Letter
                 /\ pipes'[p].next = pipes[p].next + 1
                 /\ pipes'[p].wire[Peer(r)] \in
                     {pipes[p].wire[Peer(r)], Append(pipes[p].wire[Peer(r)], box[pipes[p].next])}
<1>. PICK next : next = pipes[p].next
  OBVIOUS
<1>1. /\ pipes \in Seq(Pipe) /\ pipes[p] \in Pipe /\ r \in Router
      /\ next \in Nat \ {0} /\ pipes[p].box \in Nat /\ Peer(r) \in Router
  BY PipeFields, RouterPeer
<1>2. pipes[p].pc = "flush" /\ pipes[p].box # 0
  BY DEF Flush, Runs, Callbacks
<1>3. pipes[p].box \in DOMAIN dials[r]
  BY <1>2 DEF Callbacks
<1>4. box \in Seq(Routed)
  <2>1. dials[r] \in Seq(Seq(Routed))
    BY <1>1 DEF TypeOK
  <2>. QED
    BY <1>3, <2>1
<1>5. ASSUME NEW ps \in Seq(Pipe), p \in DOMAIN ps, NEW new \in Pipe
      PROVE  /\ [ps EXCEPT ![p] = new] \in Seq(Pipe)
             /\ DOMAIN [ps EXCEPT ![p] = new] = DOMAIN ps
             /\ \A j \in DOMAIN ps : [ps EXCEPT ![p] = new][j] = IF j = p THEN new ELSE ps[j]
  BY <1>5, Replace
<1>6. CASE next > Len(box) \/ box[next] = Bounce
  <2>. PICK new : new = [pipes[p] EXCEPT !.pc = "done"]
    OBVIOUS
  <2>1. new \in Pipe /\ new.dialer = r /\ new.open = pipes[p].open /\ new.box = pipes[p].box
        /\ new.pc = "done" /\ new.wire = pipes[p].wire /\ new.next = next
    BY <1>1 DEF Pipe
  <2>2. pipes' = [pipes EXCEPT ![p] = new]
    BY <1>6 DEF Flush
  <2>3. /\ pipes' \in Seq(Pipe) /\ DOMAIN pipes' = DOMAIN pipes
        /\ \A j \in DOMAIN pipes : pipes'[j] = IF j = p THEN new ELSE pipes[j]
    BY <1>1, <1>5, <2>1, <2>2
  <2>. QED
    BY <1>1, <1>2, <1>3, <1>4, <2>1, <2>3
<1>7. CASE ~(next > Len(box) \/ box[next] = Bounce)
  <2>1. next \in DOMAIN box /\ box[next] \in Routed /\ box[next] # Bounce
    BY <1>1, <1>4, <1>7
  <2>2. box[next] \in Letter /\ box[next] \in Written
    BY <2>1 DEF Routed, Written
  <2>3. ASSUME NEW m \in Written
        PROVE  /\ Put(pipes, p, r, m) \in Seq(Pipe)
               /\ DOMAIN Put(pipes, p, r, m) = DOMAIN pipes
               /\ \A q \in DOMAIN pipes : q # p => Put(pipes, p, r, m)[q] = pipes[q]
               /\ Unwired(Put(pipes, p, r, m)[p], pipes[p])
               /\ Put(pipes, p, r, m)[p].wire[r] = pipes[p].wire[r]
               /\ Put(pipes, p, r, m)[p].wire[Peer(r)] \in
                    {pipes[p].wire[Peer(r)], Append(pipes[p].wire[Peer(r)], m)}
    BY <1>1, PutEffect
  <2>. PICK ps : ps = Put(pipes, p, r, box[next])
    OBVIOUS
  <2>4. /\ ps \in Seq(Pipe) /\ DOMAIN ps = DOMAIN pipes /\ p \in DOMAIN ps
        /\ \A q \in DOMAIN pipes : q # p => ps[q] = pipes[q]
        /\ Unwired(ps[p], pipes[p])
        /\ ps[p].wire[r] = pipes[p].wire[r]
        /\ ps[p].wire[Peer(r)] \in
             {pipes[p].wire[Peer(r)], Append(pipes[p].wire[Peer(r)], box[next])}
    BY <2>2, <2>3
  <2>5. ps[p] \in Pipe
    <3>1. ps \in Seq(Pipe) /\ p \in DOMAIN ps
      BY <2>4
    <3>. QED
      BY <3>1
  <2>n. ps[p].next = next
    BY <2>4 DEF Unwired
  <2>. PICK new : new = [ps[p] EXCEPT !.next = next + 1]
    OBVIOUS
  <2>6. new \in Pipe /\ new.dialer = ps[p].dialer /\ new.open = ps[p].open
        /\ new.box = ps[p].box
        /\ new.pc = ps[p].pc /\ new.wire = ps[p].wire /\ new.next = next + 1
    <3>1. LET c == [ps[p] EXCEPT !.next = next + 1]
          IN  /\ c \in Pipe /\ c.wire = ps[p].wire /\ c.dialer = ps[p].dialer
              /\ c.open = ps[p].open /\ c.pc = ps[p].pc /\ c.box = ps[p].box
              /\ c.next = next + 1
      BY <1>1, <2>5, PipeWithNext
    <3>. QED
      BY <3>1
  <2>7. pipes' = [ps EXCEPT ![p] = new]
    <3>1. pipes' = [ps EXCEPT ![p].next = @ + 1]
      BY <1>7 DEF Flush
    <3>. QED
      BY <3>1, <2>4, <2>n
  <2>8. /\ pipes' \in Seq(Pipe) /\ DOMAIN pipes' = DOMAIN ps
        /\ \A j \in DOMAIN ps : pipes'[j] = IF j = p THEN new ELSE ps[j]
    BY <1>5, <2>4, <2>6, <2>7
  <2>9. new.dialer = r /\ new.open = pipes[p].open /\ new.box = pipes[p].box
        /\ new.pc = "flush"
    BY <1>2, <2>4, <2>6 DEF Unwired
  <2>10. /\ pipes' \in Seq(Pipe) /\ DOMAIN pipes' = DOMAIN pipes /\ pipes'[p] = new
         /\ \A q \in DOMAIN pipes : q # p => pipes'[q] = pipes[q]
    BY <2>4, <2>8
  <2>11. /\ new.wire[r] = pipes[p].wire[r] /\ new.next = next + 1
         /\ new.wire[Peer(r)] \in
             {pipes[p].wire[Peer(r)], Append(pipes[p].wire[Peer(r)], box[next])}
    BY <2>4, <2>6
  <2>. QED
    BY <1>1, <1>2, <1>3, <1>4, <2>1, <2>2, <2>9, <2>10, <2>11
<1>. QED
  BY <1>6, <1>7

LEMMA CrashEffect ==
    ASSUME TypeOK, NEW r \in Router, Crash(r)
    PROVE  /\ pipes' \in Seq(Pipe) /\ DOMAIN pipes' = DOMAIN pipes
           /\ \A p \in DOMAIN pipes :
                /\ pipes'[p].wire = [q \in Router |-> <<>>]
                /\ pipes'[p].dialer = pipes[p].dialer /\ pipes'[p].fresh = pipes[p].fresh
                /\ pipes[p].dialer = r =>
                    pipes'[p].pc = "done" /\ pipes'[p].box = 0 /\ pipes'[p].next = 1
                /\ pipes[p].dialer # r =>
                    /\ pipes'[p].pc = pipes[p].pc
                    /\ pipes'[p].box = pipes[p].box /\ pipes'[p].next = pipes[p].next
<1>1. pipes \in Seq(Pipe) /\ DOMAIN pipes = 1..Len(pipes) /\ Len(pipes) \in Nat
  BY DEF TypeOK
<1>2. DOMAIN pipes' = DOMAIN pipes
  BY DEF Crash
<1>3. ASSUME NEW p \in DOMAIN pipes
      PROVE  /\ pipes'[p] \in Pipe
             /\ pipes'[p].wire = [q \in Router |-> <<>>]
             /\ pipes'[p].dialer = pipes[p].dialer /\ pipes'[p].fresh = pipes[p].fresh
             /\ pipes[p].dialer = r =>
                    pipes'[p].pc = "done" /\ pipes'[p].box = 0 /\ pipes'[p].next = 1
             /\ pipes[p].dialer # r =>
                    /\ pipes'[p].pc = pipes[p].pc
                    /\ pipes'[p].box = pipes[p].box /\ pipes'[p].next = pipes[p].next
  <2>. PICK none : none = [q \in Router |-> <<>>]
    OBVIOUS
  <2>. PICK closed : closed = [pipes[p] EXCEPT !.open = FALSE, !.wire = none]
    OBVIOUS
  <2>1. pipes[p] \in Pipe
    BY <1>1
  <2>2. none \in [Router -> Seq(Written)]
    OBVIOUS
  <2>3. /\ closed \in Pipe /\ closed.wire = none /\ closed.dialer = pipes[p].dialer
        /\ closed.fresh = pipes[p].fresh /\ closed.pc = pipes[p].pc
        /\ closed.box = pipes[p].box /\ closed.next = pipes[p].next
    BY <2>1, <2>2 DEF Pipe
  <2>4. pipes'[p] = IF pipes[p].dialer = r
                    THEN [closed EXCEPT !.pc = "done", !.box = 0, !.next = 1] ELSE closed
    BY DEF Crash
  <2>5. LET ended == [closed EXCEPT !.pc = "done", !.box = 0, !.next = 1]
        IN  /\ ended \in Pipe /\ ended.wire = closed.wire /\ ended.dialer = closed.dialer
            /\ ended.fresh = closed.fresh /\ ended.pc = "done" /\ ended.box = 0 /\ ended.next = 1
    BY <2>3, EndedPipe
  <2>. QED
    BY <2>3, <2>4, <2>5
<1>4. pipes' \in [1..Len(pipes) -> Pipe]
  BY <1>1, <1>2, <1>3 DEF Crash
<1>5. pipes' \in Seq(Pipe)
  BY <1>1, <1>4, SeqDef
<1>. QED
  BY <1>2, <1>3, <1>5


(***************************************************************************)
(* Types                                                                   *)
(***************************************************************************)

LEMMA HandFields ==
    ASSUME TypeOK, NEW r \in Router
    PROVE  /\ hand[r] \in Hand /\ (hand[r] = Idle <=> hand[r].at = "idle")
           /\ hand[r] # Idle => hand[r].message \in Routed
           /\ hand[r].at = "queue" => hand[r].dial \in DOMAIN dials[r]
           /\ hand[r].at \in {"look", "fetch"} =>
                hand[r] = [at |-> hand[r].at, message |-> hand[r].message]
<1>1. hand[r] \in Hand /\ (hand[r].at = "queue" => hand[r].dial \in DOMAIN dials[r])
  BY DEF TypeOK
<1>. QED
  BY <1>1 DEF Hand, Idle

LEMMA DialFields ==
    ASSUME TypeOK, NEW r \in Router
    PROVE  /\ dials[r] \in Seq(Seq(Routed)) /\ DOMAIN dials[r] = 1..Len(dials[r])
           /\ Len(dials[r]) \in Nat /\ registered[r] \in {0} \cup DOMAIN dials[r]
           /\ dials \in [Router -> Seq(Seq(Routed))] /\ registered \in [Router -> Nat]
<1>1. dials[r] \in Seq(Seq(Routed))
  BY DEF TypeOK
<1>. QED
  BY <1>1 DEF TypeOK

\* An accumulator is added or found.
LEMMA FetchEffect ==
    ASSUME TypeOK, NEW r \in Router, Fetch(r)
    PROVE  /\ dials' \in [Router -> Seq(Seq(Routed))]
           /\ \A q \in Router : q # r => dials'[q] = dials[q]
           /\ \/ /\ registered[r] # 0 /\ registered' = registered /\ dials' = dials
                 /\ hand' = [hand EXCEPT ![r] = [at |-> "queue", message |-> hand[r].message,
                                                 dial |-> registered[r]]]
              \/ \E n \in Nat \ DOMAIN dials[r] :
                 /\ n # 0 /\ DOMAIN dials'[r] = DOMAIN dials[r] \cup {n}
                 /\ \A i \in DOMAIN dials[r] : dials'[r][i] = dials[r][i]
                 /\ dials'[r][n] = <<>>
                 /\ registered' = [registered EXCEPT ![r] = n]
                 /\ hand' = [hand EXCEPT ![r] = [at |-> "queue", message |-> hand[r].message,
                                                 dial |-> n]]
<1>1. /\ dials[r] \in Seq(Seq(Routed)) /\ DOMAIN dials[r] = 1..Len(dials[r])
      /\ Len(dials[r]) \in Nat /\ registered[r] \in {0} \cup DOMAIN dials[r]
      /\ dials \in [Router -> Seq(Seq(Routed))] /\ registered \in [Router -> Nat]
  BY DialFields
<1>2. CASE registered[r] # 0
  <2>1. registered[r] # Len(dials[r]) + 1
    BY <1>1, <1>2
  <2>2. dials' = dials
    BY <1>2, <2>1 DEF Fetch
  <2>3. registered' = registered
    BY <1>1, <1>2 DEF Fetch
  <2>4. hand' = [hand EXCEPT ![r] = [at |-> "queue", message |-> hand[r].message,
                                     dial |-> registered[r]]]
    BY <1>2 DEF Fetch
  <2>. QED
    BY <1>1, <1>2, <2>2, <2>3, <2>4
<1>3. CASE registered[r] = 0
  <2>a. PICK n : n = Len(dials[r]) + 1
    OBVIOUS
  <2>b. PICK ds : ds = Append(dials[r], <<>>)
    OBVIOUS
  <2>1. /\ ds \in Seq(Seq(Routed)) /\ DOMAIN ds = DOMAIN dials[r] \cup {n}
        /\ n \notin DOMAIN dials[r] /\ \A j \in DOMAIN dials[r] : ds[j] = dials[r][j]
        /\ ds[n] = <<>>
    <3>1. /\ Append(dials[r], <<>>) \in Seq(Seq(Routed))
          /\ DOMAIN Append(dials[r], <<>>) = DOMAIN dials[r] \cup {Len(dials[r]) + 1}
          /\ Len(dials[r]) + 1 \notin DOMAIN dials[r]
          /\ \A j \in DOMAIN dials[r] : Append(dials[r], <<>>)[j] = dials[r][j]
          /\ Append(dials[r], <<>>)[Len(dials[r]) + 1] = <<>>
      <4>1. <<>> \in Seq(Routed)
        OBVIOUS
      <4>. QED
        BY <1>1, <4>1, Appended
    <3>. QED
      BY <3>1, <2>a, <2>b
  <2>2. n \in Nat /\ n # 0
    BY <1>1, <2>a
  <2>3. dials' = [dials EXCEPT ![r] = ds]
    BY <1>3, <2>a, <2>b DEF Fetch
  <2>4. registered' = [registered EXCEPT ![r] = n]
    BY <1>3, <2>a DEF Fetch
  <2>5. hand' = [hand EXCEPT ![r] = [at |-> "queue", message |-> hand[r].message, dial |-> n]]
    BY <1>3, <2>a DEF Fetch
  <2>. QED
    BY <1>1, <2>1, <2>2, <2>3, <2>4, <2>5
<1>. QED
  BY <1>2, <1>3

LEMMA QueueEffect ==
    ASSUME TypeOK, NEW r \in Router, Queue(r)
    PROVE  /\ dials' \in [Router -> Seq(Seq(Routed))]
           /\ \A q \in Router : q # r => dials'[q] = dials[q]
           /\ hand[r] # Idle /\ hand[r].dial \in DOMAIN dials[r]
           /\ DOMAIN dials'[r] = DOMAIN dials[r]
           /\ \A i \in DOMAIN dials[r] : i # hand[r].dial => dials'[r][i] = dials[r][i]
           /\ dials'[r][hand[r].dial] = Append(dials[r][hand[r].dial], hand[r].message)
<1>a. PICK i : i = hand[r].dial
  OBVIOUS
<1>b. PICK m : m = hand[r].message
  OBVIOUS
<1>1. /\ dials[r] \in Seq(Seq(Routed))
      /\ dials \in [Router -> Seq(Seq(Routed))] /\ registered \in [Router -> Nat]
  BY DialFields
<1>2. hand[r] # Idle /\ i \in DOMAIN dials[r] /\ m \in Routed
  BY HandFields, <1>a, <1>b DEF Queue, Idle
<1>c. PICK box : box = Append(dials[r][i], m)
  OBVIOUS
<1>3. box \in Seq(Routed)
  <2>1. dials[r][i] \in Seq(Routed)
    BY <1>1, <1>2
  <2>. QED
    BY <1>2, <1>c, <2>1
<1>d. PICK ds : ds = [dials[r] EXCEPT ![i] = box]
  OBVIOUS
<1>4. /\ ds \in Seq(Seq(Routed)) /\ DOMAIN ds = DOMAIN dials[r]
      /\ \A j \in DOMAIN dials[r] : ds[j] = IF j = i THEN box ELSE dials[r][j]
  BY <1>1, <1>2, <1>3, <1>d, Replace
<1>5. dials' = [dials EXCEPT ![r] = ds]
  BY <1>a, <1>b, <1>c, <1>d DEF Queue
<1>. QED
  BY <1>1, <1>2, <1>4, <1>5, <1>a, <1>b, <1>c


\* A step preserves the types: what it takes into the hand, the accumulators and
\* the pipes it leaves are those of the effects above.
LEMMA TypeOKInv ==
    ASSUME TypeOK, Callbacks, Routes, Next
    PROVE  TypeOK'
<1>. USE DEF routeVars, outcomeVars
<1>a. pipes \in Seq(Pipe) /\ DOMAIN pipes = 1..Len(pipes) /\ Len(pipes) \in Nat
  BY DEF TypeOK
<1>b. \A m \in Routed : [at |-> "look", message |-> m] \in Hand
  BY DEF Hand
<1>c. Idle \in Hand /\ Idle.at = "idle"
  BY DEF Hand, Idle
<1>1. ASSUME NEW r \in Router, Send(r) PROVE TypeOK'
  <2>1. MaxSends[r] \in Nat /\ sent[r] \in Nat /\ sent[r] < MaxSends[r]
    BY <1>1, BoundsAssumption DEF Send, TypeOK
  <2>2. sent[r] + 1 \in 1..MaxSends[r]
    BY <2>1
  <2>3. [from |-> r, n |-> sent[r] + 1] \in Routed
    BY <2>2 DEF Routed, Letter
  <2>4. sent' \in [Router -> Nat] /\ \A q \in Router : sent'[q] <= MaxSends[q]
    BY <1>1, <2>1 DEF Send, TypeOK
  <2>5. hand' \in [Router -> Hand] /\ hand'[r].at = "look" /\ \A q \in Router : q # r => hand'[q] = hand[q]
    BY <1>1, <1>b, <2>3 DEF Send, Take, TypeOK
  <2>. QED
    BY <1>1, <2>4, <2>5 DEF Send, TypeOK
<1>2. ASSUME NEW r \in Router, RouteByPipe(r) PROVE TypeOK'
  <2>1. pipes' \in Seq(Pipe) /\ DOMAIN pipes' = DOMAIN pipes
    BY <1>2, RouteByPipeEffect
  <2>2. hand' \in [Router -> Hand] /\ hand'[r].at = "idle" /\ \A q \in Router : q # r => hand'[q] = hand[q]
    BY <1>2, <1>c DEF RouteByPipe, Handled, TypeOK
  <2>. QED
    BY <1>2, <2>1, <2>2 DEF RouteByPipe, TypeOK
<1>3. ASSUME NEW r \in Router, RouteFails(r) PROVE TypeOK'
  <2>1. hand[r].message \in Letter
    BY <1>3, HandFields DEF RouteFails, Routed, Idle
  <2>2. hand' \in [Router -> Hand] /\ hand'[r].at = "idle" /\ \A q \in Router : q # r => hand'[q] = hand[q]
    BY <1>3, <1>c DEF RouteFails, Handled, TypeOK
  <2>. QED
    BY <1>3, <2>1, <2>2 DEF RouteFails, TypeOK
<1>4. ASSUME NEW r \in Router, BounceFails(r) PROVE TypeOK'
  <2>2. hand' \in [Router -> Hand] /\ hand'[r].at = "idle" /\ \A q \in Router : q # r => hand'[q] = hand[q]
    BY <1>4, <1>c DEF BounceFails, Handled, TypeOK
  <2>. QED
    BY <1>4, <2>2 DEF BounceFails, TypeOK
<1>5. ASSUME NEW r \in Router, RouteLater(r) PROVE TypeOK'
  <2>1. /\ hand[r] = [at |-> "look", message |-> hand[r].message] /\ hand[r].message \in Routed
    BY <1>5, HandFields DEF RouteLater, Idle
  <2>2. [hand[r] EXCEPT !.at = "fetch"] \in Hand /\ [hand[r] EXCEPT !.at = "fetch"].at = "fetch"
    <3>1. [hand[r] EXCEPT !.at = "fetch"] = [at |-> "fetch", message |-> hand[r].message]
      BY <2>1
    <3>. QED
      BY <2>1, <3>1 DEF Hand
  <2>3. hand' \in [Router -> Hand] /\ hand'[r].at = "fetch" /\ \A q \in Router : q # r => hand'[q] = hand[q]
    BY <1>5, <2>2 DEF RouteLater, TypeOK
  <2>. QED
    BY <1>5, <2>3 DEF RouteLater, TypeOK
<1>6. ASSUME NEW r \in Router, Fetch(r) PROVE TypeOK'
  <2>1. hand[r].message \in Routed
    BY <1>6, HandFields DEF Fetch, Idle
  <2>2. PICK n \in Nat :
          /\ n \in DOMAIN dials'[r] /\ DOMAIN dials[r] \subseteq DOMAIN dials'[r]
          /\ dials' \in [Router -> Seq(Seq(Routed))]
          /\ \A q \in Router : q # r => dials'[q] = dials[q]
          /\ registered' = [registered EXCEPT ![r] = n]
          /\ hand' = [hand EXCEPT ![r] = [at |-> "queue", message |-> hand[r].message, dial |-> n]]
    <3>1. /\ registered \in [Router -> Nat] /\ registered[r] \in {0} \cup DOMAIN dials[r]
      BY DialFields
    <3>2. registered = [registered EXCEPT ![r] = registered[r]]
      BY <3>1
    <3>. QED
      BY <1>6, FetchEffect, <3>1, <3>2
  <2>3. [at |-> "queue", message |-> hand[r].message, dial |-> n] \in Hand
    BY <2>1 DEF Hand
  <2>4. /\ hand' \in [Router -> Hand] /\ hand'[r].at = "queue" /\ hand'[r].dial = n
        /\ \A q \in Router : q # r => hand'[q] = hand[q]
    BY <2>2, <2>3 DEF TypeOK
  <2>5. /\ registered' \in [Router -> Nat]
        /\ \A q \in Router : registered'[q] \in {0} \cup DOMAIN dials'[q]
    BY <2>2 DEF TypeOK
  <2>. QED
    BY <1>6, <2>2, <2>4, <2>5 DEF Fetch, TypeOK
<1>7. ASSUME NEW r \in Router, Queue(r) PROVE TypeOK'
  <2>1. /\ dials' \in [Router -> Seq(Seq(Routed))]
        /\ \A q \in Router : DOMAIN dials'[q] = DOMAIN dials[q]
    BY <1>7, QueueEffect
  <2>2. hand' \in [Router -> Hand] /\ hand'[r].at = "idle" /\ \A q \in Router : q # r => hand'[q] = hand[q]
    BY <1>7, <1>c DEF Queue, Handled, TypeOK
  <2>. QED
    BY <1>7, <2>1, <2>2 DEF Queue, TypeOK
<1>8. ASSUME NEW r \in Router, Restart(r) PROVE TypeOK'
  BY <1>8 DEF Restart, TypeOK
<1>9. ASSUME NEW r \in Router, Crash(r) PROVE TypeOK'
  <2>1. pipes' \in Seq(Pipe) /\ DOMAIN pipes' = DOMAIN pipes
    BY <1>9, CrashEffect
  <2>2. hand' \in [Router -> Hand] /\ hand'[r].at = "idle" /\ \A q \in Router : q # r => hand'[q] = hand[q]
    BY <1>9, <1>c DEF Crash, TypeOK
  <2>c. /\ crashes < MaxCrashes /\ crashes' = crashes + 1
        /\ life' = [life EXCEPT ![r] = "down"] /\ published' = [published EXCEPT ![r] = FALSE]
        /\ routes' = [routes EXCEPT ![r] = <<>>] /\ registered' = [registered EXCEPT ![r] = 0]
        /\ dials' = [dials EXCEPT ![r] = <<>>]
    BY <1>9 DEF Crash
  <2>d. MaxCrashes \in Nat /\ crashes \in 0..MaxCrashes
    BY BoundsAssumption DEF TypeOK
  <2>3. routes' \in [Router -> Seq(DOMAIN pipes)]
    BY <2>c DEF TypeOK
  <2>4. /\ dials' \in [Router -> Seq(Seq(Routed))] /\ registered' \in [Router -> Nat]
        /\ \A q \in Router : q # r => dials'[q] = dials[q] /\ registered'[q] = registered[q]
        /\ registered'[r] = 0
    BY <2>c DEF TypeOK
  <2>5. crashes' \in 0..MaxCrashes /\ life' \in [Router -> {"up", "deaf", "down"}]
        /\ published' \in [Router -> BOOLEAN]
    BY <2>c, <2>d DEF TypeOK
  <2>. QED
    BY <1>9, <2>1, <2>2, <2>3, <2>4, <2>5 DEF Crash, TypeOK
<1>10. ASSUME NEW r \in Router, NEW p \in DOMAIN pipes, RegisterRouteBack(r, p) PROVE TypeOK'
  <2>1. pipes' \in Seq(Pipe) /\ DOMAIN pipes' = DOMAIN pipes
    BY <1>10, RegisterRouteBackEffect
  <2>2. routes[r] \in Seq(DOMAIN pipes) /\ NoneTwice(routes[r])
    BY DEF Routes, RoutesOf, TypeOK
  <2>3. <<p>> \o RemoveFirst(routes[r], p) \in Seq(DOMAIN pipes)
    BY <2>2, MovedToFront
  <2>4. routes' \in [Router -> Seq(DOMAIN pipes)] /\ published' \in [Router -> BOOLEAN]
    BY <1>10, <2>3 DEF RegisterRouteBack, TypeOK
  <2>. QED
    BY <1>10, <2>1, <2>4 DEF RegisterRouteBack, TypeOK
<1>11. ASSUME NEW r \in Router, NEW p \in DOMAIN pipes, Arrive(r, p) PROVE TypeOK'
  <2>1. /\ pipes' \in Seq(Pipe) /\ DOMAIN pipes' = DOMAIN pipes
        /\ Head(pipes[p].wire[r]) \in Letter
    BY <1>11, ArriveEffect
  <2>2. arrived' \in [Letter -> Nat]
    BY <1>11, <2>1 DEF Arrive, TypeOK
  <2>3. Bounce \in Routed
    BY DEF Routed
  <2>4. /\ hand' \in [Router -> Hand]
        /\ \A q \in Router : hand'[q].at = "queue" => hand'[q] = hand[q]
    <3>1. hand' \in {hand, [hand EXCEPT ![r] = [at |-> "look", message |-> Bounce]]}
      BY <1>11 DEF Arrive, Take
    <3>2. [at |-> "look", message |-> Bounce] \in Hand
      BY <1>b, <2>3
    <3>. PICK h : h = [at |-> "look", message |-> Bounce]
      OBVIOUS
    <3>3. h.at = "look" /\ h \in Hand
      BY <3>2
    <3>4. CASE hand' = [hand EXCEPT ![r] = h]
      BY <3>3, <3>4 DEF TypeOK
    <3>. QED
      BY <3>1, <3>4 DEF TypeOK
  <2>. QED
    BY <1>11, <2>1, <2>2, <2>4 DEF Arrive, TypeOK
<1>12. ASSUME NEW r \in Router, NEW dial \in DOMAIN dials[r], Connect(r, dial) PROVE TypeOK'
  <2>1. pipes' \in Seq(Pipe) /\ DOMAIN pipes \subseteq DOMAIN pipes'
    BY <1>12, ConnectEffect
  <2>2. routes \in [Router -> Seq(DOMAIN pipes')]
    <3>1. \A q \in Router : routes[q] \in Seq(DOMAIN pipes)
      BY DEF TypeOK
    <3>2. \A q \in Router : routes[q] \in Seq(DOMAIN pipes')
      BY <2>1, <3>1, SeqMonotonic
    <3>. QED
      BY <3>2 DEF TypeOK
  <2>. QED
    BY <1>12, <2>1, <2>2 DEF Connect, TypeOK
<1>13. ASSUME NEW p \in DOMAIN pipes, Create(p) PROVE TypeOK'
  <2>1. pipes' \in Seq(Pipe) /\ DOMAIN pipes' = DOMAIN pipes /\ pipes[p].dialer \in Router
    BY <1>13, CreateEffect
  <2>2. routes' \in [Router -> Seq(DOMAIN pipes)] /\ published' \in [Router -> BOOLEAN]
    BY <1>13, <2>1 DEF Create, TypeOK
  <2>. QED
    BY <1>13, <2>1, <2>2 DEF Create, TypeOK
<1>14. ASSUME NEW p \in DOMAIN pipes, Add(p) PROVE TypeOK'
  <2>1. pipes' \in Seq(Pipe) /\ DOMAIN pipes' = DOMAIN pipes /\ pipes[p].dialer \in Router
    BY <1>14, AddEffect
  <2>2. routes[pipes[p].dialer] \in Seq(DOMAIN pipes)
    BY <2>1 DEF TypeOK
  <2>3. Append(routes[pipes[p].dialer], p) \in Seq(DOMAIN pipes)
    BY <2>2
  <2>4. routes' \in [Router -> Seq(DOMAIN pipes)]
    BY <1>14, <2>1, <2>3 DEF Add, TypeOK
  <2>. QED
    BY <1>14, <2>1, <2>4 DEF Add, TypeOK
<1>15. ASSUME NEW p \in DOMAIN pipes, Announce(p) PROVE TypeOK'
  <2>1. pipes' \in Seq(Pipe) /\ DOMAIN pipes' = DOMAIN pipes /\ pipes[p].dialer \in Router
    BY <1>15, AnnounceEffect
  <2>2. /\ registered' \in [Router -> Nat]
        /\ \A q \in Router : registered'[q] \in {0, registered[q]}
    BY <1>15, <2>1 DEF Announce, TypeOK
  <2>. QED
    BY <1>15, <2>1, <2>2 DEF Announce, TypeOK
<1>16. ASSUME NEW p \in DOMAIN pipes, Flush(p) PROVE TypeOK'
  <2>1. pipes' \in Seq(Pipe) /\ DOMAIN pipes' = DOMAIN pipes
    BY <1>16, FlushEffect
  <2>. QED
    BY <1>16, <2>1 DEF Flush, TypeOK
<1>. QED
  BY <1>1, <1>2, <1>3, <1>4, <1>5, <1>6, <1>7, <1>8, <1>9, <1>10, <1>11, <1>12, <1>13, <1>14,
     <1>15, <1>16 DEF Next, EventLoop, SockRecv, OnConnect


\* A step preserves Callbacks: an accumulator leaves _msgAccumulatorByEp when a
\* callback takes it, and what is registered later is another one.
LEMMA CallbacksInv ==
    ASSUME TypeOK, Callbacks, Next
    PROVE  Callbacks'
<1>. USE DEF routeVars, outcomeVars
<1>a. \A p \in DOMAIN pipes : pipes[p].dialer \in Router
  BY PipeFields
<1>b. ASSUME UNCHANGED <<pipes, registered>>,
             \A r \in Router : DOMAIN dials[r] \subseteq DOMAIN dials'[r]
      PROVE  Callbacks'
  BY <1>a, <1>b DEF Callbacks
<1>1. ASSUME NEW r \in Router,
             \/ Send(r) \/ RouteFails(r) \/ BounceFails(r) \/ RouteLater(r) \/ Restart(r)
      PROVE  Callbacks'
  <2>1. UNCHANGED <<pipes, registered, dials>>
    BY <1>1 DEF Send, RouteFails, BounceFails, RouteLater, Restart
  <2>. QED
    BY <1>b, <2>1
<1>2. ASSUME NEW r \in Router, RouteByPipe(r) PROVE Callbacks'
  <2>1. /\ DOMAIN pipes' = DOMAIN pipes
        /\ \A q \in DOMAIN pipes : Unwired(pipes'[q], pipes[q])
    BY <1>2, RouteByPipeEffect DEF Unwired
  <2>2. UNCHANGED <<registered, dials>>
    BY <1>2 DEF RouteByPipe
  <2>. QED
    BY <2>1, <2>2 DEF Callbacks, Unwired
<1>3. ASSUME NEW r \in Router, NEW p \in DOMAIN pipes, Arrive(r, p) PROVE Callbacks'
  <2>1. /\ DOMAIN pipes' = DOMAIN pipes
        /\ \A q \in DOMAIN pipes : Unwired(pipes'[q], pipes[q])
    BY <1>3, ArriveEffect DEF Unwired
  <2>2. UNCHANGED <<registered, dials>>
    BY <1>3 DEF Arrive
  <2>. QED
    BY <2>1, <2>2 DEF Callbacks, Unwired
<1>4. ASSUME NEW r \in Router, NEW p \in DOMAIN pipes, RegisterRouteBack(r, p)
      PROVE  Callbacks'
  <2>1. /\ DOMAIN pipes' = DOMAIN pipes
        /\ \A q \in DOMAIN pipes : Refreshed(r, pipes'[q], pipes[q])
    BY <1>4, RegisterRouteBackEffect
  <2>2. UNCHANGED <<registered, dials>>
    BY <1>4 DEF RegisterRouteBack
  <2>. QED
    BY <2>1, <2>2 DEF Callbacks, Refreshed
<1>5. ASSUME NEW r \in Router, Fetch(r) PROVE Callbacks'
  <2>1. UNCHANGED pipes
    BY <1>5 DEF Fetch
  <2>2. CASE registered' = registered /\ dials' = dials
    BY <1>b, <2>1, <2>2
  <2>3. ASSUME NEW n \in Nat \ DOMAIN dials[r],
               DOMAIN dials'[r] = DOMAIN dials[r] \cup {n},
               registered' = [registered EXCEPT ![r] = n],
               \A q \in Router : q # r => dials'[q] = dials[q]
        PROVE  Callbacks'
    <3>1. registered \in [Router -> Nat]
      BY DialFields
    <3>2. \A q \in Router : DOMAIN dials[q] \subseteq DOMAIN dials'[q]
      BY <2>3
    <3>3. \A q \in Router : \A i \in DOMAIN dials[q] : i # registered[q] => i # registered'[q]
      BY <2>3, <3>1
    <3>. QED
      BY <1>a, <2>1, <3>2, <3>3 DEF Callbacks
  <2>. QED
    BY <1>5, <2>2, <2>3, FetchEffect
<1>6. ASSUME NEW r \in Router, Queue(r) PROVE Callbacks'
  <2>1. UNCHANGED <<pipes, registered>>
    BY <1>6 DEF Queue
  <2>2. \A q \in Router : DOMAIN dials'[q] = DOMAIN dials[q]
    BY <1>6, QueueEffect
  <2>. QED
    BY <1>b, <2>1, <2>2
<1>7. ASSUME NEW r \in Router, Crash(r) PROVE Callbacks'
  <2>1. /\ DOMAIN pipes' = DOMAIN pipes
        /\ \A p \in DOMAIN pipes :
             /\ pipes'[p].dialer = pipes[p].dialer /\ pipes'[p].fresh = pipes[p].fresh
             /\ pipes[p].dialer = r =>
                    pipes'[p].pc = "done" /\ pipes'[p].box = 0 /\ pipes'[p].next = 1
             /\ pipes[p].dialer # r =>
                    /\ pipes'[p].pc = pipes[p].pc
                    /\ pipes'[p].box = pipes[p].box /\ pipes'[p].next = pipes[p].next
    BY <1>7, CrashEffect
  <2>2. /\ registered' = [registered EXCEPT ![r] = 0] /\ dials' = [dials EXCEPT ![r] = <<>>]
    BY <1>7 DEF Crash
  <2>3. \A q \in Router : q # r => dials'[q] = dials[q] /\ registered'[q] = registered[q]
    BY <2>2 DEF TypeOK
  <2>. QED
    BY <1>a, <2>1, <2>3 DEF Callbacks
<1>8. ASSUME NEW r \in Router, NEW dial \in DOMAIN dials[r], Connect(r, dial)
      PROVE  Callbacks'
  <2>1. PICK n \in Nat \ DOMAIN pipes :
           /\ DOMAIN pipes' = DOMAIN pipes \cup {n}
           /\ \A q \in DOMAIN pipes : pipes'[q] = pipes[q]
           /\ pipes'[n].pc \in {"create", "add"} /\ pipes'[n].fresh
           /\ pipes'[n].box = 0 /\ pipes'[n].next = 1
    BY <1>8, ConnectEffect
  <2>2. UNCHANGED <<registered, dials>>
    BY <1>8 DEF Connect
  <2>. QED
    BY <2>1, <2>2 DEF Callbacks
<1>9. ASSUME NEW p \in DOMAIN pipes, Create(p) PROVE Callbacks'
  <2>1. /\ DOMAIN pipes' = DOMAIN pipes /\ pipes[p].pc = "create"
        /\ \A q \in DOMAIN pipes : q # p => Refreshed(pipes[p].dialer, pipes'[q], pipes[q])
        /\ pipes'[p] = [pipes[p] EXCEPT !.pc = "add"]
    BY <1>9, CreateEffect
  <2>2. UNCHANGED <<registered, dials>>
    BY <1>9 DEF Create
  <2>3. /\ pipes'[p].pc = "add" /\ pipes'[p].dialer = pipes[p].dialer
        /\ pipes'[p].box = pipes[p].box /\ pipes'[p].next = pipes[p].next
    BY <2>1, PipeFields DEF Pipe
  <2>. QED
    <3>1. \A q \in DOMAIN pipes :
            /\ pipes'[q].dialer = pipes[q].dialer /\ pipes'[q].box = pipes[q].box
            /\ pipes'[q].next = pipes[q].next
            /\ q # p => pipes'[q].pc = pipes[q].pc
            /\ pipes[q].pc # "add" => pipes'[q].fresh = pipes[q].fresh \/ q = p
      BY <2>1, <2>3 DEF Refreshed
    <3>2. DOMAIN pipes' = DOMAIN pipes /\ pipes[p].pc = "create" /\ pipes'[p].pc = "add"
      BY <2>1, <2>3
    <3>. QED
      BY <2>2, <3>1, <3>2 DEF Callbacks
<1>10. ASSUME NEW p \in DOMAIN pipes, Add(p) PROVE Callbacks'
  <2>1. /\ DOMAIN pipes' = DOMAIN pipes /\ pipes[p].pc = "add"
        /\ \A q \in DOMAIN pipes : q # p => pipes'[q] = pipes[q]
        /\ pipes'[p] = [pipes[p] EXCEPT !.pc = "announce"]
    BY <1>10, AddEffect
  <2>2. UNCHANGED <<registered, dials>>
    BY <1>10 DEF Add
  <2>3. /\ pipes'[p].pc = "announce" /\ pipes'[p].dialer = pipes[p].dialer
        /\ pipes'[p].box = pipes[p].box /\ pipes'[p].next = pipes[p].next
    BY <2>1, PipeFields DEF Pipe
  <2>. QED
    <3>1. \A q \in DOMAIN pipes :
            /\ pipes'[q].dialer = pipes[q].dialer /\ pipes'[q].box = pipes[q].box
            /\ pipes'[q].next = pipes[q].next
            /\ q # p => pipes'[q].pc = pipes[q].pc /\ pipes'[q].fresh = pipes[q].fresh
      BY <2>1, <2>3
    <3>2. DOMAIN pipes' = DOMAIN pipes /\ pipes[p].pc = "add" /\ pipes'[p].pc = "announce"
      BY <2>1, <2>3
    <3>. QED
      BY <2>2, <3>1, <3>2 DEF Callbacks
<1>11. ASSUME NEW p \in DOMAIN pipes, Announce(p) PROVE Callbacks'
  <2>a. PICK r \in Router : r = pipes[p].dialer
    BY <1>a
  <2>b. PICK box : box = registered[r]
    OBVIOUS
  <2>1. /\ pipes[p].pc = "announce"
        /\ DOMAIN pipes' = DOMAIN pipes
        /\ \A q \in DOMAIN pipes : q # p => pipes'[q] = pipes[q]
        /\ pipes'[p].dialer = r /\ pipes'[p].box = box /\ pipes'[p].next = pipes[p].next
        /\ pipes'[p].pc = IF box = 0 THEN "done" ELSE "flush"
    BY <1>11, <2>a, <2>b, AnnounceEffect
  <2>2. UNCHANGED dials /\ registered' = [registered EXCEPT ![r] = 0]
    BY <1>11, <2>a DEF Announce
  <2>3. registered \in [Router -> Nat] /\ (box # 0 => box \in DOMAIN dials[r])
    BY DialFields, <2>b
  <2>4. \A q \in Router : registered'[q] = IF q = r THEN 0 ELSE registered[q]
    BY <2>2, <2>3
  <2>5. pipes[p].box = 0 /\ pipes[p].next = 1
    BY <2>1 DEF Callbacks
  <2>6. \A q \in DOMAIN pipes : pipes[q].dialer = r /\ pipes[q].box # 0 => pipes[q].box # box
    BY <2>b DEF Callbacks
  <2>7. ASSUME NEW q \in DOMAIN pipes, pipes'[q].box # 0
        PROVE  /\ pipes'[q].box \in DOMAIN dials'[pipes'[q].dialer]
               /\ pipes'[q].box # registered'[pipes'[q].dialer]
               /\ \A k \in DOMAIN pipes :
                    pipes'[k].dialer = pipes'[q].dialer /\ pipes'[k].box = pipes'[q].box => k = q
    <3>1. CASE q = p
      BY <3>1, <2>a, <2>1, <2>2, <2>3, <2>4, <2>6, <2>7
    <3>2. CASE q # p
      <4>1. pipes'[q] = pipes[q] /\ pipes[q].box # 0
        BY <2>1, <2>7, <3>2
      <4>2. /\ pipes[q].box \in DOMAIN dials[pipes[q].dialer]
            /\ pipes[q].box # registered[pipes[q].dialer]
            /\ \A k \in DOMAIN pipes :
                 pipes[k].dialer = pipes[q].dialer /\ pipes[k].box = pipes[q].box => k = q
        BY <4>1 DEF Callbacks
      <4>3. pipes[q].box # registered'[pipes[q].dialer]
        BY <1>a, <2>4, <4>1, <4>2
      <4>4. pipes[q].dialer = r => pipes[q].box # box
        BY <2>6, <4>1
      <4>. QED
        BY <2>a, <2>1, <2>2, <4>1, <4>2, <4>3, <4>4
    <3>. QED
      BY <3>1, <3>2
  <2>8. ASSUME NEW q \in DOMAIN pipes
        PROVE  /\ pipes'[q].pc \in {"create", "add", "announce"}
                    => pipes'[q].box = 0 /\ pipes'[q].next = 1
               /\ pipes'[q].pc = "create" => pipes'[q].fresh
               /\ pipes'[q].pc = "flush" => pipes'[q].box # 0
    BY <2>1 DEF Callbacks
  <2>. QED
    BY <2>1, <2>7, <2>8 DEF Callbacks
<1>12. ASSUME NEW p \in DOMAIN pipes, Flush(p) PROVE Callbacks'
  <2>1. /\ pipes[p].pc = "flush"
        /\ DOMAIN pipes' = DOMAIN pipes
        /\ \A q \in DOMAIN pipes : q # p => pipes'[q] = pipes[q]
        /\ pipes'[p].dialer = pipes[p].dialer
        /\ pipes'[p].box = pipes[p].box /\ pipes'[p].pc \in {"flush", "done"}
    BY <1>12, FlushEffect
  <2>2. UNCHANGED <<registered, dials>>
    BY <1>12 DEF Flush
  <2>. QED
    BY <2>1, <2>2 DEF Callbacks
<1>. QED
  BY <1>1, <1>2, <1>3, <1>4, <1>5, <1>6, <1>7, <1>8, <1>9, <1>10, <1>11, <1>12
     DEF Next, EventLoop, SockRecv, OnConnect

\* A step preserves DialersAnnounce.
LEMMA DialersAnnounceInv ==
    ASSUME TypeOK, Callbacks, DialersAnnounce, Next
    PROVE  DialersAnnounce'
<1>. USE DEF routeVars, outcomeVars
<1>a. /\ pipes \in Seq(Pipe)
      /\ \A p \in DOMAIN pipes : /\ pipes[p].dialer \in Router
                                 /\ pipes[p].wire \in [Router -> Seq(Written)]
  BY PipeFields DEF TypeOK
<1>b. \A r \in Router : Peer(r) \in Router /\ Peer(r) # r /\ Peer(Peer(r)) = r
  BY RouterPeer
<1>c. \A q, r \in Router : q = r \/ q = Peer(r)
  BY DEF Router, Peer
<1>d. Announcement \notin Letter
  <2>1. \A m \in Letter : m.from \in Router
    BY DEF Letter
  <2>2. Announcement.from \notin Router
    BY DEF Announcement, Router
  <2>. QED
    BY <2>1, <2>2
\* A write to one pipe.
<1>e. ASSUME NEW p \in DOMAIN pipes, NEW r \in Router, NEW m \in Written,
             DOMAIN pipes' = DOMAIN pipes,
             \A q \in DOMAIN pipes : q # p => pipes'[q] = pipes[q],
             pipes'[p].dialer = pipes[p].dialer,
             pipes'[p].wire[r] = pipes[p].wire[r],
             pipes'[p].wire[Peer(r)] \in
                {pipes[p].wire[Peer(r)], Append(pipes[p].wire[Peer(r)], m)},
             m = Announcement => pipes[p].dialer = r
      PROVE  DialersAnnounce'
  <2>1. SUFFICES ASSUME NEW q \in DOMAIN pipes, NEW k \in Router,
                        NEW i \in DOMAIN pipes'[q].wire[k],
                        pipes'[q].wire[k][i] = Announcement
                 PROVE  pipes'[q].dialer = Peer(k)
    BY <1>e DEF DialersAnnounce
  <2>2. CASE pipes'[q].wire[k] = pipes[q].wire[k] /\ pipes'[q].dialer = pipes[q].dialer
    BY <2>1, <2>2 DEF DialersAnnounce
  <2>3. CASE q = p /\ k = Peer(r) /\ pipes'[q].wire[k] = Append(pipes[p].wire[k], m)
    <3>1. pipes[p].wire[k] \in Seq(Written)
      BY <1>a
    <3>2. /\ DOMAIN Append(pipes[p].wire[k], m) = DOMAIN pipes[p].wire[k] \cup {Len(pipes[p].wire[k]) + 1}
          /\ \A j \in DOMAIN pipes[p].wire[k] : Append(pipes[p].wire[k], m)[j] = pipes[p].wire[k][j]
          /\ Append(pipes[p].wire[k], m)[Len(pipes[p].wire[k]) + 1] = m
      BY <3>1, Appended
    <3>3. \/ m = Announcement
          \/ \E j \in DOMAIN pipes[p].wire[k] : pipes[p].wire[k][j] = Announcement
      BY <2>1, <2>3, <3>2
    <3>4. pipes[p].dialer = Peer(k)
      BY <1>b, <1>e, <2>3, <3>3 DEF DialersAnnounce
    <3>. QED
      BY <1>e, <2>3, <3>4
  <2>. QED
    BY <1>c, <1>e, <2>2, <2>3
\* A message taken from one pipe.
<1>f. ASSUME NEW p \in DOMAIN pipes, NEW r \in Router, pipes[p].wire[r] # <<>>,
             DOMAIN pipes' = DOMAIN pipes,
             \A q \in DOMAIN pipes : pipes'[q].dialer = pipes[q].dialer,
             \A q \in DOMAIN pipes : q # p => pipes'[q].wire = pipes[q].wire,
             pipes'[p].wire[r] = Tail(pipes[p].wire[r]),
             pipes'[p].wire[Peer(r)] = pipes[p].wire[Peer(r)]
      PROVE  DialersAnnounce'
  <2>1. SUFFICES ASSUME NEW q \in DOMAIN pipes, NEW k \in Router,
                        NEW i \in DOMAIN pipes'[q].wire[k],
                        pipes'[q].wire[k][i] = Announcement
                 PROVE  pipes[q].dialer = Peer(k)
    BY <1>f DEF DialersAnnounce
  <2>2. CASE pipes'[q].wire[k] = pipes[q].wire[k]
    BY <2>1, <2>2 DEF DialersAnnounce
  <2>3. CASE q = p /\ k = r
    <3>1. pipes[p].wire[r] \in Seq(Written)
      BY <1>a
    <3>2. \A j \in DOMAIN Tail(pipes[p].wire[r]) :
             /\ j + 1 \in DOMAIN pipes[p].wire[r]
             /\ Tail(pipes[p].wire[r])[j] = pipes[p].wire[r][j + 1]
      BY <1>f, <3>1, Tailed
    <3>3. i \in DOMAIN Tail(pipes[p].wire[r])
      BY <1>f, <2>1, <2>3
    <3>. QED
      BY <1>f, <2>1, <2>3, <3>2, <3>3 DEF DialersAnnounce
  <2>. QED
    BY <1>c, <1>f, <2>2, <2>3
<1>g. ASSUME DOMAIN pipes' = DOMAIN pipes,
             \A q \in DOMAIN pipes :
                pipes'[q].dialer = pipes[q].dialer /\ pipes'[q].wire = pipes[q].wire
      PROVE  DialersAnnounce'
  BY <1>g DEF DialersAnnounce
<1>1. ASSUME NEW r \in Router,
             \/ Send(r) \/ RouteFails(r) \/ BounceFails(r) \/ RouteLater(r) \/ Fetch(r)
             \/ Queue(r) \/ Restart(r)
      PROVE  DialersAnnounce'
  <2>1. UNCHANGED pipes
    BY <1>1 DEF Send, RouteFails, BounceFails, RouteLater, Fetch, Queue, Restart
  <2>. QED
    BY <1>g, <2>1
<1>2. ASSUME NEW r \in Router, RouteByPipe(r) PROVE DialersAnnounce'
  <2>a. PICK p : p = routes[r][1]
    OBVIOUS
  <2>b. PICK m : m = hand[r].message
    OBVIOUS
  <2>1. /\ m \in Letter /\ p \in DOMAIN pipes
        /\ DOMAIN pipes' = DOMAIN pipes
        /\ \A q \in DOMAIN pipes : q # p => pipes'[q] = pipes[q]
        /\ Unwired(pipes'[p], pipes[p])
        /\ pipes'[p].wire[r] = pipes[p].wire[r]
        /\ pipes'[p].wire[Peer(r)] \in
             {pipes[p].wire[Peer(r)], Append(pipes[p].wire[Peer(r)], m)}
    BY <1>2, <2>a, <2>b, RouteByPipeEffect
  <2>2. m \in Written /\ m # Announcement /\ pipes'[p].dialer = pipes[p].dialer
    BY <1>d, <2>1 DEF Written, Unwired
  <2>. QED
    BY <1>e, <2>1, <2>2
<1>3. ASSUME NEW r \in Router, NEW p \in DOMAIN pipes, Arrive(r, p) PROVE DialersAnnounce'
  <2>1. /\ pipes[p].wire[r] # <<>> /\ DOMAIN pipes' = DOMAIN pipes
        /\ \A q \in DOMAIN pipes : q # p => pipes'[q] = pipes[q]
        /\ Unwired(pipes'[p], pipes[p])
        /\ pipes'[p].wire[r] = Tail(pipes[p].wire[r])
        /\ pipes'[p].wire[Peer(r)] = pipes[p].wire[Peer(r)]
    BY <1>3, ArriveEffect
  <2>2. \A q \in DOMAIN pipes : pipes'[q].dialer = pipes[q].dialer
    BY <2>1 DEF Unwired
  <2>. QED
    BY <1>f, <2>1, <2>2
<1>4. ASSUME NEW r \in Router, NEW p \in DOMAIN pipes, RegisterRouteBack(r, p)
      PROVE  DialersAnnounce'
  <2>1. /\ pipes[p].wire[r] # <<>> /\ DOMAIN pipes' = DOMAIN pipes
        /\ \A q \in DOMAIN pipes : Refreshed(r, pipes'[q], pipes[q])
        /\ \A q \in DOMAIN pipes : q # p => pipes'[q].wire = pipes[q].wire
        /\ pipes'[p].wire[r] = Tail(pipes[p].wire[r])
        /\ pipes'[p].wire[Peer(r)] = pipes[p].wire[Peer(r)]
    BY <1>4, RegisterRouteBackEffect
  <2>2. \A q \in DOMAIN pipes : pipes'[q].dialer = pipes[q].dialer
    BY <2>1 DEF Refreshed
  <2>. QED
    BY <1>f, <2>1, <2>2
<1>5. ASSUME NEW r \in Router, Crash(r) PROVE DialersAnnounce'
  <2>1. DOMAIN pipes' = DOMAIN pipes
        /\ \A p \in DOMAIN pipes : pipes'[p].wire = [q \in Router |-> <<>>]
    BY <1>5, CrashEffect
  <2>. QED
    BY <2>1 DEF DialersAnnounce
<1>6. ASSUME NEW r \in Router, NEW dial \in DOMAIN dials[r], Connect(r, dial)
      PROVE  DialersAnnounce'
  <2>1. PICK n \in Nat \ DOMAIN pipes :
           /\ DOMAIN pipes' = DOMAIN pipes \cup {n}
           /\ \A q \in DOMAIN pipes : pipes'[q] = pipes[q]
           /\ pipes'[n].wire = [q \in Router |-> <<>>]
    BY <1>6, ConnectEffect
  <2>. QED
    BY <2>1 DEF DialersAnnounce
<1>7. ASSUME NEW p \in DOMAIN pipes, Create(p) PROVE DialersAnnounce'
  <2>1. /\ DOMAIN pipes' = DOMAIN pipes
        /\ \A q \in DOMAIN pipes : q # p => Refreshed(pipes[p].dialer, pipes'[q], pipes[q])
        /\ \A q \in DOMAIN pipes : pipes'[q].wire = pipes[q].wire
        /\ pipes'[p] = [pipes[p] EXCEPT !.pc = "add"]
    BY <1>7, CreateEffect
  <2>2. pipes'[p].dialer = pipes[p].dialer
    BY <2>1, PipeFields DEF Pipe
  <2>. QED
    BY <1>g, <2>1, <2>2 DEF Refreshed
<1>8. ASSUME NEW p \in DOMAIN pipes, Add(p) PROVE DialersAnnounce'
  <2>1. /\ DOMAIN pipes' = DOMAIN pipes
        /\ \A q \in DOMAIN pipes : q # p => pipes'[q] = pipes[q]
        /\ pipes'[p] = [pipes[p] EXCEPT !.pc = "announce"]
    BY <1>8, AddEffect
  <2>2. pipes'[p].dialer = pipes[p].dialer /\ pipes'[p].wire = pipes[p].wire
    BY <2>1, PipeFields DEF Pipe
  <2>. QED
    BY <1>g, <2>1, <2>2
<1>9. ASSUME NEW p \in DOMAIN pipes, Announce(p) PROVE DialersAnnounce'
  <2>a. PICK r \in Router : r = pipes[p].dialer
    BY <1>a
  <2>1. /\ DOMAIN pipes' = DOMAIN pipes
        /\ \A q \in DOMAIN pipes : q # p => pipes'[q] = pipes[q]
        /\ pipes'[p].dialer = r
        /\ pipes'[p].wire[r] = pipes[p].wire[r]
        /\ pipes'[p].wire[Peer(r)] \in
             {pipes[p].wire[Peer(r)], Append(pipes[p].wire[Peer(r)], Announcement)}
    BY <1>9, <2>a, AnnounceEffect
  <2>2. Announcement \in Written
    BY DEF Written
  <2>. QED
    BY <1>e, <2>a, <2>1, <2>2
<1>10. ASSUME NEW p \in DOMAIN pipes, Flush(p) PROVE DialersAnnounce'
  <2>a. PICK r \in Router : r = pipes[p].dialer
    BY <1>a
  <2>b. PICK box : box = dials[r][pipes[p].box]
    OBVIOUS
  <2>1. /\ DOMAIN pipes' = DOMAIN pipes
        /\ \A q \in DOMAIN pipes : q # p => pipes'[q] = pipes[q]
        /\ pipes'[p].dialer = r
        /\ pipes'[p].wire[r] = pipes[p].wire[r]
        /\ \/ pipes'[p].wire[Peer(r)] = pipes[p].wire[Peer(r)]
           \/ /\ box[pipes[p].next] \in Letter
              /\ pipes'[p].wire[Peer(r)] \in
                   {pipes[p].wire[Peer(r)], Append(pipes[p].wire[Peer(r)], box[pipes[p].next])}
    BY <1>10, <2>a, <2>b, FlushEffect
  <2>2. \E m \in Written :
          /\ pipes'[p].wire[Peer(r)] \in
                {pipes[p].wire[Peer(r)], Append(pipes[p].wire[Peer(r)], m)}
          /\ m = Announcement => pipes[p].dialer = r
    BY <2>a, <2>1 DEF Written
  <2>. QED
    BY <1>e, <2>a, <2>1, <2>2
<1>. QED
  BY <1>1, <1>2, <1>3, <1>4, <1>5, <1>6, <1>7, <1>8, <1>9, <1>10
     DEF Next, EventLoop, SockRecv, OnConnect


\* A step preserves Routes.
LEMMA RoutesInv ==
    ASSUME TypeOK, Callbacks, DialersAnnounce, Routes, Next
    PROVE  Routes'
<1>. USE DEF routeVars, outcomeVars
<1>a. /\ \A p \in DOMAIN pipes : pipes[p] \in Pipe /\ pipes[p].dialer \in Router
                                 /\ pipes[p].wire \in [Router -> Seq(Written)]
      /\ \A r \in Router : routes[r] \in Seq(DOMAIN pipes)
      /\ routes \in [Router -> Seq(DOMAIN pipes)] /\ published \in [Router -> BOOLEAN]
  BY PipeFields DEF TypeOK
<1>b. \A r \in Router : \A i \in DOMAIN routes[r] : routes[r][i] \in DOMAIN pipes
  BY <1>a
\* The routes stay, and so does what Routes says of the pipes.
<1>c. ASSUME NEW k \in Router, routes'[k] = routes[k], published'[k] = published[k],
             \A q \in DOMAIN pipes :
                /\ q \in DOMAIN pipes' /\ pipes'[q].dialer = pipes[q].dialer
                /\ pipes[q].dialer = k =>
                    /\ pipes[q].pc \notin {"create", "add"} => pipes'[q].pc \notin {"create", "add"}
                    /\ pipes[q].pc = "add" /\ pipes[q].fresh
                        => pipes'[q].pc = "add" /\ pipes'[q].fresh
      PROVE  RoutesOf(k)'
  <2>1. NoneTwice(routes'[k])
    BY <1>c DEF Routes, RoutesOf
  <2>2. ASSUME NEW i \in DOMAIN routes'[k], pipes'[routes'[k][i]].dialer = k
        PROVE  pipes'[routes'[k][i]].pc \notin {"create", "add"}
    <3>1. i \in DOMAIN routes[k] /\ routes'[k][i] = routes[k][i] /\ routes[k][i] \in DOMAIN pipes
      BY <1>b, <1>c, <2>2
    <3>2. pipes[routes[k][i]].dialer = k
      BY <1>c, <2>2, <3>1
    <3>3. pipes[routes[k][i]].pc \notin {"create", "add"}
      BY <3>1, <3>2 DEF Routes, RoutesOf
    <3>. QED
      BY <1>c, <3>1, <3>2, <3>3
  <2>3. ASSUME published'[k], routes'[k] = <<>>
        PROVE  \E p \in DOMAIN pipes' : pipes'[p].dialer = k
                                        /\ pipes'[p].pc = "add" /\ pipes'[p].fresh
    <3>1. PICK p \in DOMAIN pipes : pipes[p].dialer = k /\ pipes[p].pc = "add" /\ pipes[p].fresh
      BY <1>c, <2>3 DEF Routes, RoutesOf
    <3>. QED
      BY <1>c, <3>1
  <2>. QED
    BY <2>1, <2>2, <2>3 DEF RoutesOf
<1>d. ASSUME UNCHANGED <<routes, published>>,
             \A q \in DOMAIN pipes :
                /\ q \in DOMAIN pipes' /\ pipes'[q].dialer = pipes[q].dialer
                /\ pipes[q].pc \notin {"create", "add"} => pipes'[q].pc \notin {"create", "add"}
                /\ pipes[q].pc = "add" /\ pipes[q].fresh
                        => pipes'[q].pc = "add" /\ pipes'[q].fresh
      PROVE  Routes'
  <2>. SUFFICES ASSUME NEW k \in Router
                PROVE  RoutesOf(k)'
    BY DEF Routes
  <2>1. routes'[k] = routes[k] /\ published'[k] = published[k]
    BY <1>d
  <2>. QED
    BY <1>c, <1>d, <2>1
<1>1. ASSUME NEW r \in Router,
             \/ Send(r) \/ RouteFails(r) \/ BounceFails(r) \/ RouteLater(r) \/ Fetch(r)
             \/ Queue(r) \/ Restart(r)
      PROVE  Routes'
  <2>1. UNCHANGED <<pipes, routes, published>>
    BY <1>1 DEF Send, RouteFails, BounceFails, RouteLater, Fetch, Queue, Restart
  <2>. QED
    BY <1>d, <2>1
<1>2. ASSUME NEW r \in Router, RouteByPipe(r) PROVE Routes'
  <2>1. /\ DOMAIN pipes' = DOMAIN pipes
        /\ \A q \in DOMAIN pipes : Unwired(pipes'[q], pipes[q])
    BY <1>2, RouteByPipeEffect DEF Unwired
  <2>2. UNCHANGED <<routes, published>>
    BY <1>2 DEF RouteByPipe
  <2>. QED
    BY <1>d, <2>1, <2>2 DEF Unwired
<1>3. ASSUME NEW r \in Router, NEW p \in DOMAIN pipes, Arrive(r, p) PROVE Routes'
  <2>1. /\ DOMAIN pipes' = DOMAIN pipes
        /\ \A q \in DOMAIN pipes : Unwired(pipes'[q], pipes[q])
    BY <1>3, ArriveEffect DEF Unwired
  <2>2. UNCHANGED <<routes, published>>
    BY <1>3 DEF Arrive
  <2>. QED
    BY <1>d, <2>1, <2>2 DEF Unwired
<1>4. ASSUME NEW p \in DOMAIN pipes, Announce(p) PROVE Routes'
  <2>1. /\ pipes[p].pc = "announce"
        /\ DOMAIN pipes' = DOMAIN pipes
        /\ \A q \in DOMAIN pipes : q # p => pipes'[q] = pipes[q]
        /\ pipes'[p].dialer = pipes[p].dialer
        /\ pipes'[p].pc \in {"done", "flush"}
    BY <1>4, AnnounceEffect
  <2>2. UNCHANGED <<routes, published>>
    BY <1>4 DEF Announce
  <2>. QED
    BY <1>d, <2>1, <2>2
<1>5. ASSUME NEW p \in DOMAIN pipes, Flush(p) PROVE Routes'
  <2>1. /\ pipes[p].pc = "flush"
        /\ DOMAIN pipes' = DOMAIN pipes
        /\ \A q \in DOMAIN pipes : q # p => pipes'[q] = pipes[q]
        /\ pipes'[p].dialer = pipes[p].dialer
        /\ pipes'[p].pc \in {"done", "flush"}
    BY <1>5, FlushEffect
  <2>2. UNCHANGED <<routes, published>>
    BY <1>5 DEF Flush
  <2>. QED
    BY <1>d, <2>1, <2>2
<1>6. ASSUME NEW r \in Router, NEW dial \in DOMAIN dials[r], Connect(r, dial)
      PROVE  Routes'
  <2>1. PICK n \in Nat \ DOMAIN pipes :
           /\ DOMAIN pipes' = DOMAIN pipes \cup {n}
           /\ \A q \in DOMAIN pipes : pipes'[q] = pipes[q]
    BY <1>6, ConnectEffect
  <2>2. UNCHANGED <<routes, published>>
    BY <1>6 DEF Connect
  <2>. QED
    BY <1>d, <2>1, <2>2
<1>7. ASSUME NEW r \in Router, NEW p \in DOMAIN pipes, RegisterRouteBack(r, p)
      PROVE  Routes'
  <2>1. /\ pipes[p].wire[r] # <<>> /\ Head(pipes[p].wire[r]) = Announcement
        /\ DOMAIN pipes' = DOMAIN pipes
        /\ \A q \in DOMAIN pipes : Refreshed(r, pipes'[q], pipes[q])
    BY <1>7, RegisterRouteBackEffect
  <2>2. pipes[p].dialer # r
    <3>1. pipes[p].wire[r] \in Seq(Written)
      BY <1>a
    <3>2. 1 \in DOMAIN pipes[p].wire[r] /\ pipes[p].wire[r][1] = Announcement
      BY <2>1, <3>1, Tailed
    <3>. QED
      BY <3>2, RouterPeer DEF DialersAnnounce
  <2>3. routes[r] \in Seq(DOMAIN pipes) /\ NoneTwice(routes[r])
    BY <1>a DEF Routes, RoutesOf
  <2>a. PICK t : t = <<p>> \o RemoveFirst(routes[r], p)
    OBVIOUS
  <2>4. /\ t \in Seq(DOMAIN pipes) /\ NoneTwice(t) /\ t # <<>>
        /\ \A i \in DOMAIN t : t[i] = p \/ \E j \in DOMAIN routes[r] : t[i] = routes[r][j]
    BY <2>3, <2>a, MovedToFront
  <2>5. routes' = [routes EXCEPT ![r] = t] /\ published' = [published EXCEPT ![r] = TRUE]
    BY <1>7, <2>a DEF RegisterRouteBack
  <2>6. routes'[r] = t
    BY <1>a, <2>5
  <2>. SUFFICES ASSUME NEW k \in Router
                PROVE  RoutesOf(k)'
    BY DEF Routes
  <2>7. CASE k # r
    <3>1. routes'[k] = routes[k] /\ published'[k] = published[k]
      BY <1>a, <2>5, <2>7
    <3>2. \A q \in DOMAIN pipes :
             /\ pipes'[q].dialer = pipes[q].dialer /\ pipes'[q].pc = pipes[q].pc
             /\ pipes[q].dialer = k => pipes'[q].fresh = pipes[q].fresh
      BY <2>1, <2>7 DEF Refreshed
    <3>. QED
      BY <1>c, <2>1, <3>1, <3>2
  <2>8. CASE k = r
    <3>1. ASSUME NEW i \in DOMAIN t, pipes'[t[i]].dialer = r
          PROVE  pipes'[t[i]].pc \notin {"create", "add"}
      <4>1. t[i] \in DOMAIN pipes
        BY <2>4
      <4>2. pipes[t[i]].dialer = r /\ pipes'[t[i]].pc = pipes[t[i]].pc
        BY <2>1, <3>1, <4>1 DEF Refreshed
      <4>3. t[i] # p
        BY <2>2, <4>2
      <4>4. PICK j \in DOMAIN routes[r] : t[i] = routes[r][j]
        BY <2>4, <4>3
      <4>. QED
        BY <4>2, <4>4 DEF Routes, RoutesOf
    <3>. QED
      BY <2>4, <2>6, <2>8, <3>1 DEF RoutesOf
  <2>. QED
    BY <2>7, <2>8
<1>8. ASSUME NEW p \in DOMAIN pipes, Create(p) PROVE Routes'
  <2>a. PICK r \in Router : r = pipes[p].dialer
    BY <1>a
  <2>1. /\ DOMAIN pipes' = DOMAIN pipes /\ pipes[p].pc = "create"
        /\ \A q \in DOMAIN pipes : q # p => Refreshed(r, pipes'[q], pipes[q])
        /\ pipes'[p] = [pipes[p] EXCEPT !.pc = "add"]
    BY <1>8, <2>a, CreateEffect
  <2>2. pipes'[p].pc = "add" /\ pipes'[p].dialer = r /\ pipes'[p].fresh
    BY <1>a, <2>a, <2>1 DEF Pipe, Callbacks
  <2>3. routes' = [routes EXCEPT ![r] = <<>>] /\ published' = [published EXCEPT ![r] = TRUE]
    BY <1>8, <2>a DEF Create
  <2>. SUFFICES ASSUME NEW k \in Router
                PROVE  RoutesOf(k)'
    BY DEF Routes
  <2>4. CASE k # r
    <3>1. routes'[k] = routes[k] /\ published'[k] = published[k]
      BY <1>a, <2>3, <2>4
    <3>2. \A q \in DOMAIN pipes :
             /\ pipes'[q].dialer = pipes[q].dialer
             /\ pipes[q].dialer = k => pipes'[q].fresh = pipes[q].fresh /\ pipes'[q].pc = pipes[q].pc
      BY <2>a, <2>1, <2>2, <2>4 DEF Refreshed
    <3>. QED
      BY <1>c, <2>1, <3>1, <3>2
  <2>5. CASE k = r
    <3>1. routes'[r] = <<>>
      BY <1>a, <2>3
    <3>2. p \in DOMAIN pipes'
      BY <2>1
    <3>3. NoneTwice(routes'[r]) /\ DOMAIN routes'[r] = {}
      BY <3>1 DEF NoneTwice
    <3>. QED
      BY <2>2, <2>5, <3>2, <3>3 DEF RoutesOf
  <2>. QED
    BY <2>4, <2>5
<1>9. ASSUME NEW p \in DOMAIN pipes, Add(p) PROVE Routes'
  <2>a. PICK r \in Router : r = pipes[p].dialer
    BY <1>a
  <2>1. /\ DOMAIN pipes' = DOMAIN pipes /\ pipes[p].pc = "add"
        /\ \A q \in DOMAIN pipes : q # p => pipes'[q] = pipes[q]
        /\ pipes'[p] = [pipes[p] EXCEPT !.pc = "announce"]
    BY <1>9, AddEffect
  <2>2. pipes'[p].pc = "announce" /\ pipes'[p].dialer = r
    BY <1>a, <2>a, <2>1 DEF Pipe
  <2>3. UNCHANGED published
        /\ routes' = IF pipes[p].fresh THEN [routes EXCEPT ![r] = Append(@, p)] ELSE routes
    BY <1>9, <2>a DEF Add
  <2>4. \A q \in DOMAIN pipes : pipes'[q].dialer = pipes[q].dialer /\ (q # p => pipes'[q] = pipes[q])
    BY <2>a, <2>1, <2>2
  <2>. SUFFICES ASSUME NEW k \in Router
                PROVE  RoutesOf(k)'
    BY DEF Routes
  <2>5. CASE k # r
    <3>1. routes'[k] = routes[k] /\ published'[k] = published[k]
      BY <1>a, <2>3, <2>5
    <3>2. \A q \in DOMAIN pipes : pipes[q].dialer = k => q # p
      BY <2>a, <2>5
    <3>. QED
      BY <1>c, <2>1, <2>4, <3>1, <3>2
  <2>6. CASE k = r /\ ~pipes[p].fresh
    <3>1. routes'[k] = routes[k] /\ published'[k] = published[k]
      BY <2>3, <2>6
    <3>2. \A q \in DOMAIN pipes :
             /\ pipes[q].pc \notin {"create", "add"} => pipes'[q].pc \notin {"create", "add"}
             /\ pipes[q].pc = "add" /\ pipes[q].fresh => pipes'[q].pc = "add" /\ pipes'[q].fresh
      BY <2>1, <2>4, <2>6
    <3>. QED
      BY <1>c, <2>1, <2>4, <3>1, <3>2
  <2>7. CASE k = r /\ pipes[p].fresh
    <3>1. routes[r] \in Seq(DOMAIN pipes) /\ NoneTwice(routes[r])
      BY <1>a DEF Routes, RoutesOf
    <3>2. \A i \in DOMAIN routes[r] : routes[r][i] # p
      BY <2>a, <2>1 DEF Routes, RoutesOf
    <3>a. PICK t : t = Append(routes[r], p)
      OBVIOUS
    <3>3. /\ t \in Seq(DOMAIN pipes) /\ NoneTwice(t) /\ t # <<>>
          /\ \A i \in DOMAIN t : t[i] = p \/ \E j \in DOMAIN routes[r] : t[i] = routes[r][j]
      BY <3>1, <3>2, <3>a, AddedLast
    <3>4. routes'[r] = t
      BY <1>a, <2>3, <2>7, <3>a
    <3>5. ASSUME NEW i \in DOMAIN t, pipes'[t[i]].dialer = r
          PROVE  pipes'[t[i]].pc \notin {"create", "add"}
      <4>1. CASE t[i] = p
        BY <2>2, <4>1
      <4>2. CASE t[i] # p
        <5>1. PICK j \in DOMAIN routes[r] : t[i] = routes[r][j]
          BY <3>3, <4>2
        <5>2. t[i] \in DOMAIN pipes
          BY <3>3
        <5>3. pipes'[t[i]] = pipes[t[i]]
          BY <2>4, <4>2, <5>2
        <5>. QED
          BY <3>5, <5>1, <5>3 DEF Routes, RoutesOf
      <4>. QED
        BY <4>1, <4>2
    <3>. QED
      BY <2>7, <3>3, <3>4, <3>5 DEF RoutesOf
  <2>. QED
    BY <2>5, <2>6, <2>7
<1>10. ASSUME NEW r \in Router, Crash(r) PROVE Routes'
  <2>1. /\ DOMAIN pipes' = DOMAIN pipes
        /\ \A q \in DOMAIN pipes :
             /\ pipes'[q].dialer = pipes[q].dialer /\ pipes'[q].fresh = pipes[q].fresh
             /\ pipes[q].dialer # r => pipes'[q].pc = pipes[q].pc
    BY <1>10, CrashEffect
  <2>2. routes' = [routes EXCEPT ![r] = <<>>] /\ published' = [published EXCEPT ![r] = FALSE]
    BY <1>10 DEF Crash
  <2>. SUFFICES ASSUME NEW k \in Router
                PROVE  RoutesOf(k)'
    BY DEF Routes
  <2>3. CASE k # r
    <3>1. routes'[k] = routes[k] /\ published'[k] = published[k]
      BY <1>a, <2>2, <2>3
    <3>. QED
      BY <1>c, <2>1, <2>3, <3>1
  <2>4. CASE k = r
    <3>1. routes'[r] = <<>> /\ ~published'[r]
      BY <1>a, <2>2
    <3>. QED
      BY <2>4, <3>1 DEF RoutesOf, NoneTwice
  <2>. QED
    BY <2>3, <2>4
<1>. QED
  BY <1>1, <1>2, <1>3, <1>4, <1>5, <1>6, <1>7, <1>8, <1>9, <1>10
     DEF Next, EventLoop, SockRecv, OnConnect

\* A step preserves PipesAreOpen.
LEMMA PipesAreOpenInv ==
    ASSUME TypeOK, Callbacks, PipesAreOpen, Next
    PROVE  PipesAreOpen'
<1>. USE DEF routeVars, outcomeVars
<1>a. ASSUME crashes' = crashes, \A p \in DOMAIN pipes' :
                pipes'[p].open \/ (p \in DOMAIN pipes /\ pipes'[p].open = pipes[p].open)
      PROVE  PipesAreOpen'
  BY <1>a DEF PipesAreOpen
<1>1. ASSUME NEW r \in Router,
             \/ Send(r) \/ RouteFails(r) \/ BounceFails(r) \/ RouteLater(r) \/ Fetch(r)
             \/ Queue(r) \/ Restart(r)
      PROVE  PipesAreOpen'
  <2>1. UNCHANGED <<pipes, crashes>>
    BY <1>1 DEF Send, RouteFails, BounceFails, RouteLater, Fetch, Queue, Restart
  <2>. QED
    BY <1>a, <2>1
<1>2. ASSUME NEW r \in Router, RouteByPipe(r) PROVE PipesAreOpen'
  BY <1>a, <1>2, RouteByPipeEffect DEF RouteByPipe, Unwired
<1>3. ASSUME NEW r \in Router, NEW p \in DOMAIN pipes, Arrive(r, p) PROVE PipesAreOpen'
  <2>1. crashes' = crashes
    BY <1>3 DEF Arrive
  <2>. QED
    BY <1>a, <1>3, <2>1, ArriveEffect DEF Unwired
<1>4. ASSUME NEW r \in Router, NEW p \in DOMAIN pipes, RegisterRouteBack(r, p)
      PROVE  PipesAreOpen'
  <2>1. crashes' = crashes
    BY <1>4 DEF RegisterRouteBack
  <2>. QED
    BY <1>a, <1>4, <2>1, RegisterRouteBackEffect DEF Refreshed
<1>5. ASSUME NEW r \in Router, Crash(r) PROVE PipesAreOpen'
  <2>1. crashes' = crashes + 1 /\ crashes \in 0..MaxCrashes /\ MaxCrashes \in Nat
    BY <1>5, BoundsAssumption DEF Crash, TypeOK
  <2>2. crashes' # 0
    BY <2>1
  <2>. QED
    BY <2>2 DEF PipesAreOpen
<1>6. ASSUME NEW r \in Router, NEW dial \in DOMAIN dials[r], Connect(r, dial)
      PROVE  PipesAreOpen'
  <2>1. crashes' = crashes
    BY <1>6 DEF Connect
  <2>2. PICK n \in Nat \ DOMAIN pipes :
           /\ DOMAIN pipes' = DOMAIN pipes \cup {n} /\ pipes'[n].open
           /\ \A q \in DOMAIN pipes : pipes'[q] = pipes[q]
    BY <1>6, ConnectEffect
  <2>. QED
    BY <1>a, <2>1, <2>2
<1>7. ASSUME NEW p \in DOMAIN pipes, Create(p) PROVE PipesAreOpen'
  <2>1. crashes' = crashes
    BY <1>7 DEF Create
  <2>2. [pipes[p] EXCEPT !.pc = "add"].open = pipes[p].open
    BY PipeFields DEF Pipe
  <2>. QED
    BY <1>a, <1>7, <2>1, <2>2, CreateEffect DEF Refreshed
<1>8. ASSUME NEW p \in DOMAIN pipes, Add(p) PROVE PipesAreOpen'
  <2>1. crashes' = crashes
    BY <1>8 DEF Add
  <2>2. [pipes[p] EXCEPT !.pc = "announce"].open = pipes[p].open
    BY PipeFields DEF Pipe
  <2>. QED
    BY <1>a, <1>8, <2>1, <2>2, AddEffect
<1>9. ASSUME NEW p \in DOMAIN pipes, Announce(p) PROVE PipesAreOpen'
  <2>1. crashes' = crashes
    BY <1>9 DEF Announce
  <2>. QED
    BY <1>a, <1>9, <2>1, AnnounceEffect
<1>10. ASSUME NEW p \in DOMAIN pipes, Flush(p) PROVE PipesAreOpen'
  <2>1. crashes' = crashes
    BY <1>10 DEF Flush
  <2>. QED
    BY <1>a, <1>10, <2>1, FlushEffect
<1>. QED
  BY <1>1, <1>2, <1>3, <1>4, <1>5, <1>6, <1>7, <1>8, <1>9, <1>10
     DEF Next, EventLoop, SockRecv, OnConnect


(***************************************************************************)
(* A letter is at one place at most                                        *)
(***************************************************************************)

LEMMA Places ==
    ASSUME NEW m
    PROVE  /\ \A r \in Router : /\ AtHand(r) \in Place /\ (IsAt(m, AtHand(r)) <=> InHand(m, r))
                                /\ (IsAt(m, AtHand(r))' <=> InHand(m, r)')
           /\ \A r \in Router, i, j \in Nat :
                /\ AtBox(r, i, j) \in Place /\ (IsAt(m, AtBox(r, i, j)) <=> InBox(m, r, i, j))
                /\ (IsAt(m, AtBox(r, i, j))' <=> InBox(m, r, i, j)')
           /\ \A r \in Router, p, i \in Nat :
                /\ AtWire(r, p, i) \in Place /\ (IsAt(m, AtWire(r, p, i)) <=> OnWire(m, r, p, i))
                /\ (IsAt(m, AtWire(r, p, i))' <=> OnWire(m, r, p, i)')
           /\ AtAgent \in Place /\ (IsAt(m, AtAgent) <=> arrived[m] > 0)
           /\ (IsAt(m, AtAgent)' <=> arrived'[m] > 0)
<1>1. ASSUME NEW r \in Router
      PROVE  /\ AtHand(r) \in Place /\ (IsAt(m, AtHand(r)) <=> InHand(m, r))
             /\ (IsAt(m, AtHand(r))' <=> InHand(m, r)')
  BY DEF IsAt, AtHand, Place
<1>2. ASSUME NEW r \in Router, NEW i \in Nat, NEW j \in Nat
      PROVE  /\ AtBox(r, i, j) \in Place /\ (IsAt(m, AtBox(r, i, j)) <=> InBox(m, r, i, j))
             /\ (IsAt(m, AtBox(r, i, j))' <=> InBox(m, r, i, j)')
  BY DEF IsAt, AtBox, Place
<1>3. ASSUME NEW r \in Router, NEW p \in Nat, NEW i \in Nat
      PROVE  /\ AtWire(r, p, i) \in Place /\ (IsAt(m, AtWire(r, p, i)) <=> OnWire(m, r, p, i))
             /\ (IsAt(m, AtWire(r, p, i))' <=> OnWire(m, r, p, i)')
  BY DEF IsAt, AtWire, Place
<1>4. /\ AtAgent \in Place /\ (IsAt(m, AtAgent) <=> arrived[m] > 0)
      /\ (IsAt(m, AtAgent)' <=> arrived'[m] > 0)
  BY DEF IsAt, AtAgent, Place
<1>. QED
  BY <1>1, <1>2, <1>3, <1>4

LEMMA PlaceKinds ==
    ASSUME NEW x \in Place
    PROVE  \/ \E r \in Router : x = AtHand(r)
           \/ \E r \in Router, i, j \in Nat : x = AtBox(r, i, j)
           \/ \E r \in Router, p, i \in Nat : x = AtWire(r, p, i)
           \/ x = AtAgent
  BY DEF Place

LEMMA PlacesDiffer ==
    /\ \A r, q : AtHand(r) = AtHand(q) => r = q
    /\ \A r, i, j, q, k, l : AtBox(r, i, j) = AtBox(q, k, l) => r = q /\ i = k /\ j = l
    /\ \A r, p, i, q, k, l : AtWire(r, p, i) = AtWire(q, k, l) => r = q /\ p = k /\ i = l
    /\ \A r, q, k, l : AtHand(r) # AtBox(q, k, l) /\ AtHand(r) # AtWire(q, k, l)
    /\ \A r, i, j, q, k, l : AtBox(r, i, j) # AtWire(q, k, l)
    /\ \A r, i, j : AtAgent # AtHand(r) /\ AtAgent # AtBox(r, i, j) /\ AtAgent # AtWire(r, i, j)
<1>1. \A r, q : AtHand(r) = AtHand(q) => r = q
  BY DEF AtHand
<1>2. \A r, i, j, q, k, l : AtBox(r, i, j) = AtBox(q, k, l) => r = q /\ i = k /\ j = l
  BY DEF AtBox
<1>3. \A r, p, i, q, k, l : AtWire(r, p, i) = AtWire(q, k, l) => r = q /\ p = k /\ i = l
  BY DEF AtWire
<1>4. /\ \A r : AtHand(r).at = "hand"
      /\ \A r, i, j : AtBox(r, i, j).at = "box"
      /\ \A r, i, j : AtWire(r, i, j).at = "wire"
      /\ AtAgent.at = "agent"
  BY DEF AtHand, AtBox, AtWire, AtAgent
<1>5. "hand" # "box" /\ "hand" # "wire" /\ "box" # "wire" /\ "agent" # "hand"
      /\ "agent" # "box" /\ "agent" # "wire"
  OBVIOUS
<1>6. /\ \A r, q, k, l : AtHand(r) # AtBox(q, k, l) /\ AtHand(r) # AtWire(q, k, l)
      /\ \A r, i, j, q, k, l : AtBox(r, i, j) # AtWire(q, k, l)
      /\ \A r, i, j : AtAgent # AtHand(r) /\ AtAgent # AtBox(r, i, j) /\ AtAgent # AtWire(r, i, j)
  BY <1>4, <1>5
<1>. QED
  BY <1>1, <1>2, <1>3, <1>6

\* A letter that comes to no new place.
LEMMA Kept ==
    ASSUME OnePlace, NEW m \in Letter,
           \A x \in Place : IsAt(m, x)' => IsAt(m, x),
           m.n > sent'[m.from] => m.n > sent[m.from],
           arrived'[m] = arrived[m]
    PROVE  OnePlaceOf(m)'
<1>1. OnePlaceOf(m)
  BY DEF OnePlace
<1>. QED
  BY <1>1 DEF OnePlaceOf

\* A letter that leaves the place where it is for another.
LEMMA Moved ==
    ASSUME OnePlace, NEW m \in Letter, NEW old \in Place, NEW new \in Place,
           IsAt(m, old),
           \A x \in Place : IsAt(m, x)' => x = new \/ (x # old /\ IsAt(m, x)),
           sent' = sent, arrived'[m] <= 1
    PROVE  OnePlaceOf(m)'
<1>1. OnePlaceOf(m)
  BY DEF OnePlace
<1>2. \A x \in Place : IsAt(m, x)' => x = new
  BY <1>1 DEF OnePlaceOf
<1>3. ~(m.n > sent'[m.from])
  BY <1>1 DEF OnePlaceOf
<1>. QED
  BY <1>2, <1>3 DEF OnePlaceOf

\* A letter while the first message of a pipe is taken.
LEMMA Shifted ==
    ASSUME OnePlace, NEW m \in Letter, NEW r \in Router, NEW p \in Nat,
           \A i \in Nat : IsAt(m, AtWire(r, p, i))' => IsAt(m, AtWire(r, p, i + 1)),
           \A x \in Place : IsAt(m, x)' => IsAt(m, x) \/ \E i \in Nat : x = AtWire(r, p, i),
           sent' = sent, arrived'[m] = arrived[m]
    PROVE  OnePlaceOf(m)'
<1>1. OnePlaceOf(m)
  BY DEF OnePlace
<1>2. \A i \in Nat : AtWire(r, p, i + 1) \in Place
  BY DEF Place
<1>3. \A x \in Place : IsAt(m, x)' => \E y \in Place : IsAt(m, y)
  BY <1>2
<1>4. ASSUME NEW x \in Place, NEW y \in Place, IsAt(m, x)', IsAt(m, y)'
      PROVE  x = y
  <2>1. CASE \E i \in Nat : x = AtWire(r, p, i)
    <3>1. PICK i \in Nat : x = AtWire(r, p, i)
      BY <2>1
    <3>2. IsAt(m, AtWire(r, p, i + 1)) /\ AtWire(r, p, i + 1) \in Place
      BY <1>2, <1>4, <3>1
    <3>3. CASE \E j \in Nat : y = AtWire(r, p, j)
      <4>1. PICK j \in Nat : y = AtWire(r, p, j)
        BY <3>3
      <4>2. IsAt(m, AtWire(r, p, j + 1)) /\ AtWire(r, p, j + 1) \in Place
        BY <1>2, <1>4, <4>1
      <4>3. AtWire(r, p, i + 1) = AtWire(r, p, j + 1)
        BY <1>1, <3>2, <4>2 DEF OnePlaceOf
      <4>4. i + 1 = j + 1
        BY <4>3, PlacesDiffer
      <4>. QED
        BY <3>1, <4>1, <4>4
    <3>4. CASE ~\E j \in Nat : y = AtWire(r, p, j)
      <4>1. IsAt(m, y)
        BY <1>4, <3>4
      <4>2. y = AtWire(r, p, i + 1)
        BY <1>1, <3>2, <4>1 DEF OnePlaceOf
      <4>. QED
        BY <3>4, <4>2
    <3>. QED
      BY <3>3, <3>4
  <2>2. CASE ~\E i \in Nat : x = AtWire(r, p, i)
    <3>1. IsAt(m, x)
      BY <1>4, <2>2
    <3>2. CASE \E j \in Nat : y = AtWire(r, p, j)
      <4>1. PICK j \in Nat : y = AtWire(r, p, j)
        BY <3>2
      <4>2. IsAt(m, AtWire(r, p, j + 1)) /\ AtWire(r, p, j + 1) \in Place
        BY <1>2, <1>4, <4>1
      <4>3. x = AtWire(r, p, j + 1)
        BY <1>1, <3>1, <4>2 DEF OnePlaceOf
      <4>. QED
        BY <2>2, <4>3
    <3>3. CASE ~\E j \in Nat : y = AtWire(r, p, j)
      <4>1. IsAt(m, y)
        BY <1>4, <3>3
      <4>. QED
        BY <1>1, <3>1, <4>1 DEF OnePlaceOf
    <3>. QED
      BY <3>2, <3>3
  <2>. QED
    BY <2>1, <2>2
<1>. QED
  BY <1>1, <1>3, <1>4 DEF OnePlaceOf

\* What is queued and not yet flushed was so before: no callback has gone back.
LEMMA BoxKept ==
    ASSUME TypeOK, NEW m, NEW r \in Router, NEW i \in Nat, NEW j \in Nat, InBox(m, r, i, j)',
           i \in DOMAIN dials[r], j \in DOMAIN dials[r][i], dials[r][i][j] = m,
           \A p \in DOMAIN pipes : pipes[p].dialer = r =>
                /\ p \in DOMAIN pipes' /\ pipes'[p].dialer = pipes[p].dialer
                /\ \/ pipes[p].box = 0
                   \/ pipes'[p].box = pipes[p].box
                      /\ \/ pipes'[p].next = pipes[p].next
                         \/ pipes'[p].next = pipes[p].next + 1
    PROVE  InBox(m, r, i, j)
<1>1. i # 0
  BY DialFields
<1>2. ASSUME NEW p \in DOMAIN pipes, pipes[p].dialer = r, pipes[p].box = i
      PROVE  pipes[p].next <= j
  <2>1. p \in DOMAIN pipes' /\ pipes'[p].dialer = r /\ pipes'[p].box = i
    BY <1>1, <1>2
  <2>2. pipes'[p].next <= j
    BY <2>1 DEF InBox
  <2>3. pipes[p].next \in Nat
    BY PipeFields
  <2>4. pipes'[p].next = pipes[p].next \/ pipes'[p].next = pipes[p].next + 1
    BY <1>1, <1>2
  <2>. QED
    BY <2>2, <2>3, <2>4
<1>. QED
  BY <1>2 DEF InBox

\* What is on a pipe was so before, or has been written to it.
LEMMA WireWritten ==
    ASSUME TypeOK, NEW p \in DOMAIN pipes, NEW r \in Router, NEW mm \in Written,
           DOMAIN pipes' = DOMAIN pipes,
           \A q \in DOMAIN pipes : q # p => pipes'[q] = pipes[q],
           pipes'[p].wire[r] = pipes[p].wire[r],
           pipes'[p].wire[Peer(r)] \in
                {pipes[p].wire[Peer(r)], Append(pipes[p].wire[Peer(r)], mm)},
           NEW m, NEW k \in Router, NEW q, NEW i, OnWire(m, k, q, i)'
    PROVE  \/ OnWire(m, k, q, i)
           \/ m = mm /\ k = Peer(r) /\ q = p /\ i = Len(pipes[p].wire[Peer(r)]) + 1
<1>1. q \in DOMAIN pipes /\ i \in DOMAIN pipes'[q].wire[k] /\ pipes'[q].wire[k][i] = m
  BY DEF OnWire
<1>2. CASE pipes'[q].wire[k] = pipes[q].wire[k]
  BY <1>1, <1>2 DEF OnWire
<1>3. CASE q = p /\ k = Peer(r) /\ pipes'[p].wire[k] = Append(pipes[p].wire[k], mm)
  <2>1. pipes[p].wire[k] \in Seq(Written)
    BY PipeFields
  <2>2. /\ DOMAIN Append(pipes[p].wire[k], mm) = DOMAIN pipes[p].wire[k] \cup {Len(pipes[p].wire[k]) + 1}
        /\ \A j \in DOMAIN pipes[p].wire[k] : Append(pipes[p].wire[k], mm)[j] = pipes[p].wire[k][j]
        /\ Append(pipes[p].wire[k], mm)[Len(pipes[p].wire[k]) + 1] = mm
    BY <2>1, Appended
  <2>3. CASE i = Len(pipes[p].wire[k]) + 1
    BY <1>1, <1>3, <2>2, <2>3
  <2>4. CASE i \in DOMAIN pipes[p].wire[k]
    BY <1>1, <1>3, <2>2, <2>4 DEF OnWire
  <2>. QED
    BY <1>1, <1>3, <2>2, <2>3, <2>4
<1>4. k = r \/ k = Peer(r)
  BY DEF Router, Peer
<1>. QED
  BY <1>1, <1>2, <1>3, <1>4

\* A place as one of its kind.
LEMMA ByKind ==
    ASSUME NEW m, NEW P \in SUBSET Place,
           \A k \in Router : InHand(m, k)' => AtHand(k) \in P,
           \A k \in Router, i, j \in Nat : InBox(m, k, i, j)' => AtBox(k, i, j) \in P,
           \A k \in Router, p, i \in Nat : OnWire(m, k, p, i)' => AtWire(k, p, i) \in P,
           arrived'[m] > 0 => AtAgent \in P
    PROVE  \A x \in Place : IsAt(m, x)' => x \in P
<1>1. SUFFICES ASSUME NEW x \in Place, IsAt(m, x)'
               PROVE  x \in P
  OBVIOUS
<1>2. CASE \E r \in Router : x = AtHand(r)
  BY <1>1, <1>2, Places
<1>3. CASE \E r \in Router, i, j \in Nat : x = AtBox(r, i, j)
  <2>1. PICK r \in Router, i \in Nat, j \in Nat : x = AtBox(r, i, j)
    BY <1>3
  <2>2. IsAt(m, AtBox(r, i, j))'
    BY <1>1, <2>1
  <2>3. InBox(m, r, i, j)'
    BY <2>2, Places
  <2>. QED
    BY <2>1, <2>3
<1>4. CASE \E r \in Router, p, i \in Nat : x = AtWire(r, p, i)
  <2>1. PICK r \in Router, p \in Nat, i \in Nat : x = AtWire(r, p, i)
    BY <1>4
  <2>2. IsAt(m, AtWire(r, p, i))'
    BY <1>1, <2>1
  <2>3. OnWire(m, r, p, i)'
    BY <2>2, Places
  <2>. QED
    BY <2>1, <2>3
<1>5. CASE x = AtAgent
  BY <1>1, <1>5, Places
<1>. QED
  BY <1>2, <1>3, <1>4, <1>5, PlaceKinds

\* The same for a letter that comes to no new place.
LEMMA KeptByKind ==
    ASSUME OnePlace, NEW m \in Letter,
           \A k \in Router : InHand(m, k)' => InHand(m, k),
           \A k \in Router, i, j \in Nat : InBox(m, k, i, j)' => InBox(m, k, i, j),
           \A k \in Router, p, i \in Nat : OnWire(m, k, p, i)' => OnWire(m, k, p, i),
           arrived'[m] = arrived[m],
           m.n > sent'[m.from] => m.n > sent[m.from]
    PROVE  OnePlaceOf(m)'
<1>1. PICK P \in SUBSET Place : P = {x \in Place : IsAt(m, x)}
  OBVIOUS
<1>2. /\ \A k \in Router : InHand(m, k) => AtHand(k) \in P
      /\ \A k \in Router, i, j \in Nat : InBox(m, k, i, j) => AtBox(k, i, j) \in P
      /\ \A k \in Router, p, i \in Nat : OnWire(m, k, p, i) => AtWire(k, p, i) \in P
      /\ arrived[m] > 0 => AtAgent \in P
  BY <1>1, Places
<1>3. \A x \in Place : IsAt(m, x)' => x \in P
  BY <1>2, ByKind
<1>4. \A x \in Place : IsAt(m, x)' => IsAt(m, x)
  BY <1>1, <1>3
<1>. QED
  BY <1>4, Kept

\* And for one that moves.
LEMMA MovedByKind ==
    ASSUME OnePlace, NEW m \in Letter, NEW old \in Place, NEW new \in Place, IsAt(m, old),
           \A k \in Router : InHand(m, k)' =>
                AtHand(k) = new \/ (AtHand(k) # old /\ InHand(m, k)),
           \A k \in Router, i, j \in Nat : InBox(m, k, i, j)' =>
                AtBox(k, i, j) = new \/ (AtBox(k, i, j) # old /\ InBox(m, k, i, j)),
           \A k \in Router, p, i \in Nat : OnWire(m, k, p, i)' =>
                AtWire(k, p, i) = new \/ (AtWire(k, p, i) # old /\ OnWire(m, k, p, i)),
           arrived'[m] = arrived[m], sent' = sent, AtAgent # old
    PROVE  OnePlaceOf(m)'
<1>1. PICK P \in SUBSET Place : P = {x \in Place : x = new \/ (x # old /\ IsAt(m, x))}
  OBVIOUS
<1>2. /\ \A k \in Router : InHand(m, k)' => AtHand(k) \in P
      /\ \A k \in Router, i, j \in Nat : InBox(m, k, i, j)' => AtBox(k, i, j) \in P
      /\ \A k \in Router, p, i \in Nat : OnWire(m, k, p, i)' => AtWire(k, p, i) \in P
      /\ arrived'[m] > 0 => AtAgent \in P
  BY <1>1, Places
<1>3. \A x \in Place : IsAt(m, x)' => x \in P
  BY <1>2, ByKind
<1>4. \A x \in Place : IsAt(m, x)' => x = new \/ (x # old /\ IsAt(m, x))
  BY <1>1, <1>3
<1>5. arrived'[m] <= 1
  BY DEF OnePlace, OnePlaceOf
<1>. QED
  BY <1>4, <1>5, Moved


\* What stays where it is.
LEMMA Untouched ==
    /\ \A m, k : hand'[k] = hand[k] => (InHand(m, k)' => InHand(m, k))
    /\ \A m, k : hand'[k] = Idle => ~InHand(m, k)'
    /\ \A m, k, p, i :
        (DOMAIN pipes' = DOMAIN pipes /\ \A q \in DOMAIN pipes : pipes'[q].wire = pipes[q].wire)
        => (OnWire(m, k, p, i)' => OnWire(m, k, p, i))
    /\ \A m, k, i, j : (pipes' = pipes /\ dials'[k] = dials[k])
        => (InBox(m, k, i, j)' => InBox(m, k, i, j))
<1>1. \A m, k : hand'[k] = hand[k] => (InHand(m, k)' => InHand(m, k))
  BY DEF InHand
<1>2. \A m, k : hand'[k] = Idle => ~InHand(m, k)'
  BY DEF InHand
<1>3. \A m, k, p, i :
        (DOMAIN pipes' = DOMAIN pipes /\ \A q \in DOMAIN pipes : pipes'[q].wire = pipes[q].wire)
        => (OnWire(m, k, p, i)' => OnWire(m, k, p, i))
  BY DEF OnWire
<1>4. \A m, k, i, j : (pipes' = pipes /\ dials'[k] = dials[k])
        => (InBox(m, k, i, j)' => InBox(m, k, i, j))
  BY DEF InBox
<1>. QED
  BY <1>1, <1>2, <1>3, <1>4

\* The accumulators stay, and the callbacks of a router do not go back.
LEMMA BoxesKept ==
    ASSUME TypeOK, NEW k \in Router, dials'[k] = dials[k],
           \A p \in DOMAIN pipes : pipes[p].dialer = k =>
                /\ p \in DOMAIN pipes' /\ pipes'[p].dialer = pipes[p].dialer
                /\ \/ pipes[p].box = 0
                   \/ pipes'[p].box = pipes[p].box
                      /\ \/ pipes'[p].next = pipes[p].next
                         \/ pipes'[p].next = pipes[p].next + 1
    PROVE  \A m, i, j : i \in Nat /\ j \in Nat /\ InBox(m, k, i, j)' => InBox(m, k, i, j)
<1>1. SUFFICES ASSUME NEW m, NEW i \in Nat, NEW j \in Nat, InBox(m, k, i, j)'
               PROVE  InBox(m, k, i, j)
  OBVIOUS
<1>2. i \in DOMAIN dials[k] /\ j \in DOMAIN dials[k][i] /\ dials[k][i][j] = m
  BY <1>1 DEF InBox
<1>. QED
  BY <1>1, <1>2, BoxKept

LEMMA Handlers ==
    ASSUME TypeOK, OnePlace, NEW m \in Letter, NEW r \in Router,
           \/ RouteFails(r) \/ BounceFails(r) \/ RouteLater(r) \/ Restart(r)
    PROVE  OnePlaceOf(m)'
<1>. USE DEF routeVars, outcomeVars
<1>1. UNCHANGED <<pipes, dials, arrived, sent>>
  BY DEF RouteFails, BounceFails, RouteLater, Restart
<1>2. \A k \in Router : InHand(m, k)' => InHand(m, k)
  <2>1. CASE RouteFails(r) \/ BounceFails(r)
    <3>1. hand' = [hand EXCEPT ![r] = Idle]
      BY <2>1 DEF RouteFails, BounceFails, Handled
    <3>2. \A k \in Router : hand'[k] = Idle \/ hand'[k] = hand[k]
      BY <3>1 DEF TypeOK
    <3>. QED
      BY <3>2, Untouched
  <2>2. CASE Restart(r)
    BY <2>2, Untouched DEF Restart
  <2>3. CASE RouteLater(r)
    <3>1. hand' = [hand EXCEPT ![r].at = "fetch"] /\ hand[r].at = "look"
      BY <2>3 DEF RouteLater
    <3>2. hand[r] # Idle /\ hand[r] = [at |-> "look", message |-> hand[r].message]
      BY <3>1, HandFields DEF Idle
    <3>3. [hand[r] EXCEPT !.at = "fetch"].message = hand[r].message
      BY <3>2
    <3>4. /\ hand'[r].message = hand[r].message
          /\ \A k \in Router : k # r => hand'[k] = hand[k]
      BY <3>1, <3>3 DEF TypeOK
    <3>5. InHand(m, r)' => InHand(m, r)
      BY <3>2, <3>4 DEF InHand
    <3>. QED
      BY <3>4, <3>5, Untouched
  <2>. QED
    BY <2>1, <2>2, <2>3
<1>. QED
  BY <1>1, <1>2, Untouched, KeptByKind

LEMMA SendPlace ==
    ASSUME TypeOK, OnePlace, NEW m \in Letter, NEW r \in Router, Send(r)
    PROVE  OnePlaceOf(m)'
<1>. USE DEF routeVars, outcomeVars
<1>1. UNCHANGED <<pipes, dials, arrived>>
  BY DEF Send
<1>2. sent' = [sent EXCEPT ![r] = sent[r] + 1] /\ sent \in [Router -> Nat]
  BY DEF Send, TypeOK
<1>a. PICK mm : mm = [from |-> r, n |-> sent[r] + 1]
  OBVIOUS
<1>3. hand' = [hand EXCEPT ![r] = [at |-> "look", message |-> mm]]
  BY <1>a DEF Send, Take
<1>4. /\ hand'[r].message = mm
      /\ \A k \in Router : k # r => hand'[k] = hand[k]
  BY <1>3 DEF TypeOK
<1>5. m.from \in Router /\ m.n \in Int /\ m = [from |-> m.from, n |-> m.n]
  BY BoundsAssumption DEF Letter
<1>6. CASE m # mm
  <2>1. InHand(m, r)' => InHand(m, r)
    BY <1>4, <1>6 DEF InHand
  <2>2. \A k \in Router : InHand(m, k)' => InHand(m, k)
    BY <1>4, <2>1, Untouched
  <2>3. m.n > sent'[m.from] => m.n > sent[m.from]
    BY <1>2, <1>5
  <2>. QED
    BY <1>1, <2>2, <2>3, Untouched, KeptByKind
<1>7. CASE m = mm
  <2>1. m.from = r /\ m.n = sent[r] + 1
    BY <1>a, <1>7
  <2>2. m.n > sent[m.from] /\ ~(m.n > sent'[m.from])
    BY <1>2, <2>1
  <2>3. \A x \in Place : ~IsAt(m, x)
    BY <2>2 DEF OnePlace, OnePlaceOf
  <2>4. PICK P \in SUBSET Place : P = {AtHand(r)}
    <3>1. AtHand(r) \in Place
      BY Places
    <3>2. {AtHand(r)} \in SUBSET Place
      BY <3>1
    <3>. QED
      BY <3>2
  <2>5. /\ \A k \in Router : k # r => ~InHand(m, k)'
        /\ \A k \in Router, i, j \in Nat : ~InBox(m, k, i, j)'
        /\ \A k \in Router, p, i \in Nat : ~OnWire(m, k, p, i)'
        /\ ~(arrived'[m] > 0)
    BY <1>1, <1>4, <2>3, Places, Untouched
  <2>6. \A x \in Place : IsAt(m, x)' => x \in P
    BY <2>4, <2>5, ByKind
  <2>7. arrived'[m] <= 1
    BY <1>1 DEF OnePlace, OnePlaceOf
  <2>. QED
    BY <2>2, <2>4, <2>6, <2>7 DEF OnePlaceOf
<1>. QED
  BY <1>6, <1>7

LEMMA RouteByPipePlace ==
    ASSUME TypeOK, OnePlace, NEW m \in Letter, NEW r \in Router, RouteByPipe(r)
    PROVE  OnePlaceOf(m)'
<1>. USE DEF routeVars, outcomeVars
<1>a. PICK p : p = routes[r][1]
  OBVIOUS
<1>b. PICK mm : mm = hand[r].message
  OBVIOUS
<1>1. UNCHANGED <<dials, arrived, sent>> /\ hand' = [hand EXCEPT ![r] = Idle]
  BY DEF RouteByPipe, Handled
<1>2. /\ mm \in Letter /\ p \in DOMAIN pipes
      /\ DOMAIN pipes' = DOMAIN pipes
      /\ \A q \in DOMAIN pipes : q # p => pipes'[q] = pipes[q]
      /\ Unwired(pipes'[p], pipes[p])
      /\ pipes'[p].wire[r] = pipes[p].wire[r]
      /\ pipes'[p].wire[Peer(r)] \in
           {pipes[p].wire[Peer(r)], Append(pipes[p].wire[Peer(r)], mm)}
  BY <1>a, <1>b, RouteByPipeEffect
<1>3. hand'[r] = Idle /\ \A k \in Router : k # r => hand'[k] = hand[k]
  BY <1>1 DEF TypeOK
<1>4. \A k \in Router : InHand(m, k)' => InHand(m, k) /\ k # r
  BY <1>3, Untouched
<1>5. \A q \in DOMAIN pipes : Unwired(pipes'[q], pipes[q])
  BY <1>2 DEF Unwired
<1>6. \A k \in Router, i, j \in Nat : InBox(m, k, i, j)' => InBox(m, k, i, j)
  <2>1. \A q \in DOMAIN pipes : /\ q \in DOMAIN pipes' /\ pipes'[q].dialer = pipes[q].dialer
                                /\ pipes'[q].box = pipes[q].box /\ pipes'[q].next = pipes[q].next
    BY <1>2, <1>5 DEF Unwired
  <2>. QED
    BY <1>1, <2>1, BoxesKept
<1>c. PICK n : n = Len(pipes[p].wire[Peer(r)]) + 1
  OBVIOUS
<1>7. \A k \in Router, q, i \in Nat : OnWire(m, k, q, i)' =>
        OnWire(m, k, q, i) \/ (m = mm /\ k = Peer(r) /\ q = p /\ i = n)
  <2>1. mm \in Written
    BY <1>2 DEF Written
  <2>. QED
    BY <1>2, <1>c, <2>1, WireWritten
<1>8. CASE m # mm
  BY <1>1, <1>4, <1>6, <1>7, <1>8, KeptByKind
<1>9. CASE m = mm
  <2>1. p \in Nat /\ n \in Nat /\ Peer(r) \in Router
    <3>1. pipes[p].wire \in [Router -> Seq(Written)] /\ p \in Nat /\ Peer(r) \in Router
      BY <1>2, PipeFields, RouterPeer
    <3>2. pipes[p].wire[Peer(r)] \in Seq(Written)
      BY <3>1
    <3>. QED
      BY <1>c, <3>1, <3>2
  <2>a. PICK old : old = AtHand(r)
    OBVIOUS
  <2>b. PICK new : new = AtWire(Peer(r), p, n)
    OBVIOUS
  <2>2. old \in Place /\ new \in Place
    BY <2>a, <2>b, <2>1 DEF Place
  <2>3. InHand(m, r)
    <3>1. hand[r].at = "look"
      BY DEF RouteByPipe
    <3>. QED
      BY <1>b, <1>9, <3>1 DEF InHand, Idle
  <2>4. IsAt(m, old)
    BY <2>3, <2>a, Places
  <2>5. \A k \in Router : InHand(m, k)' => AtHand(k) # old /\ InHand(m, k)
    BY <1>4, <2>a, PlacesDiffer
  <2>6. /\ \A k \in Router, i, j \in Nat : AtBox(k, i, j) # old
        /\ \A k \in Router, q, i \in Nat : AtWire(k, q, i) # old
        /\ AtAgent # old
    BY <2>a, PlacesDiffer
  <2>7. \A k \in Router, q, i \in Nat : OnWire(m, k, q, i)' =>
            AtWire(k, q, i) = new \/ OnWire(m, k, q, i)
    BY <1>7, <2>b
  <2>. QED
    BY <1>1, <1>6, <2>2, <2>4, <2>5, <2>6, <2>7, MovedByKind
<1>. QED
  BY <1>8, <1>9

LEMMA FetchPlace ==
    ASSUME TypeOK, OnePlace, NEW m \in Letter, NEW r \in Router, Fetch(r)
    PROVE  OnePlaceOf(m)'
<1>. USE DEF routeVars, outcomeVars
<1>1. UNCHANGED <<pipes, arrived, sent>> /\ hand[r].at = "fetch"
  BY DEF Fetch
<1>2. hand[r] # Idle
  BY <1>1 DEF Idle
<1>3. \A k \in Router : InHand(m, k)' => InHand(m, k)
  <2>1. PICK n : hand' = [hand EXCEPT ![r] = [at |-> "queue", message |-> hand[r].message,
                                              dial |-> n]]
    BY FetchEffect
  <2>2. /\ hand'[r].message = hand[r].message
        /\ \A k \in Router : k # r => hand'[k] = hand[k]
    BY <2>1 DEF TypeOK
  <2>3. InHand(m, r)' => InHand(m, r)
    BY <1>2, <2>2 DEF InHand
  <2>. QED
    BY <2>2, <2>3, Untouched
<1>4. \A k \in Router, i, j \in Nat : InBox(m, k, i, j)' => InBox(m, k, i, j)
  <2>1. SUFFICES ASSUME NEW k \in Router, NEW i \in Nat, NEW j \in Nat, InBox(m, k, i, j)'
                 PROVE  InBox(m, k, i, j)
    OBVIOUS
  <2>2. CASE dials'[k] = dials[k]
    BY <1>1, <2>1, <2>2, Untouched
  <2>3. CASE dials'[k] # dials[k]
    <3>1. PICK n \in Nat \ DOMAIN dials[r] :
            /\ k = r /\ DOMAIN dials'[r] = DOMAIN dials[r] \cup {n}
            /\ \A l \in DOMAIN dials[r] : dials'[r][l] = dials[r][l]
            /\ dials'[r][n] = <<>>
      BY <2>3, FetchEffect
    <3>2. i \in DOMAIN dials'[r] /\ j \in DOMAIN dials'[r][i] /\ dials'[r][i][j] = m
      BY <2>1, <3>1 DEF InBox
    <3>3. i # n
      BY <3>1, <3>2
    <3>4. i \in DOMAIN dials[r] /\ j \in DOMAIN dials[r][i] /\ dials[r][i][j] = m
      BY <3>1, <3>2, <3>3
    <3>. QED
      BY <1>1, <2>1, <3>1, <3>4, BoxKept
  <2>. QED
    BY <2>2, <2>3
<1>. QED
  BY <1>1, <1>3, <1>4, Untouched, KeptByKind

LEMMA QueuePlace ==
    ASSUME TypeOK, OnePlace, NEW m \in Letter, NEW r \in Router, Queue(r)
    PROVE  OnePlaceOf(m)'
<1>. USE DEF routeVars, outcomeVars
<1>a. PICK d : d = hand[r].dial
  OBVIOUS
<1>b. PICK mm : mm = hand[r].message
  OBVIOUS
<1>1. UNCHANGED <<pipes, arrived, sent>> /\ hand' = [hand EXCEPT ![r] = Idle]
  BY DEF Queue, Handled
<1>2. hand'[r] = Idle /\ \A k \in Router : k # r => hand'[k] = hand[k]
  BY <1>1 DEF TypeOK
<1>3. \A k \in Router : InHand(m, k)' => InHand(m, k) /\ k # r
  BY <1>2, Untouched
<1>4. /\ \A q \in Router : q # r => dials'[q] = dials[q]
      /\ hand[r] # Idle /\ d \in DOMAIN dials[r]
      /\ DOMAIN dials'[r] = DOMAIN dials[r]
      /\ \A i \in DOMAIN dials[r] : i # d => dials'[r][i] = dials[r][i]
      /\ dials'[r][d] = Append(dials[r][d], mm)
  BY <1>a, <1>b, QueueEffect
<1>c. PICK n : n = Len(dials[r][d]) + 1
  OBVIOUS
<1>5. /\ mm \in Routed /\ dials[r][d] \in Seq(Routed) /\ d \in Nat
  <2>1. dials[r] \in Seq(Seq(Routed)) /\ hand[r].message \in Routed
    BY <1>4, DialFields, HandFields
  <2>. QED
    BY <1>b, <1>4, <2>1
<1>6. /\ DOMAIN dials'[r][d] = DOMAIN dials[r][d] \cup {n}
      /\ \A j \in DOMAIN dials[r][d] : dials'[r][d][j] = dials[r][d][j]
      /\ dials'[r][d][n] = mm
  BY <1>4, <1>5, <1>c, Appended
<1>7. \A k \in Router, i, j \in Nat : InBox(m, k, i, j)' =>
        InBox(m, k, i, j) \/ (m = mm /\ k = r /\ i = d /\ j = n)
  <2>1. SUFFICES ASSUME NEW k \in Router, NEW i \in Nat, NEW j \in Nat, InBox(m, k, i, j)',
                        ~(m = mm /\ k = r /\ i = d /\ j = n)
                 PROVE  InBox(m, k, i, j)
    OBVIOUS
  <2>2. i \in DOMAIN dials'[k] /\ j \in DOMAIN dials'[k][i] /\ dials'[k][i][j] = m
    BY <2>1 DEF InBox
  <2>3. i \in DOMAIN dials[k] /\ j \in DOMAIN dials[k][i] /\ dials[k][i][j] = m
    <3>1. CASE k # r
      BY <1>4, <2>2, <3>1
    <3>2. CASE k = r /\ i # d
      BY <1>4, <2>2, <3>2
    <3>3. CASE k = r /\ i = d
      <4>1. j # n
        BY <1>6, <2>1, <2>2, <3>3
      <4>. QED
        BY <1>4, <1>6, <2>2, <3>3, <4>1
    <3>. QED
      BY <3>1, <3>2, <3>3
  <2>. QED
    BY <1>1, <2>1, <2>3, BoxKept
<1>8. CASE m # mm
  BY <1>1, <1>3, <1>7, <1>8, Untouched, KeptByKind
<1>9. CASE m = mm
  <2>1. n \in Nat
    BY <1>5, <1>c
  <2>a. PICK old : old = AtHand(r)
    OBVIOUS
  <2>b. PICK new : new = AtBox(r, d, n)
    OBVIOUS
  <2>2. old \in Place /\ new \in Place
    BY <2>a, <2>b, <2>1, <1>5 DEF Place
  <2>3. InHand(m, r)
    BY <1>b, <1>4, <1>9 DEF InHand
  <2>4. IsAt(m, old)
    BY <2>3, <2>a, Places
  <2>5. \A k \in Router : InHand(m, k)' => AtHand(k) # old /\ InHand(m, k)
    BY <1>3, <2>a, PlacesDiffer
  <2>6. /\ \A k \in Router, i, j \in Nat : AtBox(k, i, j) # old
        /\ \A k \in Router, q, i \in Nat : AtWire(k, q, i) # old
        /\ AtAgent # old
    BY <2>a, PlacesDiffer
  <2>7. \A k \in Router, i, j \in Nat : InBox(m, k, i, j)' =>
            AtBox(k, i, j) = new \/ InBox(m, k, i, j)
    BY <1>7, <2>b
  <2>8. \A k \in Router, q, i \in Nat : OnWire(m, k, q, i)' => OnWire(m, k, q, i)
    BY <1>1, Untouched
  <2>. QED
    BY <1>1, <2>2, <2>4, <2>5, <2>6, <2>7, <2>8, MovedByKind
<1>. QED
  BY <1>8, <1>9

LEMMA CrashPlace ==
    ASSUME TypeOK, OnePlace, NEW m \in Letter, NEW r \in Router, Crash(r)
    PROVE  OnePlaceOf(m)'
<1>1. /\ hand' = [hand EXCEPT ![r] = Idle] /\ dials' = [dials EXCEPT ![r] = <<>>]
      /\ UNCHANGED <<sent, arrived>>
  BY DEF Crash
<1>2. /\ DOMAIN pipes' = DOMAIN pipes
      /\ \A p \in DOMAIN pipes :
            /\ pipes'[p].wire = [q \in Router |-> <<>>]
            /\ pipes'[p].dialer = pipes[p].dialer
            /\ pipes[p].dialer # r =>
                pipes'[p].box = pipes[p].box /\ pipes'[p].next = pipes[p].next
  BY CrashEffect
<1>3. \A k \in Router : hand'[k] = Idle \/ hand'[k] = hand[k]
  BY <1>1 DEF TypeOK
<1>4. \A k \in Router : InHand(m, k)' => InHand(m, k)
  BY <1>3, Untouched
<1>5. \A k \in Router, i, j \in Nat : InBox(m, k, i, j)' => InBox(m, k, i, j)
  <2>1. dials'[r] = <<>> /\ \A k \in Router : k # r => dials'[k] = dials[k]
    BY <1>1 DEF TypeOK
  <2>2. \A i, j : ~InBox(m, r, i, j)'
    BY <2>1 DEF InBox
  <2>3. ASSUME NEW k \in Router, k # r
        PROVE  \A i, j : i \in Nat /\ j \in Nat /\ InBox(m, k, i, j)' => InBox(m, k, i, j)
    BY <1>2, <2>1, <2>3, BoxesKept
  <2>. QED
    BY <2>2, <2>3
<1>6. \A k \in Router, p, i \in Nat : OnWire(m, k, p, i)' => OnWire(m, k, p, i)
  BY <1>2 DEF OnWire
<1>. QED
  BY <1>1, <1>4, <1>5, <1>6, KeptByKind

LEMMA ConnectPlace ==
    ASSUME TypeOK, OnePlace, NEW m \in Letter, NEW r \in Router, NEW dial \in DOMAIN dials[r],
           Connect(r, dial)
    PROVE  OnePlaceOf(m)'
<1>. USE DEF routeVars, outcomeVars
<1>1. UNCHANGED <<hand, dials, arrived, sent>>
  BY DEF Connect
<1>2. PICK n \in Nat \ DOMAIN pipes :
        /\ DOMAIN pipes' = DOMAIN pipes \cup {n}
        /\ \A q \in DOMAIN pipes : pipes'[q] = pipes[q]
        /\ pipes'[n].wire = [q \in Router |-> <<>>]
  BY ConnectEffect
<1>3. \A k \in Router, i, j \in Nat : InBox(m, k, i, j)' => InBox(m, k, i, j)
  BY <1>1, <1>2, BoxesKept
<1>4. \A k \in Router, p, i \in Nat : OnWire(m, k, p, i)' => OnWire(m, k, p, i)
  BY <1>2 DEF OnWire
<1>. QED
  BY <1>1, <1>3, <1>4, Untouched, KeptByKind

LEMMA OnConnectPlace ==
    ASSUME TypeOK, Callbacks, OnePlace, NEW m \in Letter, NEW p \in DOMAIN pipes,
           Create(p) \/ Add(p) \/ Announce(p)
    PROVE  OnePlaceOf(m)'
<1>. USE DEF routeVars, outcomeVars
<1>1. UNCHANGED <<hand, dials, arrived, sent>>
  BY DEF Create, Add, Announce
<1>2. CASE Create(p) \/ Add(p)
  <2>1. /\ DOMAIN pipes' = DOMAIN pipes
        /\ \A q \in DOMAIN pipes :
            /\ pipes'[q].wire = pipes[q].wire /\ pipes'[q].dialer = pipes[q].dialer
            /\ pipes'[q].box = pipes[q].box /\ pipes'[q].next = pipes[q].next
    <3>1. ASSUME NEW c \in {"add", "announce"}
          PROVE  /\ [pipes[p] EXCEPT !.pc = c].wire = pipes[p].wire
                 /\ [pipes[p] EXCEPT !.pc = c].dialer = pipes[p].dialer
                 /\ [pipes[p] EXCEPT !.pc = c].box = pipes[p].box
                 /\ [pipes[p] EXCEPT !.pc = c].next = pipes[p].next
      BY PipeFields DEF Pipe
    <3>2. CASE Create(p)
      <4>1. /\ DOMAIN pipes' = DOMAIN pipes
            /\ \A q \in DOMAIN pipes : q # p => Refreshed(pipes[p].dialer, pipes'[q], pipes[q])
            /\ \A q \in DOMAIN pipes : pipes'[q].wire = pipes[q].wire
            /\ pipes'[p] = [pipes[p] EXCEPT !.pc = "add"]
        BY <3>2, CreateEffect
      <4>. QED
        BY <3>1, <4>1 DEF Refreshed
    <3>3. CASE Add(p)
      <4>1. /\ DOMAIN pipes' = DOMAIN pipes
            /\ \A q \in DOMAIN pipes : q # p => pipes'[q] = pipes[q]
            /\ pipes'[p] = [pipes[p] EXCEPT !.pc = "announce"]
        BY <3>3, AddEffect
      <4>. QED
        BY <3>1, <4>1
    <3>. QED
      BY <1>2, <3>2, <3>3
  <2>2. \A k \in Router, i, j \in Nat : InBox(m, k, i, j)' => InBox(m, k, i, j)
    BY <1>1, <2>1, BoxesKept
  <2>. QED
    BY <1>1, <2>1, <2>2, Untouched, KeptByKind
<1>3. CASE Announce(p)
  <2>a. PICK r \in Router : r = pipes[p].dialer
    BY PipeFields
  <2>1. /\ pipes[p].pc = "announce"
        /\ DOMAIN pipes' = DOMAIN pipes
        /\ \A q \in DOMAIN pipes : q # p => pipes'[q] = pipes[q]
        /\ pipes'[p].dialer = pipes[p].dialer /\ pipes'[p].next = pipes[p].next
        /\ pipes'[p].wire[r] = pipes[p].wire[r]
        /\ pipes'[p].wire[Peer(r)] \in
             {pipes[p].wire[Peer(r)], Append(pipes[p].wire[Peer(r)], Announcement)}
    BY <1>3, <2>a, AnnounceEffect
  <2>2. pipes[p].box = 0
    BY <2>1 DEF Callbacks
  <2>3. \A q \in DOMAIN pipes :
            /\ q \in DOMAIN pipes' /\ pipes'[q].dialer = pipes[q].dialer
            /\ pipes[q].box = 0 \/ (pipes'[q].box = pipes[q].box /\ pipes'[q].next = pipes[q].next)
    BY <2>1, <2>2
  <2>4. \A k \in Router, i, j \in Nat : InBox(m, k, i, j)' => InBox(m, k, i, j)
    BY <1>1, <2>3, BoxesKept
  <2>5. Announcement \in Written /\ m # Announcement
    <3>1. m.from \in Router
      BY DEF Letter
    <3>2. Announcement.from \notin Router
      BY DEF Announcement, Router
    <3>. QED
      BY <3>1, <3>2 DEF Written
  <2>6. \A k \in Router, q, i \in Nat : OnWire(m, k, q, i)' => OnWire(m, k, q, i)
    BY <2>1, <2>5, WireWritten
  <2>. QED
    BY <1>1, <2>4, <2>6, Untouched, KeptByKind
<1>. QED
  BY <1>2, <1>3

LEMMA FlushPlace ==
    ASSUME TypeOK, Callbacks, OnePlace, NEW m \in Letter, NEW p \in DOMAIN pipes, Flush(p)
    PROVE  OnePlaceOf(m)'
<1>. USE DEF routeVars, outcomeVars
<1>a. PICK r \in Router : r = pipes[p].dialer
  BY PipeFields
<1>b. PICK box : box = dials[r][pipes[p].box]
  OBVIOUS
<1>c. PICK next : next = pipes[p].next
  OBVIOUS
<1>d. PICK b : b = pipes[p].box
  OBVIOUS
<1>1. UNCHANGED <<hand, dials, arrived, sent>>
  BY DEF Flush
<1>2. /\ pipes[p].pc = "flush" /\ b \in DOMAIN dials[r]
      /\ box \in Seq(Routed)
      /\ DOMAIN pipes' = DOMAIN pipes
      /\ \A q \in DOMAIN pipes : q # p => pipes'[q] = pipes[q]
      /\ pipes'[p].dialer = r
      /\ pipes'[p].box = b
      /\ pipes'[p].wire[r] = pipes[p].wire[r]
      /\ \/ pipes'[p].next = next
            /\ pipes'[p].wire[Peer(r)] = pipes[p].wire[Peer(r)]
         \/ /\ next \in DOMAIN box /\ box[next] \in Letter
            /\ pipes'[p].next = next + 1
            /\ pipes'[p].wire[Peer(r)] \in
                 {pipes[p].wire[Peer(r)], Append(pipes[p].wire[Peer(r)], box[next])}
  BY <1>a, <1>b, <1>c, <1>d, FlushEffect
<1>3. \A q \in DOMAIN pipes :
        /\ q \in DOMAIN pipes' /\ pipes'[q].dialer = pipes[q].dialer
        /\ pipes'[q].box = pipes[q].box
        /\ pipes'[q].next = pipes[q].next \/ pipes'[q].next = pipes[q].next + 1
  BY <1>a, <1>c, <1>d, <1>2
<1>4. \A k \in Router, i, j \in Nat : InBox(m, k, i, j)' => InBox(m, k, i, j)
  BY <1>1, <1>3, BoxesKept
<1>5. CASE pipes'[p].wire[Peer(r)] = pipes[p].wire[Peer(r)]
  <2>1. \A q \in DOMAIN pipes : \A k \in Router : pipes'[q].wire[k] = pipes[q].wire[k]
    BY <1>2, <1>5 DEF Router, Peer
  <2>2. \A k \in Router, q, i \in Nat : OnWire(m, k, q, i)' => OnWire(m, k, q, i)
    BY <1>2, <2>1 DEF OnWire
  <2>. QED
    BY <1>1, <1>4, <2>2, Untouched, KeptByKind
<1>6. CASE /\ next \in DOMAIN box /\ box[next] \in Letter
           /\ pipes'[p].next = next + 1
           /\ pipes'[p].wire[Peer(r)] = Append(pipes[p].wire[Peer(r)], box[next])
  <2>a. PICK mm : mm = box[next]
    OBVIOUS
  <2>b. PICK n : n = Len(pipes[p].wire[Peer(r)]) + 1
    OBVIOUS
  <2>1. mm \in Written
    BY <1>6, <2>a DEF Written
  <2>2. \A k \in Router, q, i \in Nat : OnWire(m, k, q, i)' =>
            OnWire(m, k, q, i) \/ (m = mm /\ k = Peer(r) /\ q = p /\ i = n)
    <3>1. pipes'[p].wire[Peer(r)] \in
                {pipes[p].wire[Peer(r)], Append(pipes[p].wire[Peer(r)], mm)}
      BY <1>6, <2>a
    <3>. QED
      BY <1>2, <2>b, <2>1, <3>1, WireWritten
  <2>3. CASE m # mm
    BY <1>1, <1>4, <2>2, <2>3, Untouched, KeptByKind
  <2>4. CASE m = mm
    <3>1. p \in Nat /\ n \in Nat /\ Peer(r) \in Router /\ b \in Nat /\ next \in Nat
      <4>1. /\ pipes[p].wire \in [Router -> Seq(Written)] /\ p \in Nat /\ Peer(r) \in Router
            /\ b \in Nat /\ next \in Nat
        BY PipeFields, RouterPeer, <1>c, <1>d
      <4>2. pipes[p].wire[Peer(r)] \in Seq(Written)
        BY <4>1
      <4>. QED
        BY <2>b, <4>1, <4>2
    <3>a. PICK old : old = AtBox(r, b, next)
      OBVIOUS
    <3>b. PICK new : new = AtWire(Peer(r), p, n)
      OBVIOUS
    <3>2. old \in Place /\ new \in Place
      BY <3>1, <3>a, <3>b DEF Place
    <3>3. InBox(m, r, b, next)
      <4>1. b # 0
        BY <1>2, <1>d DEF Callbacks
      <4>2. \A q \in DOMAIN pipes : pipes[q].dialer = r /\ pipes[q].box = b => q = p
        BY <1>a, <1>d, <4>1 DEF Callbacks
      <4>3. \A q \in DOMAIN pipes : pipes[q].dialer = r /\ pipes[q].box = b
                                    => pipes[q].next <= next
        BY <1>c, <3>1, <4>2
      <4>4. dials[r][b] = box
        BY <1>b, <1>d
      <4>5. next \in DOMAIN dials[r][b] /\ dials[r][b][next] = m
        BY <1>6, <2>a, <2>4, <4>4
      <4>. QED
        BY <1>2, <4>3, <4>5 DEF InBox
    <3>4. ~InBox(m, r, b, next)'
      <4>1. SUFFICES ASSUME InBox(m, r, b, next)' PROVE FALSE
        OBVIOUS
      <4>2. pipes'[p].next <= next
        BY <1>2, <4>1 DEF InBox
      <4>. QED
        BY <1>6, <3>1, <4>2
    <3>5. IsAt(m, old)
      BY <3>1, <3>3, <3>a, Places
    <3>6. \A k \in Router, i, j \in Nat : InBox(m, k, i, j)' =>
            AtBox(k, i, j) # old /\ InBox(m, k, i, j)
      BY <1>4, <3>4, <3>a, PlacesDiffer
    <3>7. /\ \A k \in Router : AtHand(k) # old
          /\ \A k \in Router, q, i \in Nat : AtWire(k, q, i) # old
          /\ AtAgent # old
      BY <3>a, PlacesDiffer
    <3>8. \A k \in Router, q, i \in Nat : OnWire(m, k, q, i)' =>
            AtWire(k, q, i) = new \/ OnWire(m, k, q, i)
      BY <2>2, <3>b
    <3>9. \A k \in Router : InHand(m, k)' => InHand(m, k)
      BY <1>1, Untouched
    <3>. QED
      BY <1>1, <3>2, <3>5, <3>6, <3>7, <3>8, <3>9, MovedByKind
  <2>. QED
    BY <2>3, <2>4
<1>. QED
  BY <1>2, <1>5, <1>6

\* The first message of a pipe is taken.
LEMMA WireTailed ==
    ASSUME TypeOK, NEW p \in DOMAIN pipes, NEW r \in Router, pipes[p].wire[r] # <<>>,
           DOMAIN pipes' = DOMAIN pipes,
           \A q \in DOMAIN pipes : q # p => pipes'[q].wire = pipes[q].wire,
           pipes'[p].wire[r] = Tail(pipes[p].wire[r]),
           pipes'[p].wire[Peer(r)] = pipes[p].wire[Peer(r)],
           NEW m, NEW k \in Router, NEW q, NEW i, OnWire(m, k, q, i)'
    PROVE  IF q = p /\ k = r THEN i \in Nat \ {0} /\ OnWire(m, r, p, i + 1)
                             ELSE OnWire(m, k, q, i)
<1>1. q \in DOMAIN pipes /\ i \in DOMAIN pipes'[q].wire[k] /\ pipes'[q].wire[k][i] = m
  BY DEF OnWire
<1>2. CASE q = p /\ k = r
  <2>1. pipes[p].wire[r] \in Seq(Written)
    BY PipeFields
  <2>2. /\ i \in DOMAIN Tail(pipes[p].wire[r]) /\ i \in 1..Len(Tail(pipes[p].wire[r]))
        /\ Tail(pipes[p].wire[r]) \in Seq(Written)
    <3>1. i \in DOMAIN Tail(pipes[p].wire[r])
      BY <1>1, <1>2
    <3>2. Tail(pipes[p].wire[r]) \in Seq(Written)
      BY <2>1, Tailed
    <3>3. DOMAIN Tail(pipes[p].wire[r]) = 1..Len(Tail(pipes[p].wire[r]))
      BY <3>2
    <3>. QED
      BY <3>1, <3>2, <3>3
  <2>3. /\ i + 1 \in DOMAIN pipes[p].wire[r]
        /\ Tail(pipes[p].wire[r])[i] = pipes[p].wire[r][i + 1]
    BY <2>1, <2>2, Tailed
  <2>4. OnWire(m, r, p, i + 1)
    BY <1>1, <1>2, <2>3 DEF OnWire
  <2>. QED
    BY <1>2, <2>2, <2>4
<1>3. CASE ~(q = p /\ k = r)
  <2>1. k = r \/ k = Peer(r)
    BY DEF Router, Peer
  <2>. QED
    BY <1>1, <1>3, <2>1 DEF OnWire
<1>. QED
  BY <1>2, <1>3

LEMMA SockRecvPlace ==
    ASSUME TypeOK, OnePlace, NEW m \in Letter, NEW r \in Router, NEW p \in DOMAIN pipes,
           SockRecv(r, p)
    PROVE  OnePlaceOf(m)'
<1>. USE DEF routeVars, outcomeVars
<1>1. /\ pipes[p].wire[r] # <<>> /\ DOMAIN pipes' = DOMAIN pipes
      /\ \A q \in DOMAIN pipes :
            /\ q # p => pipes'[q].wire = pipes[q].wire
            /\ pipes'[q].dialer = pipes[q].dialer
            /\ pipes'[q].box = pipes[q].box /\ pipes'[q].next = pipes[q].next
      /\ pipes'[p].wire[r] = Tail(pipes[p].wire[r])
      /\ pipes'[p].wire[Peer(r)] = pipes[p].wire[Peer(r)]
      /\ Arrive(r, p) => Head(pipes[p].wire[r]) \in Letter
  <2>1. CASE Arrive(r, p)
    <3>1. /\ Head(pipes[p].wire[r]) \in Letter /\ pipes[p].wire[r] # <<>>
          /\ DOMAIN pipes' = DOMAIN pipes
          /\ \A q \in DOMAIN pipes : q # p => pipes'[q] = pipes[q]
          /\ Unwired(pipes'[p], pipes[p])
          /\ pipes'[p].wire[r] = Tail(pipes[p].wire[r])
          /\ pipes'[p].wire[Peer(r)] = pipes[p].wire[Peer(r)]
      BY <2>1, ArriveEffect
    <3>. QED
      BY <3>1 DEF Unwired
  <2>2. CASE RegisterRouteBack(r, p)
    <3>1. /\ pipes[p].wire[r] # <<>> /\ Head(pipes[p].wire[r]) = Announcement
          /\ DOMAIN pipes' = DOMAIN pipes
          /\ \A q \in DOMAIN pipes : Refreshed(r, pipes'[q], pipes[q])
          /\ \A q \in DOMAIN pipes : q # p => pipes'[q].wire = pipes[q].wire
          /\ pipes'[p].wire[r] = Tail(pipes[p].wire[r])
          /\ pipes'[p].wire[Peer(r)] = pipes[p].wire[Peer(r)]
      BY <2>2, RegisterRouteBackEffect
    <3>2. ~Arrive(r, p)
      BY <3>1 DEF Arrive
    <3>. QED
      BY <3>1, <3>2 DEF Refreshed
  <2>. QED
    BY <2>1, <2>2 DEF SockRecv
<1>2. UNCHANGED <<dials, sent>>
  BY DEF SockRecv, Arrive, RegisterRouteBack
<1>3. \A k \in Router : InHand(m, k)' => InHand(m, k)
  <2>1. CASE hand' = hand
    BY <2>1, Untouched
  <2>2. CASE hand' = [hand EXCEPT ![r] = [at |-> "look", message |-> Bounce]]
    <3>1. /\ hand'[r].message = Bounce
          /\ \A k \in Router : k # r => hand'[k] = hand[k]
      BY <2>2 DEF TypeOK
    <3>2. m # Bounce
      <4>1. m.from \in Router
        BY DEF Letter
      <4>2. Bounce.from \notin Router
        BY DEF Bounce, Router
      <4>. QED
        BY <4>1, <4>2
    <3>3. ~InHand(m, r)'
      BY <3>1, <3>2 DEF InHand
    <3>. QED
      BY <3>1, <3>3, Untouched
  <2>. QED
    BY <2>1, <2>2 DEF SockRecv, Arrive, RegisterRouteBack, Take
<1>4. \A k \in Router, i, j \in Nat : InBox(m, k, i, j)' => InBox(m, k, i, j)
  BY <1>1, <1>2, BoxesKept
<1>5. \A k \in Router : \A q, i : OnWire(m, k, q, i)' =>
        IF q = p /\ k = r THEN i \in Nat \ {0} /\ OnWire(m, r, p, i + 1) ELSE OnWire(m, k, q, i)
  BY <1>1, WireTailed
<1>6. p \in Nat
  BY PipeFields
<1>7. CASE arrived'[m] = arrived[m]
  <2>1. \A i \in Nat : IsAt(m, AtWire(r, p, i))' => IsAt(m, AtWire(r, p, i + 1))
    <3>1. SUFFICES ASSUME NEW i \in Nat, IsAt(m, AtWire(r, p, i))'
                   PROVE  IsAt(m, AtWire(r, p, i + 1))
      OBVIOUS
    <3>2. OnWire(m, r, p, i)'
      BY <1>6, <3>1, Places
    <3>3. OnWire(m, r, p, i + 1) /\ i + 1 \in Nat
      BY <1>5, <3>2
    <3>. QED
      BY <1>6, <3>3, Places
  <2>2. PICK P \in SUBSET Place :
            P = {x \in Place : IsAt(m, x) \/ \E i \in Nat : x = AtWire(r, p, i)}
    OBVIOUS
  <2>3. /\ \A k \in Router : InHand(m, k)' => AtHand(k) \in P
        /\ \A k \in Router, i, j \in Nat : InBox(m, k, i, j)' => AtBox(k, i, j) \in P
        /\ arrived'[m] > 0 => AtAgent \in P
    BY <1>3, <1>4, <1>7, <2>2, Places
  <2>4. \A k \in Router, q, i \in Nat : OnWire(m, k, q, i)' => AtWire(k, q, i) \in P
    BY <1>5, <2>2, Places
  <2>5. \A x \in Place : IsAt(m, x)' => x \in P
    BY <2>3, <2>4, ByKind
  <2>6. \A x \in Place : IsAt(m, x)' => IsAt(m, x) \/ \E i \in Nat : x = AtWire(r, p, i)
    BY <2>2, <2>5
  <2>. QED
    BY <1>2, <1>6, <1>7, <2>1, <2>6, Shifted
<1>8. CASE Arrive(r, p) /\ m = Head(pipes[p].wire[r])
  <2>1. arrived' = [arrived EXCEPT ![m] = @ + 1]
    BY <1>8 DEF Arrive
  <2>a. PICK old : old = AtWire(r, p, 1)
    OBVIOUS
  <2>2. /\ pipes[p].wire[r] \in Seq(Written)
    BY PipeFields
  <2>3. OnWire(m, r, p, 1)
    BY <1>1, <1>8, <2>2, Tailed DEF OnWire
  <2>4. old \in Place /\ IsAt(m, old)
    BY <1>6, <2>3, <2>a, Places
  <2>5. OnePlaceOf(m)
    BY DEF OnePlace
  <2>6. arrived[m] = 0 /\ arrived'[m] = 1
    <3>1. AtAgent # old
      BY <2>a, PlacesDiffer
    <3>2. ~IsAt(m, AtAgent) /\ arrived[m] \in Nat
      BY <2>4, <2>5, <3>1, Places DEF OnePlaceOf, TypeOK
    <3>3. ~(arrived[m] > 0)
      BY <3>2, Places
    <3>. QED
      BY <2>1, <3>2, <3>3 DEF TypeOK
  <2>7. \A x \in Place : IsAt(m, x) => x = old
    BY <2>4, <2>5 DEF OnePlaceOf
  <2>8. PICK P \in SUBSET Place : P = {AtAgent}
    <3>1. AtAgent \in Place
      BY Places
    <3>2. {AtAgent} \in SUBSET Place
      BY <3>1
    <3>. QED
      BY <3>2
  <2>9. \A k \in Router : ~InHand(m, k)'
    BY <1>3, <2>7, <2>a, Places, PlacesDiffer
  <2>10. \A k \in Router, i, j \in Nat : ~InBox(m, k, i, j)'
    BY <1>4, <2>7, <2>a, Places, PlacesDiffer
  <2>11. ASSUME NEW k \in Router, NEW q \in Nat, NEW i \in Nat, OnWire(m, k, q, i)'
         PROVE  FALSE
    <3>1. CASE q = p /\ k = r
      <4>1. i # 0 /\ i + 1 \in Nat /\ OnWire(m, r, p, i + 1)
        BY <1>5, <2>11, <3>1
      <4>2. AtWire(r, p, i + 1) = AtWire(r, p, 1)
        BY <1>6, <2>7, <2>a, <4>1, Places
      <4>3. i + 1 = 1
        BY <4>2, PlacesDiffer
      <4>. QED
        BY <4>1, <4>3
    <3>2. CASE ~(q = p /\ k = r)
      <4>1. OnWire(m, k, q, i)
        BY <1>5, <2>11, <3>2
      <4>2. AtWire(k, q, i) = AtWire(r, p, 1)
        BY <2>7, <2>a, <4>1, Places
      <4>. QED
        BY <3>2, <4>2, PlacesDiffer
    <3>. QED
      BY <3>1, <3>2
  <2>12. \A x \in Place : IsAt(m, x)' => x \in P
    BY <2>8, <2>9, <2>10, <2>11, ByKind
  <2>13. \A x \in Place : IsAt(m, x)' => x = AtAgent
    BY <2>8, <2>12
  <2>14. ~(m.n > sent'[m.from])
    BY <1>2, <2>4, <2>5 DEF OnePlaceOf
  <2>. QED
    BY <2>6, <2>13, <2>14 DEF OnePlaceOf
<1>9. Arrive(r, p) /\ m # Head(pipes[p].wire[r]) => arrived'[m] = arrived[m]
  <2>1. SUFFICES ASSUME Arrive(r, p), m # Head(pipes[p].wire[r])
                 PROVE  arrived'[m] = arrived[m]
    OBVIOUS
  <2>2. arrived' = [arrived EXCEPT ![Head(pipes[p].wire[r])] = @ + 1]
    BY <2>1 DEF Arrive
  <2>. QED
    BY <2>1, <2>2 DEF TypeOK
<1>10. RegisterRouteBack(r, p) => arrived' = arrived
  BY DEF RegisterRouteBack
<1>. QED
  BY <1>7, <1>8, <1>9, <1>10 DEF SockRecv

\* A step moves a letter from the one place where it is to another.
LEMMA OnePlaceInv ==
    ASSUME TypeOK, Callbacks, OnePlace, Next
    PROVE  OnePlace'
<1>1. SUFFICES ASSUME NEW m \in Letter PROVE OnePlaceOf(m)'
  BY DEF OnePlace
<1>. QED
  BY Handlers, SendPlace, RouteByPipePlace, FetchPlace, QueuePlace, CrashPlace, ConnectPlace,
     OnConnectPlace, FlushPlace, SockRecvPlace DEF Next, EventLoop, OnConnect

(***************************************************************************)
(* The theorems                                                            *)
(***************************************************************************)

LEMMA InitInv == Init => BundleInv
<1>. SUFFICES ASSUME Init PROVE BundleInv
  OBVIOUS
<1>1. TypeOK
  <2>1. Idle \in Hand /\ Idle.at = "idle"
    BY DEF Hand, Idle
  <2>. QED
    BY <2>1, BoundsAssumption DEF Init, TypeOK
<1>2. Callbacks /\ DialersAnnounce /\ Routes /\ PipesAreOpen
  BY DEF Init, Callbacks, DialersAnnounce, Routes, RoutesOf, NoneTwice, PipesAreOpen
<1>3. ASSUME NEW m \in Letter PROVE OnePlaceOf(m)
  <2>1. \A k \in Router : ~InHand(m, k)
    BY DEF Init, InHand
  <2>2. \A k \in Router : \A i, j : ~InBox(m, k, i, j)
    BY DEF Init, InBox
  <2>3. \A k, p, i : ~OnWire(m, k, p, i)
    BY DEF Init, OnWire
  <2>4. arrived[m] = 0
    BY DEF Init
  <2>5. \A x \in Place : ~IsAt(m, x)
    BY <2>1, <2>2, <2>3, <2>4, PlaceKinds, Places
  <2>. QED
    BY <2>4, <2>5 DEF OnePlaceOf
<1>. QED
  BY <1>1, <1>2, <1>3 DEF BundleInv, OnePlace

\* A step that changes nothing.
LEMMA StutterInv == BundleInv /\ UNCHANGED vars => BundleInv'
<1>. SUFFICES ASSUME BundleInv, UNCHANGED vars PROVE BundleInv'
  OBVIOUS
<1>1. /\ UNCHANGED <<life, sent, hand, published, routes, registered, dials, pipes>>
      /\ UNCHANGED <<arrived, refused, crashes>>
  BY DEF vars
<1>2. TypeOK'
  BY <1>1 DEF BundleInv, TypeOK
<1>3. Callbacks' /\ DialersAnnounce' /\ PipesAreOpen'
  BY <1>1 DEF BundleInv, Callbacks, DialersAnnounce, PipesAreOpen
<1>4. Routes'
  BY <1>1 DEF BundleInv, Routes, RoutesOf
<1>5. ASSUME NEW m \in Letter PROVE OnePlaceOf(m)'
  BY <1>1, Untouched, KeptByKind DEF BundleInv
<1>. QED
  BY <1>2, <1>3, <1>4, <1>5 DEF BundleInv, OnePlace

\* The inductive invariant of two routers and their sockets: the types, what a
\* callback holds, who announces itself, the pipes of an address, and the one
\* place where a letter is (_NngSocketBundle).
THEOREM BundleInvariant == Spec => []BundleInv
<1>1. BundleInv /\ Next => BundleInv'
  BY TypeOKInv, CallbacksInv, DialersAnnounceInv, RoutesInv, PipesAreOpenInv, OnePlaceInv
     DEF BundleInv
<1>2. BundleInv /\ [Next]_vars => BundleInv'
  BY <1>1, StutterInv
<1>. QED
  BY InitInv, <1>2, PTL DEF Spec

\* Every variable of the socket bundles has its type, for any number of letters
\* and crashes.
THEOREM BundleTypeOK == Spec => []TypeOK
<1>1. BundleInv => TypeOK
  BY DEF BundleInv
<1>. QED
  BY <1>1, BundleInvariant, PTL

\* A letter arrives at most once: _mRoute, queueMsg and the loop of _onConnect
\* over the accumulated messages never have it twice between them, whoever dials.
THEOREM LettersArriveAtMostOnce == Spec => []AtMostOnce
<1>1. BundleInv => AtMostOnce
  BY DEF BundleInv, OnePlace, OnePlaceOf, AtMostOnce
<1>. QED
  BY <1>1, BundleInvariant, PTL

\* An address published by _onConnect or SET_ROUTE_BACK has a pipe once the
\* callbacks have ended, none twice, and open ones while nobody has crashed.
THEOREM PublishedRoutesAreUsable == Spec => []RoutesAreUsable
<1>1. BundleInv => RoutesAreUsable
  <2>1. SUFFICES ASSUME BundleInv, NEW r \in Router, published[r],
                        \A p \in DOMAIN pipes : pipes[p].dialer = r => pipes[p].pc = "done"
                 PROVE  /\ routes[r] # <<>> /\ NoneTwice(routes[r])
                        /\ crashes = 0 => \A i \in DOMAIN routes[r] : pipes[routes[r][i]].open
    BY DEF RoutesAreUsable, NoneTwice
  <2>2. RoutesOf(r) /\ routes[r] \in Seq(DOMAIN pipes)
    BY <2>1 DEF BundleInv, Routes, TypeOK
  <2>3. routes[r] # <<>> /\ NoneTwice(routes[r])
    BY <2>1, <2>2 DEF RoutesOf
  <2>4. \A i \in DOMAIN routes[r] : routes[r][i] \in DOMAIN pipes
    BY <2>2
  <2>. QED
    BY <2>1, <2>3, <2>4 DEF BundleInv, PipesAreOpen
<1>. QED
  BY <1>1, BundleInvariant, PTL

=============================================================================
