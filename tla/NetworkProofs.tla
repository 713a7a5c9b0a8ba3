--------------------------- MODULE NetworkProofs ---------------------------
(***************************************************************************)
(* Proofs about two routers of two machines: types, reply addresses, and   *)
(* that letters and answers arrive at most once, for any number of letters *)
(* and connections.                                                        *)
(***************************************************************************)
EXTENDS NetworkProperties, SequenceFacts

(***************************************************************************)
(* The inductive invariant                                                 *)
(***************************************************************************)

\* How far the callbacks of a pipe are and what the routers know of it: whom one
\* has dialled listens; only the dialer names its end and announces itself, and
\* knows the pipe only after that callback has learned it.
StagesOf(p) ==
    LET d == pipes[p].dialer
    IN  /\ Listening(Peer(d)) \in nEps[Peer(d)]
        /\ pipes[p].pc[Peer(d)] \notin {"name", "announce"}
        /\ p \in known[d] => pipes[p].pc[d] \notin {"add", "learn"}
        /\ pipes[p].pc[d] \in {"announce", "done", "gone"} => Local(d, p) \in nEps[d]
Stages == \A p \in DOMAIN pipes : StagesOf(p)

\* An announcement comes from the router that has dialled.
DialersAnnounce ==
    \A p \in DOMAIN pipes : \A r \in Router : \A i \in DOMAIN pipes[p].wire[r] :
        pipes[p].wire[r][i] = Announcement => pipes[p].dialer = Peer(r)

\* A pipe is at most once among the routes for an address.
Routes == \A r \in Router, a \in Addr : NoneTwice(routes[r][a])

\* a is an address of the sender of m, or about to be.
IsSenders(m, a) ==
    \/ a \in nEps[m.from]
    \/ \E p \in DOMAIN pipes : a = Local(m.from, p) /\ pipes[p].pc[m.from] = "name"
Good(w) == w.letter \in bare \/ IsSenders(w.letter, w.back)

\* The reply addresses of letters that are accumulated, on a pipe, or with an
\* agent: what has none is still with the router that sent it.
GoodBox(w, r) == w.kind = "letter" => IF w.back = NoAddr THEN w.letter.from = r ELSE Good(w)
GoodWire(w) == w # Announcement /\ w.kind = "letter" => Good(w)

InBox(w, r, a, i) == i \in DOMAIN waiting[r][a] /\ waiting[r][a][i] = w
OnWire(ps, w, r, p, i) == p \in DOMAIN ps /\ i \in DOMAIN ps[p].wire[r] /\ ps[p].wire[r][i] = w

GoodBoxes == \A r \in Router, a \in Addr, w \in Carried : \A i : InBox(w, r, a, i) => GoodBox(w, r)
GoodWires(ps) == \A r \in Router, w \in Written : \A p, i : OnWire(ps, w, r, p, i) => GoodWire(w)
GoodDues == \A r \in Router : \A w \in due[r] : Good(w)
Backs == GoodBoxes /\ GoodWires(pipes) /\ GoodDues

(***************************************************************************)
(* The places where a letter, or its answer, may be: in an accumulator, on *)
(* a pipe, or due to be answered by an agent.                              *)
(***************************************************************************)

AtBox(r, a, i) == [at |-> "box", r |-> r, a |-> a, i |-> i]
AtWire(r, p, i) == [at |-> "wire", r |-> r, p |-> p, i |-> i]
AtDue(r, w) == [at |-> "due", r |-> r, w |-> w]
Box == {AtBox(r, a, i) : r \in Router, a \in Addr, i \in Nat}
Wire == {AtWire(r, p, i) : r \in Router, p \in Nat, i \in Nat}
Due == {AtDue(r, w) : r \in Router, w \in Carried}
Spot == Box \cup Wire
Place == Spot \cup Due

\* With the pipes ps, w is at the place x.
IsIn(ps, w, x) ==
    CASE x.at = "box" -> InBox(w, x.r, x.a, x.i)
      [] x.at = "wire" -> OnWire(ps, w, x.r, x.p, x.i)
      [] OTHER -> w = x.w /\ w \in due[x.r]
IsAt(w, x) == IsIn(pipes, w, x)
Carries(m, x) == \E w \in Carried : w.letter = m /\ IsAt(w, x)

\* A letter is in one place, then its answer is, and each arrives when it leaves
\* the last one.
OnePlaceOf(m) ==
    /\ \A x, y \in Place : Carries(m, x) /\ Carries(m, y) => x = y
    /\ m.n > sent[m.from] =>
        (\A x \in Place : ~Carries(m, x)) /\ arrived[m] = 0 /\ answered[m] = 0
    /\ (\E x \in Place : Carries(m, x)) => answered[m] = 0
    /\ \A x \in Spot, w \in Carried :
        w.letter = m /\ w.kind = "letter" /\ IsAt(w, x) => arrived[m] = 0
    /\ arrived[m] <= 1 /\ answered[m] <= 1
OnePlace == \A m \in Letter : OnePlaceOf(m)

NetworkInv == TypeOK /\ Stages /\ DialersAnnounce /\ Routes /\ Backs /\ OnePlace

(***************************************************************************)
(* Addresses, messages and pipes                                           *)
(***************************************************************************)

LEMMA RouterPeer ==
    /\ \A r \in Router : Peer(r) \in Router /\ Peer(r) # r /\ Peer(Peer(r)) = r
    /\ \A r, k \in Router : k = r \/ k = Peer(r)
  BY DEF Router, Peer

LEMMA PipeFields ==
    ASSUME NEW ps \in Seq(Pipe), NEW p \in DOMAIN ps
    PROVE  /\ ps[p] \in Pipe
           /\ ps[p].dialer \in Router /\ ps[p].dial \in Nat /\ ps[p].open \in BOOLEAN
           /\ ps[p].wire \in [Router -> Seq(Written)] /\ ps[p].pc \in [Router -> Stage]
           /\ \A r \in Router : ps[p].wire[r] \in Seq(Written)
           /\ DOMAIN ps = 1..Len(ps) /\ Len(ps) \in Nat /\ p \in Nat \ {0}
<1>1. ps[p] \in Pipe /\ DOMAIN ps = 1..Len(ps) /\ Len(ps) \in Nat
  OBVIOUS
<1>2. /\ ps[p].dialer \in Router /\ ps[p].dial \in Nat /\ ps[p].open \in BOOLEAN
      /\ ps[p].wire \in [Router -> Seq(Written)] /\ ps[p].pc \in [Router -> Stage]
  BY <1>1 DEF Pipe
<1>3. \A r \in Router : ps[p].wire[r] \in Seq(Written)
  BY <1>2
<1>. QED
  BY <1>1, <1>2, <1>3

LEMMA Addresses ==
    ASSUME TypeOK, NEW r \in Router
    PROVE  /\ Listening(r) \in Addr /\ Listening(r).of = r
           /\ \A p \in DOMAIN pipes :
                /\ Local(r, p) \in Addr /\ Local(r, p).of = r
                /\ Remote(r, p) \in Addr /\ Remote(r, p).of = Peer(r)
                /\ Own(r, p) \in Addr /\ Own(r, p).of = r
                /\ Own(r, p) \in {Listening(r), Local(r, p)}
           /\ NoAddr \notin Addr
<1>1. Listening(r) \in Addr /\ Listening(r).of = r
  BY BoundsAssumption DEF Listening, Addr
<1>2. ASSUME NEW p \in DOMAIN pipes
      PROVE  /\ Local(r, p) \in Addr /\ Local(r, p).of = r
             /\ Remote(r, p) \in Addr /\ Remote(r, p).of = Peer(r)
  <2>1. p \in 0..MaxPipes /\ 0 \in 0..MaxPipes
    <3>1. p \in 1..Len(pipes) /\ Len(pipes) \in Nat /\ Len(pipes) <= MaxPipes /\ MaxPipes \in Nat
      BY BoundsAssumption DEF TypeOK
    <3>. QED
      BY <3>1
  <2>. QED
    BY <2>1, RouterPeer DEF Local, Remote, Addr
<1>3. NoAddr \notin Addr
  <2>1. NoAddr.of = "none" /\ "none" \notin Router
    BY DEF NoAddr, Router
  <2>. QED
    BY <2>1 DEF Addr
<1>. QED
  BY <1>1, <1>2, <1>3 DEF Own

LEMMA MessageFields ==
    ASSUME NEW w \in Carried
    PROVE  /\ w.kind \in Kind /\ w.letter \in Letter /\ w.to \in Addr
           /\ w.back \in Addr \cup {NoAddr} /\ w # Announcement /\ w \in Written
<1>1. w.kind \in Kind /\ w.letter \in Letter /\ w.to \in Addr /\ w.back \in Addr \cup {NoAddr}
  BY DEF Carried
<1>2. w.kind # Announcement.kind
  BY <1>1 DEF Kind, Announcement
<1>. QED
  BY <1>1, <1>2 DEF Written

LEMMA LetterFields ==
    ASSUME NEW m \in Letter
    PROVE  m.from \in Router /\ m.n \in Nat \ {0} /\ m = [from |-> m.from, n |-> m.n]
  BY BoundsAssumption DEF Letter

LEMMA AddressedFields ==
    ASSUME NEW w \in Carried, NEW a \in Addr
    PROVE  /\ Addressed(w, a) \in Carried
           /\ Addressed(w, a).kind = w.kind /\ Addressed(w, a).letter = w.letter
           /\ Addressed(w, a).to = w.to
           /\ Addressed(w, a).back = IF w.back = NoAddr THEN a ELSE w.back
  BY DEF Addressed, Carried

LEMMA NewMessage ==
    ASSUME NEW kind \in Kind, NEW m \in Letter, NEW to \in Addr
    PROVE  /\ Message(kind, m, to) \in Carried
           /\ Message(kind, m, to).kind = kind /\ Message(kind, m, to).letter = m
           /\ Message(kind, m, to).to = to /\ Message(kind, m, to).back = NoAddr
  BY DEF Message, Carried

\* p is q but for what is on the wires; but for where the callbacks are.
Unwired(p, q) == p.dialer = q.dialer /\ p.dial = q.dial /\ p.open = q.open /\ p.pc = q.pc
Unstaged(p, q) == p.dialer = q.dialer /\ p.dial = q.dial /\ p.wire = q.wire

LEMMA PutEffect ==
    ASSUME NEW ps \in Seq(Pipe), NEW p \in DOMAIN ps, NEW r \in Router, NEW ms \in Seq(Written)
    PROVE  /\ Put(ps, p, r, ms) \in Seq(Pipe)
           /\ DOMAIN Put(ps, p, r, ms) = DOMAIN ps
           /\ Len(Put(ps, p, r, ms)) = Len(ps)
           /\ \A q \in DOMAIN ps : q # p => Put(ps, p, r, ms)[q] = ps[q]
           /\ Unwired(Put(ps, p, r, ms)[p], ps[p])
           /\ Put(ps, p, r, ms)[p].wire[r] = ps[p].wire[r]
           /\ Put(ps, p, r, ms)[p].wire[Peer(r)] = ps[p].wire[Peer(r)] \o ms
<1>a. PICK w : w = [ps[p].wire EXCEPT ![Peer(r)] = @ \o ms]
  OBVIOUS
<1>b. PICK new : new = [ps[p] EXCEPT !.wire = w]
  OBVIOUS
<1>1. /\ ps[p] \in Pipe /\ ps[p].wire \in [Router -> Seq(Written)]
      /\ Peer(r) \in Router /\ Peer(r) # r
  BY PipeFields, RouterPeer
<1>2. ps[p].wire[Peer(r)] \o ms \in Seq(Written)
  BY <1>1, Joined
<1>3. /\ w \in [Router -> Seq(Written)] /\ w[r] = ps[p].wire[r]
      /\ w[Peer(r)] = ps[p].wire[Peer(r)] \o ms
  BY <1>1, <1>2, <1>a
<1>4. new \in Pipe /\ new.wire = w /\ Unwired(new, ps[p])
  BY <1>1, <1>3, <1>b DEF Pipe, Unwired
<1>5. Put(ps, p, r, ms) = [ps EXCEPT ![p] = new]
  BY <1>a, <1>b DEF Put
<1>6. /\ [ps EXCEPT ![p] = new] \in Seq(Pipe)
      /\ DOMAIN [ps EXCEPT ![p] = new] = DOMAIN ps
      /\ \A j \in DOMAIN ps : [ps EXCEPT ![p] = new][j] = IF j = p THEN new ELSE ps[j]
  BY <1>4, Replace
<1>7. Len([ps EXCEPT ![p] = new]) = Len(ps)
  BY <1>6
<1>. QED
  BY <1>3, <1>4, <1>5, <1>6, <1>7

LEMMA ReceivedEffect ==
    ASSUME TypeOK, NEW p \in DOMAIN pipes, NEW r \in Router, pipes[p].wire[r] # <<>>
    PROVE  /\ Received(r, p) \in Seq(Pipe)
           /\ DOMAIN Received(r, p) = DOMAIN pipes /\ Len(Received(r, p)) = Len(pipes)
           /\ \A q \in DOMAIN pipes : q # p => Received(r, p)[q] = pipes[q]
           /\ Unwired(Received(r, p)[p], pipes[p])
           /\ Received(r, p)[p].wire[r] = Tail(pipes[p].wire[r])
           /\ Received(r, p)[p].wire[Peer(r)] = pipes[p].wire[Peer(r)]
<1>a. PICK w : w = [pipes[p].wire EXCEPT ![r] = Tail(@)]
  OBVIOUS
<1>b. PICK new : new = [pipes[p] EXCEPT !.wire = w]
  OBVIOUS
<1>0. pipes \in Seq(Pipe)
  BY DEF TypeOK
<1>1. /\ pipes[p] \in Pipe /\ pipes[p].wire \in [Router -> Seq(Written)]
      /\ Peer(r) \in Router /\ Peer(r) # r
  BY <1>0, PipeFields, RouterPeer
<1>2. Tail(pipes[p].wire[r]) \in Seq(Written)
  BY <1>1, Tailed
<1>3. /\ w \in [Router -> Seq(Written)] /\ w[r] = Tail(pipes[p].wire[r])
      /\ w[Peer(r)] = pipes[p].wire[Peer(r)]
  BY <1>1, <1>2, <1>a
<1>4. new \in Pipe /\ new.wire = w /\ Unwired(new, pipes[p])
  BY <1>1, <1>3, <1>b DEF Pipe, Unwired
<1>5. Received(r, p) = [pipes EXCEPT ![p] = new]
  BY <1>a, <1>b DEF Received
<1>6. /\ [pipes EXCEPT ![p] = new] \in Seq(Pipe)
      /\ DOMAIN [pipes EXCEPT ![p] = new] = DOMAIN pipes
      /\ \A j \in DOMAIN pipes : [pipes EXCEPT ![p] = new][j] = IF j = p THEN new ELSE pipes[j]
  BY <1>0, <1>4, Replace
<1>7. Len([pipes EXCEPT ![p] = new]) = Len(pipes)
  BY <1>0, <1>6
<1>. QED
  BY <1>3, <1>4, <1>5, <1>6, <1>7

Staged(ps, p, r, s) == [ps EXCEPT ![p].pc[r] = s]

LEMMA StagedEffect ==
    ASSUME NEW ps \in Seq(Pipe), NEW p \in DOMAIN ps, NEW r \in Router, NEW s \in Stage
    PROVE  /\ Staged(ps, p, r, s) \in Seq(Pipe)
           /\ DOMAIN Staged(ps, p, r, s) = DOMAIN ps /\ Len(Staged(ps, p, r, s)) = Len(ps)
           /\ \A q \in DOMAIN ps : q # p => Staged(ps, p, r, s)[q] = ps[q]
           /\ Unstaged(Staged(ps, p, r, s)[p], ps[p])
           /\ Staged(ps, p, r, s)[p].pc[r] = s
           /\ Staged(ps, p, r, s)[p].pc[Peer(r)] = ps[p].pc[Peer(r)]
<1>a. PICK w : w = [ps[p].pc EXCEPT ![r] = s]
  OBVIOUS
<1>b. PICK new : new = [ps[p] EXCEPT !.pc = w]
  OBVIOUS
<1>1. /\ ps[p] \in Pipe /\ ps[p].pc \in [Router -> Stage]
      /\ Peer(r) \in Router /\ Peer(r) # r
  BY PipeFields, RouterPeer
<1>3. w \in [Router -> Stage] /\ w[r] = s /\ w[Peer(r)] = ps[p].pc[Peer(r)]
  BY <1>1, <1>a
<1>4. new \in Pipe /\ new.pc = w /\ Unstaged(new, ps[p]) /\ new.open = ps[p].open
  BY <1>1, <1>3, <1>b DEF Pipe, Unstaged
<1>5. Staged(ps, p, r, s) = [ps EXCEPT ![p] = new]
  BY <1>a, <1>b DEF Staged
<1>6. /\ [ps EXCEPT ![p] = new] \in Seq(Pipe)
      /\ DOMAIN [ps EXCEPT ![p] = new] = DOMAIN ps
      /\ \A j \in DOMAIN ps : [ps EXCEPT ![p] = new][j] = IF j = p THEN new ELSE ps[j]
  BY <1>4, Replace
<1>7. Len([ps EXCEPT ![p] = new]) = Len(ps)
  BY <1>6
<1>. QED
  BY <1>3, <1>4, <1>5, <1>6, <1>7

(***************************************************************************)
(* What routing does                                                       *)
(***************************************************************************)

\* r writes what it has accumulated for the addressee of m to p, and then last,
\* which is m with a reply address.
WrittenTo(ps, r, m, p, last) ==
    /\ m.to \notin nEps[r] /\ (m.back = NoAddr => p \in known[r])
    /\ last = Addressed(m, Own(r, p))
    /\ waiting[r][m.to] \in Seq(Carried)
    /\ Append(waiting[r][m.to], last) \in Seq(Written)
    /\ pipes' = Put(ps, p, r, Append(waiting[r][m.to], last))
    /\ waiting' \in [Router -> [Addr -> Seq(Carried)]]
    /\ \A k \in Router, a \in Addr : waiting'[k][a] =
            IF k = r /\ a = m.to THEN <<>> ELSE waiting[k][a]
    /\ bare \subseteq bare' /\ bare' \subseteq Letter /\ late' \subseteq Letter
    /\ \A i \in DOMAIN waiting[r][m.to] :
            waiting[r][m.to][i].kind = "letter" => waiting[r][m.to][i].letter \in bare'
    /\ UNCHANGED <<dials, arrived, answered, early>>

LEMMA RouteByPipeEffect ==
    ASSUME TypeOK, NEW r \in Router, NEW ps \in Seq(Pipe), DOMAIN ps = DOMAIN pipes,
           NEW m \in Carried, RouteByPipe(ps, r, m)
    PROVE  \E p \in DOMAIN pipes, last \in Carried : WrittenTo(ps, r, m, p, last)
<1>a. PICK p : p = routes[r][m.to][1]
  OBVIOUS
<1>b. PICK box : box = waiting[r][m.to]
  OBVIOUS
<1>1. m.to \in Addr /\ m.to \notin nEps[r] /\ (m.back = NoAddr => p \in known[r])
  BY <1>a, MessageFields DEF RouteByPipe, HasRoute
<1>2. p \in DOMAIN pipes
  <2>1. routes[r][m.to] \in Seq(DOMAIN pipes)
    BY <1>1 DEF TypeOK
  <2>2. routes[r][m.to] # <<>>
    BY DEF RouteByPipe, HasRoute
  <2>. QED
    BY <1>a, <2>1, <2>2
<1>3. box \in Seq(Carried) /\ waiting \in [Router -> [Addr -> Seq(Carried)]]
  BY <1>1, <1>b DEF TypeOK
<1>c. PICK last : last = Addressed(m, Own(r, p))
  OBVIOUS
<1>4. last \in Carried
  BY <1>2, <1>c, Addresses, AddressedFields
<1>5. Append(box, last) \in Seq(Written)
  <2>1. box \in Seq(Written) /\ last \in Written
    BY <1>3, <1>4 DEF Written
  <2>. QED
    BY <2>1, Appended
<1>6. pipes' = Put(ps, p, r, Append(box, last))
  BY <1>a, <1>b, <1>c DEF RouteByPipe
<1>7. /\ waiting' \in [Router -> [Addr -> Seq(Carried)]]
      /\ \A k \in Router, a \in Addr : waiting'[k][a] =
            IF k = r /\ a = m.to THEN <<>> ELSE waiting[k][a]
  <2>1. <<>> \in Seq(Carried)
    OBVIOUS
  <2>2. waiting' = [waiting EXCEPT ![r][m.to] = <<>>]
    BY DEF RouteByPipe
  <2>. QED
    BY <1>1, <1>3, <2>1, <2>2, Nested
<1>8. /\ bare \subseteq bare' /\ bare' \subseteq Letter
      /\ \A i \in DOMAIN box : box[i].kind = "letter" => box[i].letter \in bare'
  <2>1. bare' = bare \cup {w.letter : w \in {w \in ToSet(box) : w.kind = "letter"}}
    BY <1>b DEF RouteByPipe
  <2>2. \A i \in DOMAIN box : box[i] \in ToSet(box)
    BY DEF ToSet
  <2>3. \A w \in ToSet(box) : w \in Carried /\ w.letter \in Letter
    <3>1. \A i \in DOMAIN box : box[i] \in Carried
      BY <1>3
    <3>. QED
      BY <3>1, MessageFields DEF ToSet
  <2>4. bare \subseteq Letter
    BY DEF TypeOK
  <2>. QED
    BY <2>1, <2>2, <2>3, <2>4
<1>9. UNCHANGED <<dials, arrived, answered, early>>
  BY DEF RouteByPipe, outcomeVars
<1>10. late' \subseteq Letter
  <2>1. late' = late \/ late' = late \cup {m.letter} \cup {w.letter : w \in ToSet(box)}
    BY <1>b DEF RouteByPipe
  <2>2. m.letter \in Letter
    BY MessageFields
  <2>3. \A w \in ToSet(box) : w.letter \in Letter
    <3>1. \A i \in DOMAIN box : box[i] \in Carried
      BY <1>3
    <3>. QED
      BY <3>1, MessageFields DEF ToSet
  <2>4. late \subseteq Letter
    BY DEF TypeOK
  <2>. QED
    BY <2>1, <2>2, <2>3, <2>4
<1>. QED
  BY <1>1, <1>2, <1>3, <1>4, <1>5, <1>6, <1>7, <1>8, <1>9, <1>10, <1>b, <1>c DEF WrittenTo

LEMMA RouteLaterEffect ==
    ASSUME TypeOK, NEW r \in Router, NEW ps \in Seq(Pipe), NEW m \in Carried, RouteLater(ps, r, m)
    PROVE  /\ m.to \notin nEps[r] /\ pipes' = ps
           /\ m.to \in Addr /\ waiting[r][m.to] \in Seq(Carried)
           /\ waiting' \in [Router -> [Addr -> Seq(Carried)]]
           /\ \A k \in Router, a \in Addr : waiting'[k][a] =
                IF k = r /\ a = m.to THEN Append(waiting[r][m.to], m) ELSE waiting[k][a]
           /\ dials' \in [Router -> Seq(Addr)]
           /\ early' \subseteq Letter
           /\ UNCHANGED <<arrived, answered, bare, late>>
<1>1. m.to \notin nEps[r] /\ m.to \in Addr /\ m.letter \in Letter /\ pipes' = ps
  BY MessageFields DEF RouteLater
<1>2. waiting \in [Router -> [Addr -> Seq(Carried)]] /\ waiting[r][m.to] \in Seq(Carried)
  BY <1>1 DEF TypeOK
<1>3. Append(waiting[r][m.to], m) \in Seq(Carried)
  BY <1>2
<1>4. waiting' = [waiting EXCEPT ![r][m.to] = Append(waiting[r][m.to], m)]
  BY DEF RouteLater
<1>5. /\ waiting' \in [Router -> [Addr -> Seq(Carried)]]
      /\ \A k \in Router, a \in Addr : waiting'[k][a] =
            IF k = r /\ a = m.to THEN Append(waiting[r][m.to], m) ELSE waiting[k][a]
  BY <1>1, <1>2, <1>3, <1>4, Nested
<1>6. dials' \in [Router -> Seq(Addr)]
  <2>1. dials' = [dials EXCEPT ![r] = Append(@, m.to)] \/ dials' = dials
    BY DEF RouteLater, Dial
  <2>2. dials \in [Router -> Seq(Addr)]
    BY DEF TypeOK
  <2>3. Append(dials[r], m.to) \in Seq(Addr)
    BY <1>1, <2>2
  <2>. QED
    BY <2>1, <2>2, <2>3
<1>7. early' \subseteq Letter
  <2>1. early' = early \cup {m.letter} \/ early' = early
    BY DEF RouteLater
  <2>. QED
    BY <1>1, <2>1 DEF TypeOK
<1>8. UNCHANGED <<arrived, answered, bare, late>>
  BY DEF RouteLater, outcomeVars
<1>. QED
  BY <1>1, <1>2, <1>5, <1>6, <1>7, <1>8

LEMMA DeliverEffect ==
    ASSUME TypeOK, NEW r \in Router, NEW ps, NEW m \in Carried, Deliver(ps, r, m)
    PROVE  /\ m.to \in nEps[r] /\ pipes' = ps
           /\ arrived' \in [Letter -> Nat] /\ answered' \in [Letter -> Nat]
           /\ \A l \in Letter : arrived'[l] =
                IF m.kind = "letter" /\ l = m.letter THEN arrived[l] + 1 ELSE arrived[l]
           /\ \A l \in Letter : answered'[l] =
                IF m.kind = "answer" /\ m.letter.from = r /\ l = m.letter
                THEN answered[l] + 1 ELSE answered[l]
           /\ UNCHANGED <<waiting, dials, bare, early, late>>
<1>1. m.letter \in Letter /\ arrived \in [Letter -> Nat] /\ answered \in [Letter -> Nat]
  BY MessageFields DEF TypeOK
<1>2. \A l \in Letter : arrived[l] \in Nat /\ answered[l] \in Nat
  BY <1>1
<1>3. /\ arrived' \in [Letter -> Nat]
      /\ \A l \in Letter : arrived'[l] =
            IF m.kind = "letter" /\ l = m.letter THEN arrived[l] + 1 ELSE arrived[l]
  BY <1>1, <1>2 DEF Deliver
<1>4. /\ answered' \in [Letter -> Nat]
      /\ \A l \in Letter : answered'[l] =
            IF m.kind = "answer" /\ m.letter.from = r /\ l = m.letter
            THEN answered[l] + 1 ELSE answered[l]
  BY <1>1, <1>2 DEF Deliver
<1>. QED
  BY <1>3, <1>4 DEF Deliver

LEMMA RouteTypes ==
    ASSUME TypeOK, NEW r \in Router, NEW ps \in Seq(Pipe), DOMAIN ps = DOMAIN pipes,
           Len(ps) = Len(pipes), NEW m \in Carried, Route(ps, r, m)
    PROVE  /\ pipes' \in Seq(Pipe) /\ DOMAIN pipes' = DOMAIN pipes /\ Len(pipes') = Len(pipes)
           /\ waiting' \in [Router -> [Addr -> Seq(Carried)]] /\ dials' \in [Router -> Seq(Addr)]
           /\ arrived' \in [Letter -> Nat] /\ answered' \in [Letter -> Nat]
           /\ bare' \subseteq Letter /\ early' \subseteq Letter /\ late' \subseteq Letter
<1>1. CASE Deliver(ps, r, m)
  BY <1>1, DeliverEffect DEF TypeOK
<1>2. CASE RouteByPipe(ps, r, m)
  <2>1. PICK p \in DOMAIN pipes, last \in Carried : WrittenTo(ps, r, m, p, last)
    BY <1>2, RouteByPipeEffect
  <2>a. PICK ms : ms = Append(waiting[r][m.to], last)
    OBVIOUS
  <2>2. /\ ms \in Seq(Written) /\ pipes' = Put(ps, p, r, ms)
        /\ waiting' \in [Router -> [Addr -> Seq(Carried)]]
        /\ bare' \subseteq Letter /\ late' \subseteq Letter
        /\ UNCHANGED <<dials, arrived, answered, early>>
    BY <2>1, <2>a DEF WrittenTo
  <2>3. /\ Put(ps, p, r, ms) \in Seq(Pipe) /\ DOMAIN Put(ps, p, r, ms) = DOMAIN ps
        /\ Len(Put(ps, p, r, ms)) = Len(ps)
    BY <2>2, PutEffect
  <2>. QED
    BY <2>2, <2>3 DEF TypeOK
<1>3. CASE RouteLater(ps, r, m)
  BY <1>3, RouteLaterEffect DEF TypeOK
<1>. QED
  BY <1>1, <1>2, <1>3 DEF Route

(***************************************************************************)
(* What the other actions do with the pipes                                *)
(***************************************************************************)

\* The callback greets the peer with g announcements, none or one, and sends on
\* what has been accumulated, with a reply address.
AnnouncedTo(r, p, g, ms) ==
    LET box == waiting[r][Remote(r, p)]
    IN  /\ pipes[p].pc[r] = "announce" /\ box \in Seq(Carried)
        /\ Len(ms) = g + Len(box) /\ \A i \in 1..g : ms[i] = Announcement
        /\ \A i \in DOMAIN box : ms[g + i] = Addressed(box[i], Own(r, p))
        /\ pipes' \in Seq(Pipe) /\ DOMAIN pipes' = DOMAIN pipes /\ Len(pipes') = Len(pipes)
        /\ \A q \in DOMAIN pipes : q # p => pipes'[q] = pipes[q]
        /\ pipes'[p].dialer = pipes[p].dialer
        /\ pipes'[p].pc[r] = "done" /\ pipes'[p].pc[Peer(r)] = pipes[p].pc[Peer(r)]
        /\ pipes'[p].wire[r] = pipes[p].wire[r]
        /\ pipes'[p].wire[Peer(r)] = pipes[p].wire[Peer(r)] \o ms
        /\ waiting' \in [Router -> [Addr -> Seq(Carried)]]
        /\ \A k \in Router, a \in Addr : waiting'[k][a] =
                IF k = r /\ a = Remote(r, p) THEN <<>> ELSE waiting[k][a]
        /\ UNCHANGED <<life, nEps, sent, routes, known, dials, due, arrived, answered, bare, early, late>>

LEMMA AnnounceEffect ==
    ASSUME TypeOK, NEW r \in Router, NEW p \in DOMAIN pipes, Announce(r, p)
    PROVE  \E g \in Nat, ms \in Seq(Written) : AnnouncedTo(r, p, g, ms)
<1>a. PICK box : box = waiting[r][Remote(r, p)]
  OBVIOUS
<1>b. PICK greeting : greeting = IF Listens(r) THEN <<Announcement>> ELSE <<>>
  OBVIOUS
<1>c. PICK letters : letters = [i \in DOMAIN box |-> Addressed(box[i], Own(r, p))]
  OBVIOUS
<1>d. PICK ms : ms = greeting \o letters
  OBVIOUS
<1>1. /\ Remote(r, p) \in Addr /\ Own(r, p) \in Addr /\ pipes \in Seq(Pipe)
      /\ waiting \in [Router -> [Addr -> Seq(Carried)]] /\ Peer(r) \in Router
  BY Addresses, RouterPeer DEF TypeOK
<1>2. box \in Seq(Carried)
  BY <1>1, <1>a
<1>3. DOMAIN box = 1..Len(box) /\ Len(box) \in Nat /\ \A i \in DOMAIN box : box[i] \in Carried
  BY <1>2
<1>4. greeting \in Seq(Written) /\ \A i \in 1..Len(greeting) : greeting[i] = Announcement
  <2>1. Announcement \in Written
    BY DEF Written
  <2>2. <<Announcement>> \in Seq(Written) /\ \A i \in 1..Len(<<Announcement>>) : <<Announcement>>[i] = Announcement
    BY <2>1
  <2>3. <<>> \in Seq(Written) /\ \A i \in 1..Len(<<>>) : <<>>[i] = Announcement
    OBVIOUS
  <2>. QED
    BY <1>b, <2>2, <2>3
<1>5. letters \in Seq(Written) /\ Len(letters) = Len(box)
  <2>1. \A i \in DOMAIN box : Addressed(box[i], Own(r, p)) \in Written
    BY <1>1, <1>3, AddressedFields DEF Written
  <2>. QED
    BY <1>3, <1>c, <2>1
<1>6. /\ ms \in Seq(Written) /\ Len(ms) = Len(greeting) + Len(box)
      /\ \A i \in 1..Len(greeting) : ms[i] = Announcement
      /\ \A i \in DOMAIN box : ms[Len(greeting) + i] = Addressed(box[i], Own(r, p))
  <2>1. /\ greeting \o letters \in Seq(Written)
        /\ Len(greeting \o letters) = Len(greeting) + Len(letters)
        /\ \A i \in 1..(Len(greeting) + Len(letters)) : (greeting \o letters)[i] =
                IF i <= Len(greeting) THEN greeting[i] ELSE letters[i - Len(greeting)]
    <3>1. greeting \in Seq(Written) /\ letters \in Seq(Written)
      BY <1>4, <1>5
    <3>. QED
      BY <3>1, ConcatProperties
  <2>2. Len(greeting) \in Nat
    BY <1>4
  <2>3. ASSUME NEW i \in DOMAIN box
        PROVE  ms[Len(greeting) + i] = Addressed(box[i], Own(r, p))
    <3>a. PICK k : k = Len(greeting) + i
      OBVIOUS
    <3>1. /\ k \in 1..(Len(greeting) + Len(letters)) /\ ~(k <= Len(greeting))
          /\ k - Len(greeting) = i
      <4>1. i \in 1..Len(box) /\ Len(box) \in Nat /\ Len(letters) = Len(box)
        BY <1>3, <1>5
      <4>. QED
        BY <2>2, <3>a, <4>1
    <3>2. (greeting \o letters)[k] = letters[i]
      BY <2>1, <3>1
    <3>. QED
      BY <1>c, <1>d, <3>2, <3>a
  <2>4. \A i \in 1..Len(greeting) : ms[i] = Announcement
    BY <1>4, <1>5, <1>d, <2>1, <2>2
  <2>. QED
    BY <1>5, <1>d, <2>1, <2>3, <2>4
<1>7. /\ pipes[p].pc[r] = "announce"
      /\ pipes' = [Put(pipes, p, r, ms) EXCEPT ![p].pc[r] = "done"]
      /\ waiting' = [waiting EXCEPT ![r][Remote(r, p)] = <<>>]
      /\ UNCHANGED <<life, nEps, sent, routes, known, dials, due, arrived, answered, bare, early, late>>
  BY <1>a, <1>b, <1>c, <1>d DEF Announce, Write, outcomeVars
<1>e. PICK put : put = Put(pipes, p, r, ms)
  OBVIOUS
<1>8. /\ put \in Seq(Pipe) /\ DOMAIN put = DOMAIN pipes /\ Len(put) = Len(pipes)
      /\ \A q \in DOMAIN pipes : q # p => put[q] = pipes[q]
      /\ Unwired(put[p], pipes[p])
      /\ put[p].wire[r] = pipes[p].wire[r]
      /\ put[p].wire[Peer(r)] = pipes[p].wire[Peer(r)] \o ms
  <2>1. /\ Put(pipes, p, r, ms) \in Seq(Pipe) /\ DOMAIN Put(pipes, p, r, ms) = DOMAIN pipes
        /\ Len(Put(pipes, p, r, ms)) = Len(pipes)
        /\ \A q \in DOMAIN pipes : q # p => Put(pipes, p, r, ms)[q] = pipes[q]
        /\ Unwired(Put(pipes, p, r, ms)[p], pipes[p])
        /\ Put(pipes, p, r, ms)[p].wire[r] = pipes[p].wire[r]
        /\ Put(pipes, p, r, ms)[p].wire[Peer(r)] = pipes[p].wire[Peer(r)] \o ms
    <3>1. pipes \in Seq(Pipe) /\ ms \in Seq(Written)
      BY <1>1, <1>6
    <3>. QED
      BY <3>1, PutEffect
  <2>. QED
    BY <2>1, <1>e
<1>9. /\ pipes' \in Seq(Pipe) /\ DOMAIN pipes' = DOMAIN put /\ Len(pipes') = Len(put)
      /\ \A q \in DOMAIN put : q # p => pipes'[q] = put[q]
      /\ Unstaged(pipes'[p], put[p])
      /\ pipes'[p].pc[r] = "done" /\ pipes'[p].pc[Peer(r)] = put[p].pc[Peer(r)]
  <2>1. "done" \in Stage /\ p \in DOMAIN put
    BY <1>8 DEF Stage
  <2>2. pipes' = Staged(put, p, r, "done")
    BY <1>7, <1>e DEF Staged
  <2>3. put \in Seq(Pipe)
    BY <1>8
  <2>4. /\ Staged(put, p, r, "done") \in Seq(Pipe)
        /\ DOMAIN Staged(put, p, r, "done") = DOMAIN put
        /\ Len(Staged(put, p, r, "done")) = Len(put)
        /\ \A q \in DOMAIN put : q # p => Staged(put, p, r, "done")[q] = put[q]
        /\ Unstaged(Staged(put, p, r, "done")[p], put[p])
        /\ Staged(put, p, r, "done")[p].pc[r] = "done"
        /\ Staged(put, p, r, "done")[p].pc[Peer(r)] = put[p].pc[Peer(r)]
    BY <2>1, <2>3, StagedEffect
  <2>. QED
    BY <2>2, <2>4
<1>10. /\ waiting' \in [Router -> [Addr -> Seq(Carried)]]
       /\ \A k \in Router, a \in Addr : waiting'[k][a] =
            IF k = r /\ a = Remote(r, p) THEN <<>> ELSE waiting[k][a]
  <2>1. <<>> \in Seq(Carried)
    OBVIOUS
  <2>2. waiting' = [waiting EXCEPT ![r][Remote(r, p)] = <<>>]
    BY <1>7
  <2>3. waiting \in [Router -> [Addr -> Seq(Carried)]] /\ Remote(r, p) \in Addr
    BY <1>1
  <2>. QED
    BY <2>1, <2>2, <2>3, Nested
<1>11. Len(greeting) \in Nat
  <2>1. greeting \in Seq(Written)
    BY <1>4
  <2>. QED
    BY <2>1
<1>12. AnnouncedTo(r, p, Len(greeting), ms)
  <2>1. /\ pipes' \in Seq(Pipe) /\ DOMAIN pipes' = DOMAIN pipes /\ Len(pipes') = Len(pipes)
        /\ \A q \in DOMAIN pipes : q # p => pipes'[q] = pipes[q]
        /\ pipes'[p].pc[r] = "done"
    BY <1>8, <1>9
  <2>2. pipes'[p].dialer = pipes[p].dialer /\ pipes'[p].pc[Peer(r)] = pipes[p].pc[Peer(r)]
    BY <1>8, <1>9 DEF Unwired, Unstaged
  <2>3. /\ pipes'[p].wire[r] = pipes[p].wire[r]
        /\ pipes'[p].wire[Peer(r)] = pipes[p].wire[Peer(r)] \o ms
    BY <1>8, <1>9 DEF Unstaged
  <2>4. /\ pipes[p].pc[r] = "announce"
        /\ UNCHANGED <<life, nEps, sent, routes, known, dials, due, arrived, answered, bare, early, late>>
    BY <1>7
  <2>. QED
    BY <1>2, <1>6, <1>10, <1>a, <2>1, <2>2, <2>3, <2>4 DEF AnnouncedTo
<1>. QED
  BY <1>6, <1>11, <1>12

\* A callback goes on.
LEMMA StepEffect ==
    ASSUME TypeOK, NEW r \in Router, NEW p \in DOMAIN pipes, NEW from, NEW to \in Stage,
           Step(r, p, from, to)
    PROVE  /\ pipes[p].pc[r] = from
           /\ pipes' \in Seq(Pipe) /\ DOMAIN pipes' = DOMAIN pipes /\ Len(pipes') = Len(pipes)
           /\ \A q \in DOMAIN pipes : q # p => pipes'[q] = pipes[q]
           /\ Unstaged(pipes'[p], pipes[p])
           /\ pipes'[p].pc[r] = to /\ pipes'[p].pc[Peer(r)] = pipes[p].pc[Peer(r)]
<1>1. pipes \in Seq(Pipe)
  BY DEF TypeOK
<1>2. pipes[p].pc[r] = from /\ pipes' = Staged(pipes, p, r, to)
  BY DEF Step, Staged
<1>3. /\ Staged(pipes, p, r, to) \in Seq(Pipe)
      /\ DOMAIN Staged(pipes, p, r, to) = DOMAIN pipes
      /\ Len(Staged(pipes, p, r, to)) = Len(pipes)
      /\ \A q \in DOMAIN pipes : q # p => Staged(pipes, p, r, to)[q] = pipes[q]
      /\ Unstaged(Staged(pipes, p, r, to)[p], pipes[p])
      /\ Staged(pipes, p, r, to)[p].pc[r] = to
      /\ Staged(pipes, p, r, to)[p].pc[Peer(r)] = pipes[p].pc[Peer(r)]
  BY <1>1, StagedEffect
<1>. QED
  BY <1>2, <1>3

LEMMA CutEffect ==
    ASSUME TypeOK, NEW p \in DOMAIN pipes, Cut(p)
    PROVE  /\ pipes' \in Seq(Pipe) /\ DOMAIN pipes' = DOMAIN pipes /\ Len(pipes') = Len(pipes)
           /\ \A q \in DOMAIN pipes : q # p => pipes'[q] = pipes[q]
           /\ Unstaged(pipes'[p], pipes[p]) /\ pipes'[p].pc = pipes[p].pc
<1>a. PICK new : new = [pipes[p] EXCEPT !.open = FALSE]
  OBVIOUS
<1>1. pipes \in Seq(Pipe) /\ pipes[p] \in Pipe
  BY DEF TypeOK
<1>2. new \in Pipe /\ Unstaged(new, pipes[p]) /\ new.pc = pipes[p].pc
  BY <1>1, <1>a DEF Pipe, Unstaged
<1>3. pipes' = [pipes EXCEPT ![p] = new]
  BY <1>a DEF Cut
<1>4. /\ [pipes EXCEPT ![p] = new] \in Seq(Pipe)
      /\ DOMAIN [pipes EXCEPT ![p] = new] = DOMAIN pipes
      /\ \A j \in DOMAIN pipes : [pipes EXCEPT ![p] = new][j] = IF j = p THEN new ELSE pipes[j]
  BY <1>1, <1>2, Replace
<1>5. Len([pipes EXCEPT ![p] = new]) = Len(pipes)
  BY <1>1, <1>4
<1>. QED
  BY <1>2, <1>3, <1>4, <1>5

LEMMA ConnectEffect ==
    ASSUME TypeOK, NEW r \in Router, NEW dial \in DOMAIN dials[r], Connect(r, dial)
    PROVE  LET p == Len(pipes) + 1
           IN  /\ pipes' \in Seq(Pipe) /\ p \notin DOMAIN pipes
               /\ DOMAIN pipes' = DOMAIN pipes \cup {p} /\ Len(pipes') = p /\ p <= MaxPipes
               /\ \A q \in DOMAIN pipes : pipes'[q] = pipes[q]
               /\ pipes'[p].dialer = r /\ Listening(Peer(r)) \in nEps[Peer(r)]
               /\ \A k \in Router : pipes'[p].wire[k] = <<>> /\ pipes'[p].pc[k] = "add"
<1>a. PICK new : new = [dialer |-> r, dial |-> dial, open |-> TRUE,
                        wire |-> [q \in Router |-> <<>>], pc |-> [q \in Router |-> "add"]]
  OBVIOUS
<1>1. pipes \in Seq(Pipe) /\ dials[r] \in Seq(Addr)
  BY DEF TypeOK
<1>2. new \in Pipe
  <2>1. dial \in Nat
    BY <1>1
  <2>2. [q \in Router |-> <<>>] \in [Router -> Seq(Written)]
    OBVIOUS
  <2>3. [q \in Router |-> "add"] \in [Router -> Stage]
    BY DEF Stage
  <2>. QED
    BY <1>a, <2>1, <2>2, <2>3 DEF Pipe
<1>3. pipes' = Append(pipes, new) /\ Len(pipes) < MaxPipes
  BY <1>a DEF Connect
<1>4. /\ Append(pipes, new) \in Seq(Pipe)
      /\ DOMAIN Append(pipes, new) = DOMAIN pipes \cup {Len(pipes) + 1}
      /\ Len(pipes) + 1 \notin DOMAIN pipes
      /\ \A j \in DOMAIN pipes : Append(pipes, new)[j] = pipes[j]
      /\ Append(pipes, new)[Len(pipes) + 1] = new
  BY <1>1, <1>2, Appended
<1>5. Len(Append(pipes, new)) = Len(pipes) + 1 /\ Len(pipes) + 1 <= MaxPipes
  BY <1>1, <1>2, <1>3, BoundsAssumption
<1>6. Listening(Peer(r)) \in nEps[Peer(r)]
  <2>1. dials[r][dial].port = 0 /\ dials[r][dial] \in nEps[Peer(r)] /\ dials[r][dial] \in Addr
    BY <1>1 DEF Connect
  <2>2. dials[r][dial].of = Peer(r)
    BY <2>1, RouterPeer DEF TypeOK
  <2>3. dials[r][dial] = Listening(Peer(r))
    BY <2>1, <2>2 DEF Addr, Listening
  <2>. QED
    BY <2>1, <2>3
<1>7. new.dialer = r /\ \A k \in Router : new.wire[k] = <<>> /\ new.pc[k] = "add"
  BY <1>a
<1>. QED
  BY <1>3, <1>4, <1>5, <1>6, <1>7

LEMMA RegisterRouteBackEffect ==
    ASSUME TypeOK, Routes, NEW r \in Router, NEW p \in DOMAIN pipes, RegisterRouteBack(r, p)
    PROVE  /\ pipes' = Received(r, p) /\ pipes[p].wire[r] # <<>>
           /\ Head(pipes[p].wire[r]) = Announcement
           /\ routes' \in [Router -> [Addr -> Seq(DOMAIN pipes)]]
           /\ \A k \in Router, a \in Addr : NoneTwice(routes'[k][a])
           /\ known' \in [Router -> SUBSET DOMAIN pipes]
           /\ known'[r] = known[r] \cup {p} /\ known'[Peer(r)] = known[Peer(r)]
           /\ UNCHANGED <<life, nEps, sent, waiting, dials, due, arrived, answered, bare, early, late>>
<1>a. PICK a : a = Listening(Peer(r))
  OBVIOUS
<1>1. /\ a \in Addr /\ Peer(r) \in Router /\ Peer(r) # r
      /\ routes \in [Router -> [Addr -> Seq(DOMAIN pipes)]] /\ known \in [Router -> SUBSET DOMAIN pipes]
  BY <1>a, RouterPeer, Addresses DEF TypeOK
<1>2. routes[r][a] \in Seq(DOMAIN pipes) /\ NoneTwice(routes[r][a])
  BY <1>1 DEF Routes
<1>b. PICK new : new = <<p>> \o RemoveFirst(routes[r][a], p)
  OBVIOUS
<1>3. new \in Seq(DOMAIN pipes) /\ NoneTwice(new)
  BY <1>2, <1>b, MovedToFront
<1>4. CASE p \in known[r]
  <2>1. UNCHANGED <<routes, known>>
    BY <1>4 DEF RegisterRouteBack
  <2>. QED
    BY <1>1, <1>4, <2>1 DEF RegisterRouteBack, Receives, First, traffic, outcomeVars, Routes
<1>5. CASE p \notin known[r]
  <2>1. /\ routes' = [routes EXCEPT ![r][a] = new]
        /\ known' = [known EXCEPT ![r] = @ \cup {p}]
    BY <1>5, <1>a, <1>b DEF RegisterRouteBack
  <2>2. /\ routes' \in [Router -> [Addr -> Seq(DOMAIN pipes)]]
        /\ \A k \in Router, b \in Addr :
            routes'[k][b] = IF k = r /\ b = a THEN new ELSE routes[k][b]
    <3>1. routes \in [Router -> [Addr -> Seq(DOMAIN pipes)]] /\ a \in Addr
      BY <1>1
    <3>2. routes' = [routes EXCEPT ![r][a] = new]
      BY <2>1
    <3>. QED
      BY <1>3, <3>1, <3>2, Nested
  <2>3. \A k \in Router, b \in Addr : NoneTwice(routes'[k][b])
    BY <1>3, <2>2 DEF Routes
  <2>4. /\ known' \in [Router -> SUBSET DOMAIN pipes]
        /\ known'[r] = known[r] \cup {p} /\ known'[Peer(r)] = known[Peer(r)]
    BY <1>1, <2>1
  <2>. QED
    BY <2>2, <2>3, <2>4 DEF RegisterRouteBack, Receives, First, traffic, outcomeVars
<1>. QED
  BY <1>4, <1>5

(***************************************************************************)
(* Types                                                                   *)
(***************************************************************************)

LEMMA SendTypes ==
    ASSUME TypeOK, NEW r \in Router, Send(r)
    PROVE  /\ [from |-> r, n |-> sent[r] + 1] \in Letter
           /\ Message("letter", [from |-> r, n |-> sent[r] + 1], Listening(Peer(r))) \in Carried
           /\ sent' \in [Router -> Nat] /\ \A k \in Router : sent'[k] <= MaxSends[k]
           /\ \A k \in Router : sent'[k] = IF k = r THEN sent[r] + 1 ELSE sent[k]
<1>1. /\ sent \in [Router -> Nat] /\ sent[r] < MaxSends[r] /\ sent' = [sent EXCEPT ![r] = @ + 1]
      /\ MaxSends \in [Router -> Nat] /\ \A k \in Router : sent[k] <= MaxSends[k]
  BY BoundsAssumption DEF TypeOK, Send
<1>2. sent[r] \in Nat /\ MaxSends[r] \in Nat /\ sent[r] + 1 \in 1..MaxSends[r]
  BY <1>1
<1>3. [from |-> r, n |-> sent[r] + 1] \in Letter
  BY <1>2 DEF Letter
<1>4. "letter" \in Kind /\ Listening(Peer(r)) \in Addr
  BY Addresses, RouterPeer DEF Kind
<1>5. Message("letter", [from |-> r, n |-> sent[r] + 1], Listening(Peer(r))) \in Carried
  BY <1>3, <1>4, NewMessage
<1>6. /\ sent' \in [Router -> Nat] /\ \A k \in Router : sent'[k] <= MaxSends[k]
      /\ \A k \in Router : sent'[k] = IF k = r THEN sent[r] + 1 ELSE sent[k]
  BY <1>1, <1>2
<1>. QED
  BY <1>3, <1>5, <1>6

LEMMA AnswerTypes ==
    ASSUME TypeOK, NEW r \in Router, NEW w \in due[r]
    PROVE  /\ w \in Carried /\ w.kind = "letter" /\ w.back \in Addr /\ w.letter \in Letter
           /\ Message("answer", w.letter, w.back) \in Carried
<1>1. w \in Answerable
  BY DEF TypeOK
<1>2. w \in Carried /\ w.kind = "letter" /\ w.back \in Addr /\ w.letter \in Letter
  BY <1>1, MessageFields DEF Answerable
<1>. QED
  BY <1>2, NewMessage DEF Kind

\* What is at the head of a pipe, and the message that is made of it.
LEMMA FirstFields ==
    ASSUME TypeOK, NEW r \in Router, NEW p \in DOMAIN pipes, pipes[p].wire[r] # <<>>,
           First(r, p) # Announcement
    PROVE  /\ First(r, p) \in Carried /\ First(r, p) = pipes[p].wire[r][1]
           /\ 1 \in DOMAIN pipes[p].wire[r]
           /\ Addressed(First(r, p), Local(r, p)) \in Carried
           /\ Addressed(First(r, p), Local(r, p)).letter = First(r, p).letter
           /\ Addressed(First(r, p), Local(r, p)).kind = First(r, p).kind
           /\ Addressed(First(r, p), Local(r, p)).back # NoAddr
<1>1. pipes \in Seq(Pipe) /\ pipes[p].wire[r] \in Seq(Written)
  BY PipeFields DEF TypeOK
<1>2. /\ First(r, p) \in Written /\ First(r, p) = pipes[p].wire[r][1]
      /\ 1 \in DOMAIN pipes[p].wire[r]
  BY <1>1, Tailed DEF First
<1>3. First(r, p) \in Carried
  BY <1>2 DEF Written
<1>4. Local(r, p) \in Addr /\ Local(r, p) # NoAddr
  BY Addresses
<1>. QED
  BY <1>2, <1>3, <1>4, AddressedFields

LEMMA TypeOKInv ==
    ASSUME TypeOK, Routes, Next
    PROVE  TypeOK'
<1>0. /\ life \in [Router -> {"up", "deaf", "stuck"}]
      /\ nEps \in [Router -> SUBSET Addr] /\ \A r \in Router : \A a \in nEps[r] : a.of = r
      /\ sent \in [Router -> Nat] /\ \A r \in Router : sent[r] <= MaxSends[r]
      /\ routes \in [Router -> [Addr -> Seq(DOMAIN pipes)]]
      /\ known \in [Router -> SUBSET DOMAIN pipes]
      /\ waiting \in [Router -> [Addr -> Seq(Carried)]]
      /\ dials \in [Router -> Seq(Addr)]
      /\ pipes \in Seq(Pipe) /\ Len(pipes) <= MaxPipes
      /\ due \in [Router -> SUBSET Answerable]
      /\ arrived \in [Letter -> Nat] /\ answered \in [Letter -> Nat]
      /\ bare \subseteq Letter /\ early \subseteq Letter /\ late \subseteq Letter
  BY DEF TypeOK
<1>. USE DEF traffic, outcomeVars
<1>1. ASSUME NEW r \in Router, Listen(r) \/ ListenHangs(r) PROVE TypeOK'
  <2>1. Listening(r) \in Addr /\ Listening(r).of = r
    BY Addresses
  <2>2. CASE Listen(r)
    <3>1. /\ nEps' \in [Router -> SUBSET Addr] /\ \A k \in Router : \A a \in nEps'[k] : a.of = k
      BY <1>0, <2>1, <2>2 DEF Listen
    <3>. QED
      BY <1>0, <2>2, <3>1 DEF Listen, TypeOK
  <2>3. CASE ListenHangs(r)
    <3>1. life' \in [Router -> {"up", "deaf", "stuck"}]
      BY <1>0, <2>3 DEF ListenHangs
    <3>. QED
      BY <1>0, <2>3, <3>1 DEF ListenHangs, TypeOK
  <2>. QED
    BY <1>1, <2>2, <2>3
<1>2. ASSUME NEW r \in Router, Send(r) PROVE TypeOK'
  <2>a. PICK m : m = Message("letter", [from |-> r, n |-> sent[r] + 1], Listening(Peer(r)))
    OBVIOUS
  <2>1. Route(pipes, r, m) /\ UNCHANGED <<life, nEps, routes, known, due>>
    BY <1>2, <2>a DEF Send
  <2>2. m \in Carried /\ sent' \in [Router -> Nat] /\ \A k \in Router : sent'[k] <= MaxSends[k]
    BY <1>2, <2>a, SendTypes
  <2>3. /\ pipes' \in Seq(Pipe) /\ DOMAIN pipes' = DOMAIN pipes /\ Len(pipes') = Len(pipes)
        /\ waiting' \in [Router -> [Addr -> Seq(Carried)]] /\ dials' \in [Router -> Seq(Addr)]
        /\ arrived' \in [Letter -> Nat] /\ answered' \in [Letter -> Nat]
        /\ bare' \subseteq Letter /\ early' \subseteq Letter /\ late' \subseteq Letter
    BY <1>0, <2>1, <2>2, RouteTypes
  <2>. QED
    BY <1>0, <2>1, <2>2, <2>3 DEF TypeOK
<1>3. ASSUME NEW r \in Router, NEW w \in due[r], Answer(r, w) PROVE TypeOK'
  <2>a. PICK m : m = Message("answer", w.letter, w.back)
    OBVIOUS
  <2>1. Route(pipes, r, m) /\ UNCHANGED <<life, nEps, sent, routes, known>>
    BY <1>3, <2>a DEF Answer
  <2>2. m \in Carried /\ due' \in [Router -> SUBSET Answerable]
    BY <1>0, <1>3, <2>a, AnswerTypes DEF Answer
  <2>3. /\ pipes' \in Seq(Pipe) /\ DOMAIN pipes' = DOMAIN pipes /\ Len(pipes') = Len(pipes)
        /\ waiting' \in [Router -> [Addr -> Seq(Carried)]] /\ dials' \in [Router -> Seq(Addr)]
        /\ arrived' \in [Letter -> Nat] /\ answered' \in [Letter -> Nat]
        /\ bare' \subseteq Letter /\ early' \subseteq Letter /\ late' \subseteq Letter
    BY <1>0, <2>1, <2>2, RouteTypes
  <2>. QED
    BY <1>0, <2>1, <2>2, <2>3 DEF TypeOK
<1>4. ASSUME NEW r \in Router, NEW dial \in DOMAIN dials[r], Connect(r, dial) PROVE TypeOK'
  <2>1. /\ pipes' \in Seq(Pipe) /\ Len(pipes') <= MaxPipes /\ DOMAIN pipes \subseteq DOMAIN pipes'
    BY <1>4, ConnectEffect
  <2>2. /\ routes \in [Router -> [Addr -> Seq(DOMAIN pipes')]]
        /\ known \in [Router -> SUBSET DOMAIN pipes']
    <3>1. \A s \in Seq(DOMAIN pipes) : s \in Seq(DOMAIN pipes')
      BY <2>1, SeqMonotonic
    <3>2. ASSUME NEW k \in Router PROVE routes[k] \in [Addr -> Seq(DOMAIN pipes')]
      <4>1. routes[k] \in [Addr -> Seq(DOMAIN pipes)]
        BY <1>0
      <4>2. \A a \in Addr : routes[k][a] \in Seq(DOMAIN pipes')
        BY <3>1, <4>1
      <4>. QED
        BY <4>1, <4>2
    <3>3. routes \in [Router -> [Addr -> Seq(DOMAIN pipes')]]
      BY <1>0, <3>2
    <3>4. known \in [Router -> SUBSET DOMAIN pipes']
      BY <1>0, <2>1
    <3>. QED
      BY <3>3, <3>4
  <2>3. UNCHANGED <<traffic, life, nEps, routes, known>>
    BY <1>4 DEF Connect
  <2>. QED
    BY <1>0, <2>1, <2>2, <2>3 DEF TypeOK
<1>5. ASSUME NEW p \in DOMAIN pipes, Cut(p) PROVE TypeOK'
  <2>1. pipes' \in Seq(Pipe) /\ DOMAIN pipes' = DOMAIN pipes /\ Len(pipes') = Len(pipes)
    BY <1>5, CutEffect
  <2>. QED
    BY <1>0, <1>5, <2>1 DEF Cut, TypeOK
<1>6. ASSUME NEW r \in Router, NEW p \in DOMAIN pipes, RegisterRouteBack(r, p) PROVE TypeOK'
  <2>1. /\ pipes' = Received(r, p) /\ pipes[p].wire[r] # <<>>
        /\ routes' \in [Router -> [Addr -> Seq(DOMAIN pipes)]]
        /\ known' \in [Router -> SUBSET DOMAIN pipes]
        /\ UNCHANGED <<life, nEps, sent, waiting, dials, due, arrived, answered, bare, early, late>>
    BY <1>6, RegisterRouteBackEffect
  <2>2. pipes' \in Seq(Pipe) /\ DOMAIN pipes' = DOMAIN pipes /\ Len(pipes') = Len(pipes)
    BY <2>1, ReceivedEffect
  <2>. QED
    BY <1>0, <2>1, <2>2 DEF TypeOK
<1>7. ASSUME NEW r \in Router, NEW p \in DOMAIN pipes, Receive(r, p) PROVE TypeOK'
  <2>a. PICK m : m = Addressed(First(r, p), Local(r, p))
    OBVIOUS
  <2>1. /\ pipes[p].wire[r] # <<>> /\ First(r, p) # Announcement
        /\ Route(Received(r, p), r, m)
        /\ due' = IF m.kind = "letter" /\ m.to \in nEps[r]
                  THEN [due EXCEPT ![r] = @ \cup {m}] ELSE due
        /\ UNCHANGED <<life, nEps, sent, routes, known>>
    BY <1>7, <2>a DEF Receive, Receives
  <2>2. m \in Carried /\ m.back # NoAddr
    BY <2>1, <2>a, FirstFields
  <2>3. due' \in [Router -> SUBSET Answerable]
    BY <1>0, <2>1, <2>2 DEF Answerable
  <2>4. /\ Received(r, p) \in Seq(Pipe) /\ DOMAIN Received(r, p) = DOMAIN pipes
        /\ Len(Received(r, p)) = Len(pipes)
    BY <2>1, ReceivedEffect
  <2>5. /\ pipes' \in Seq(Pipe) /\ DOMAIN pipes' = DOMAIN pipes /\ Len(pipes') = Len(pipes)
        /\ waiting' \in [Router -> [Addr -> Seq(Carried)]] /\ dials' \in [Router -> Seq(Addr)]
        /\ arrived' \in [Letter -> Nat] /\ answered' \in [Letter -> Nat]
        /\ bare' \subseteq Letter /\ early' \subseteq Letter /\ late' \subseteq Letter
    BY <2>1, <2>2, <2>4, RouteTypes
  <2>. QED
    BY <1>0, <2>1, <2>3, <2>5 DEF TypeOK
<1>8. ASSUME NEW r \in Router, NEW p \in DOMAIN pipes, ReceiveFails(r, p) PROVE TypeOK'
  <2>1. /\ pipes[p].wire[r] # <<>> /\ pipes' = Received(r, p)
        /\ UNCHANGED <<traffic, nEps, routes, known>> /\ life' = [life EXCEPT ![r] = "deaf"]
    BY <1>8 DEF ReceiveFails, Receives
  <2>2. pipes' \in Seq(Pipe) /\ DOMAIN pipes' = DOMAIN pipes /\ Len(pipes') = Len(pipes)
    BY <2>1, ReceivedEffect
  <2>3. life' \in [Router -> {"up", "deaf", "stuck"}]
    BY <1>0, <2>1
  <2>. QED
    BY <1>0, <2>1, <2>2, <2>3 DEF TypeOK
<1>9. ASSUME NEW r \in Router, NEW p \in DOMAIN pipes, Add(r, p) \/ Learn(r, p) \/ Name(r, p) \/ Forget(r, p)
      PROVE  TypeOK'
  <2>1. pipes' \in Seq(Pipe) /\ DOMAIN pipes' = DOMAIN pipes /\ Len(pipes') = Len(pipes)
    <3>1. \E from : \E to \in Stage : Step(r, p, from, to)
      BY <1>9 DEF Add, Learn, Name, Forget, Stage
    <3>. QED
      BY <3>1, StepEffect
  <2>2. UNCHANGED <<traffic, life>>
    BY <1>9 DEF Add, Learn, Name, Forget
  <2>3. known' \in [Router -> SUBSET DOMAIN pipes]
    BY <1>0, <1>9 DEF Add, Learn, Name, Forget
  <2>4. nEps' \in [Router -> SUBSET Addr] /\ \A k \in Router : \A a \in nEps'[k] : a.of = k
    <3>1. Local(r, p) \in Addr /\ Local(r, p).of = r
      BY Addresses
    <3>a. PICK new : new = nEps[r] \cup {Local(r, p)}
      OBVIOUS
    <3>2. nEps' = nEps \/ nEps' = [nEps EXCEPT ![r] = new]
      BY <1>9, <3>a DEF Add, Learn, Name, Forget
    <3>3. nEps[r] \in SUBSET Addr /\ \A a \in nEps[r] : a.of = r
      BY <1>0
    <3>4. new \in SUBSET Addr /\ \A a \in new : a.of = r
      BY <3>1, <3>3, <3>a
    <3>. QED
      BY <1>0, <3>2, <3>4
  <2>5. routes' \in [Router -> [Addr -> Seq(DOMAIN pipes)]]
    <3>1. CASE Add(r, p)
      <4>a. PICK s : s = routes[r][Remote(r, p)]
        OBVIOUS
      <4>b. PICK new : new = IF p \in ToSet(s) THEN s ELSE Append(s, p)
        OBVIOUS
      <4>1. Remote(r, p) \in Addr
        BY Addresses
      <4>2. s \in Seq(DOMAIN pipes)
        BY <1>0, <4>1, <4>a
      <4>3. new \in Seq(DOMAIN pipes)
        <5>1. Append(s, p) \in Seq(DOMAIN pipes)
          BY <4>2, Appended
        <5>. QED
          BY <4>2, <4>b, <5>1
      <4>4. routes' = [routes EXCEPT ![r][Remote(r, p)] = new]
        BY <3>1, <4>a, <4>b DEF Add
      <4>. QED
        BY <1>0, <4>1, <4>3, <4>4, Nested
    <3>2. CASE ~Add(r, p)
      BY <1>0, <1>9, <3>2 DEF Learn, Name, Forget
    <3>. QED
      BY <3>1, <3>2
  <2>. QED
    BY <1>0, <2>1, <2>2, <2>3, <2>4, <2>5 DEF TypeOK
<1>10. ASSUME NEW r \in Router, NEW p \in DOMAIN pipes, Announce(r, p) PROVE TypeOK'
  <2>1. PICK g \in Nat, ms \in Seq(Written) : AnnouncedTo(r, p, g, ms)
    BY <1>10, AnnounceEffect
  <2>2. /\ pipes' \in Seq(Pipe) /\ DOMAIN pipes' = DOMAIN pipes /\ Len(pipes') = Len(pipes)
        /\ waiting' \in [Router -> [Addr -> Seq(Carried)]]
        /\ UNCHANGED <<life, nEps, sent, routes, known, dials, due, arrived, answered, bare, early, late>>
    BY <2>1 DEF AnnouncedTo
  <2>. QED
    BY <1>0, <2>2 DEF TypeOK
<1>. QED
  BY <1>1, <1>2, <1>3, <1>4, <1>5, <1>6, <1>7, <1>8, <1>9, <1>10
     DEF Next, Agents, SockRecv, Callback

(***************************************************************************)
(* What is on the pipes                                                    *)
(***************************************************************************)

\* What is on a pipe after a Put was there, or is among what has been put.
LEMMA PutPositions ==
    ASSUME NEW ps \in Seq(Pipe), NEW p \in DOMAIN ps, NEW r \in Router, NEW ms \in Seq(Written),
           NEW q \in DOMAIN ps, NEW k \in Router, NEW i \in DOMAIN Put(ps, p, r, ms)[q].wire[k]
    PROVE  \/ /\ i \in DOMAIN ps[q].wire[k]
              /\ Put(ps, p, r, ms)[q].wire[k][i] = ps[q].wire[k][i]
           \/ /\ q = p /\ k = Peer(r) /\ i \notin DOMAIN ps[p].wire[k]
              /\ i \in Nat /\ Len(ps[p].wire[k]) \in Nat /\ i - Len(ps[p].wire[k]) \in DOMAIN ms
              /\ Put(ps, p, r, ms)[q].wire[k][i] = ms[i - Len(ps[p].wire[k])]
<1>a. PICK new : new = Put(ps, p, r, ms)
  OBVIOUS
<1>1. /\ \A j \in DOMAIN ps : j # p => new[j] = ps[j]
      /\ new[p].wire[r] = ps[p].wire[r]
      /\ new[p].wire[Peer(r)] = ps[p].wire[Peer(r)] \o ms
  <2>1. /\ \A j \in DOMAIN ps : j # p => Put(ps, p, r, ms)[j] = ps[j]
        /\ Put(ps, p, r, ms)[p].wire[r] = ps[p].wire[r]
        /\ Put(ps, p, r, ms)[p].wire[Peer(r)] = ps[p].wire[Peer(r)] \o ms
    BY PutEffect
  <2>. QED
    BY <2>1, <1>a
<1>2. i \in DOMAIN new[q].wire[k]
  BY <1>a
<1>3. k = r \/ k = Peer(r)
  BY RouterPeer
<1>4. CASE q = p /\ k = Peer(r)
  <2>a. PICK s : s = ps[p].wire[k]
    OBVIOUS
  <2>1. s \in Seq(Written) /\ Len(s) \in Nat
    BY <2>a, PipeFields
  <2>2. /\ \A j \in DOMAIN (s \o ms) : (s \o ms)[j] = IF j \in DOMAIN s THEN s[j] ELSE ms[j - Len(s)]
        /\ \A j \in DOMAIN (s \o ms) : j \notin DOMAIN s => j - Len(s) \in DOMAIN ms
        /\ DOMAIN (s \o ms) = 1..(Len(s) + Len(ms))
    BY <2>1, Joined
  <2>3. new[q].wire[k] = s \o ms
    BY <1>1, <1>4, <2>a
  <2>4. i \in DOMAIN (s \o ms) /\ i \in Nat
    BY <1>2, <2>2, <2>3
  <2>. QED
    BY <1>4, <1>a, <2>1, <2>2, <2>3, <2>4, <2>a
<1>5. CASE ~(q = p /\ k = Peer(r))
  BY <1>1, <1>2, <1>3, <1>5, <1>a
<1>. QED
  BY <1>4, <1>5

\* What is on a pipe after m has been routed was there, or comes from the accumulator,
\* or is the last message written.
IsWritten(ps, r, m, p, last, q, k, i) ==
    LET box == waiting[r][m.to]
        n == Len(ps[p].wire[Peer(r)])
    IN  \/ /\ i \in DOMAIN ps[q].wire[k]
           /\ pipes'[q].wire[k][i] = ps[q].wire[k][i]
        \/ /\ q = p /\ k = Peer(r) /\ i \in Nat /\ n \in Nat /\ i \notin DOMAIN ps[q].wire[k]
           /\ i - n \in DOMAIN box /\ pipes'[q].wire[k][i] = box[i - n]
        \/ /\ q = p /\ k = Peer(r) /\ i \in Nat /\ n \in Nat /\ i \notin DOMAIN ps[q].wire[k]
           /\ i = n + Len(box) + 1 /\ pipes'[q].wire[k][i] = last

LEMMA RoutePositions ==
    ASSUME TypeOK, NEW r \in Router, NEW ps \in Seq(Pipe), DOMAIN ps = DOMAIN pipes,
           NEW m \in Carried, NEW p \in DOMAIN pipes, NEW last \in Carried,
           WrittenTo(ps, r, m, p, last)
    PROVE  \A q \in DOMAIN pipes, k \in Router : \A i \in DOMAIN pipes'[q].wire[k] :
                IsWritten(ps, r, m, p, last, q, k, i)
<1>. TAKE q \in DOMAIN pipes, k \in Router
<1>. TAKE i \in DOMAIN pipes'[q].wire[k]
<1>a. PICK box : box = waiting[r][m.to]
  OBVIOUS
<1>b. PICK ms : ms = Append(box, last)
  OBVIOUS
<1>c. PICK n : n = Len(ps[p].wire[Peer(r)])
  OBVIOUS
<1>1. box \in Seq(Carried) /\ ms \in Seq(Written) /\ pipes' = Put(ps, p, r, ms)
  BY <1>a, <1>b DEF WrittenTo
<1>2. /\ DOMAIN ms = DOMAIN box \cup {Len(box) + 1} /\ ms[Len(box) + 1] = last
      /\ \A j \in DOMAIN box : ms[j] = box[j]
      /\ Len(box) \in Nat
  BY <1>1, <1>b, Appended
<1>3. \/ /\ i \in DOMAIN ps[q].wire[k]
         /\ pipes'[q].wire[k][i] = ps[q].wire[k][i]
      \/ /\ q = p /\ k = Peer(r) /\ i \notin DOMAIN ps[p].wire[k]
         /\ i \in Nat /\ n \in Nat /\ i - n \in DOMAIN ms
         /\ pipes'[q].wire[k][i] = ms[i - n]
  <2>a. PICK new : new = Put(ps, p, r, ms)
    OBVIOUS
  <2>1. q \in DOMAIN ps /\ p \in DOMAIN ps /\ ms \in Seq(Written) /\ i \in DOMAIN new[q].wire[k]
    BY <1>1, <2>a
  <2>2. \/ /\ i \in DOMAIN ps[q].wire[k]
           /\ new[q].wire[k][i] = ps[q].wire[k][i]
        \/ /\ q = p /\ k = Peer(r) /\ i \notin DOMAIN ps[p].wire[k]
           /\ i \in Nat /\ Len(ps[p].wire[k]) \in Nat /\ i - Len(ps[p].wire[k]) \in DOMAIN ms
           /\ new[q].wire[k][i] = ms[i - Len(ps[p].wire[k])]
    BY <2>1, <2>a, PutPositions
  <2>. QED
    BY <1>1, <1>c, <2>2, <2>a
<1>4. i \in Nat /\ n \in Nat /\ i - n = Len(box) + 1 => i = n + Len(box) + 1
  <2>1. ASSUME NEW l \in Nat, i \in Nat, n \in Nat, i - n = l + 1 PROVE i = n + l + 1
    BY <2>1
  <2>. QED
    BY <1>2, <2>1
<1>. QED
  BY <1>2, <1>3, <1>4, <1>a, <1>c DEF IsWritten

\* A message that is routed leaves the state of the pipes alone, and announcements.
LEMMA RouteUnwired ==
    ASSUME TypeOK, NEW r \in Router, NEW ps \in Seq(Pipe), DOMAIN ps = DOMAIN pipes,
           NEW m \in Carried, Route(ps, r, m), NEW q \in DOMAIN pipes
    PROVE  /\ Unwired(pipes'[q], ps[q])
           /\ \A k \in Router : \A i \in DOMAIN pipes'[q].wire[k] :
                pipes'[q].wire[k][i] = Announcement =>
                    i \in DOMAIN ps[q].wire[k] /\ ps[q].wire[k][i] = Announcement
<1>1. CASE pipes' = ps
  BY <1>1 DEF Unwired
<1>2. CASE RouteByPipe(ps, r, m)
  <2>1. PICK p \in DOMAIN pipes, last \in Carried : WrittenTo(ps, r, m, p, last)
    BY <1>2, RouteByPipeEffect
  <2>a. PICK ms : ms = Append(waiting[r][m.to], last)
    OBVIOUS
  <2>2. ms \in Seq(Written) /\ pipes' = Put(ps, p, r, ms)
    BY <2>1, <2>a DEF WrittenTo
  <2>3. Unwired(pipes'[q], ps[q])
    <3>1. /\ \A j \in DOMAIN ps : j # p => Put(ps, p, r, ms)[j] = ps[j]
          /\ Unwired(Put(ps, p, r, ms)[p], ps[p])
      BY <2>2, PutEffect
    <3>. QED
      BY <2>2, <3>1 DEF Unwired
  <2>4. ASSUME NEW k \in Router, NEW i \in DOMAIN pipes'[q].wire[k],
               pipes'[q].wire[k][i] = Announcement
        PROVE  i \in DOMAIN ps[q].wire[k] /\ ps[q].wire[k][i] = Announcement
    <3>a. PICK box : box = waiting[r][m.to]
      OBVIOUS
    <3>1. box \in Seq(Carried)
      BY <2>1, <3>a DEF WrittenTo
    <3>2. \A j \in DOMAIN box : box[j] # Announcement
      <4>1. \A j \in DOMAIN box : box[j] \in Carried
        BY <3>1
      <4>. QED
        BY <4>1, MessageFields
    <3>3. last # Announcement
      BY MessageFields
    <3>4. \/ /\ i \in DOMAIN ps[q].wire[k]
             /\ pipes'[q].wire[k][i] = ps[q].wire[k][i]
          \/ \E j \in DOMAIN box : pipes'[q].wire[k][i] = box[j]
          \/ pipes'[q].wire[k][i] = last
      <4>1. IsWritten(ps, r, m, p, last, q, k, i)
        BY <2>1, RoutePositions
      <4>. QED
        BY <4>1, <3>a DEF IsWritten
    <3>. QED
      BY <2>4, <3>2, <3>3, <3>4
  <2>. QED
    BY <2>3, <2>4
<1>. QED
  BY <1>1, <1>2 DEF Route, Deliver, RouteLater

\* What is on a pipe after its first message has been taken.
LEMMA ReceivedPositions ==
    ASSUME TypeOK, NEW p \in DOMAIN pipes, NEW r \in Router, pipes[p].wire[r] # <<>>,
           NEW q \in DOMAIN pipes, NEW k \in Router, NEW i \in DOMAIN Received(r, p)[q].wire[k]
    PROVE  IF q = p /\ k = r
           THEN /\ i \in Nat \ {0} /\ i + 1 \in DOMAIN pipes[q].wire[k]
                /\ Received(r, p)[q].wire[k][i] = pipes[q].wire[k][i + 1]
           ELSE /\ i \in DOMAIN pipes[q].wire[k]
                /\ Received(r, p)[q].wire[k][i] = pipes[q].wire[k][i]
<1>a. PICK new : new = Received(r, p)
  OBVIOUS
<1>1. /\ \A j \in DOMAIN pipes : j # p => new[j] = pipes[j]
      /\ new[p].wire[r] = Tail(pipes[p].wire[r])
      /\ new[p].wire[Peer(r)] = pipes[p].wire[Peer(r)]
  BY <1>a, ReceivedEffect
<1>2. i \in DOMAIN new[q].wire[k]
  BY <1>a
<1>3. k = r \/ k = Peer(r)
  BY RouterPeer
<1>4. CASE q = p /\ k = r
  <2>1. pipes[p].wire[r] \in Seq(Written)
    BY PipeFields DEF TypeOK
  <2>2. /\ \A j \in DOMAIN Tail(pipes[p].wire[r]) :
                /\ j \in Nat /\ j + 1 \in DOMAIN pipes[p].wire[r]
                /\ Tail(pipes[p].wire[r])[j] = pipes[p].wire[r][j + 1]
        /\ Tail(pipes[p].wire[r]) \in Seq(Written)
    BY <2>1, Tailed
  <2>3. i \in DOMAIN Tail(pipes[p].wire[r]) /\ i # 0
    <3>1. i \in DOMAIN Tail(pipes[p].wire[r])
      BY <1>1, <1>2, <1>4
    <3>2. DOMAIN Tail(pipes[p].wire[r]) = 1..Len(Tail(pipes[p].wire[r]))
      BY <2>2
    <3>. QED
      BY <3>1, <3>2
  <2>. QED
    BY <1>1, <1>4, <1>a, <2>2, <2>3
<1>5. CASE ~(q = p /\ k = r)
  BY <1>1, <1>2, <1>3, <1>5, <1>a
<1>. QED
  BY <1>4, <1>5

(***************************************************************************)
(* Pipes, callbacks and routes                                             *)
(***************************************************************************)

LEMMA StageKept ==
    ASSUME Stages, NEW q \in DOMAIN pipes,
           pipes'[q].dialer = pipes[q].dialer, pipes'[q].pc = pipes[q].pc,
           \A k \in Router : nEps[k] \subseteq nEps'[k],
           pipes[q].dialer \in Router,
           q \in known'[pipes[q].dialer] => q \in known[pipes[q].dialer]
    PROVE  StagesOf(q)'
<1>1. StagesOf(q) /\ Peer(pipes[q].dialer) \in Router
  BY RouterPeer DEF Stages
<1>. QED
  BY <1>1 DEF StagesOf, Local

\* The messages that come and go leave the callbacks alone.
LEMMA Messages ==
    ASSUME TypeOK, NEW r \in Router,
           \/ Send(r) \/ \E w \in due[r] : Answer(r, w)
           \/ \E p \in DOMAIN pipes : Receive(r, p) \/ ReceiveFails(r, p)
    PROVE  /\ DOMAIN pipes' = DOMAIN pipes /\ UNCHANGED <<nEps, routes, known>>
           /\ \A q \in DOMAIN pipes : Unwired(pipes'[q], pipes[q])
           /\ \A q \in DOMAIN pipes, k \in Router : \A i \in DOMAIN pipes'[q].wire[k] :
                pipes'[q].wire[k][i] = Announcement =>
                    \E j \in DOMAIN pipes[q].wire[k] : pipes[q].wire[k][j] = Announcement
<1>0. pipes \in Seq(Pipe)
  BY DEF TypeOK
<1>. DEFINE Calm(ps) == /\ DOMAIN ps = DOMAIN pipes
                        /\ \A q \in DOMAIN pipes : Unwired(ps[q], pipes[q])
            Heard(ps) == \A q \in DOMAIN pipes, k \in Router : \A i \in DOMAIN ps[q].wire[k] :
                ps[q].wire[k][i] = Announcement =>
                    \E j \in DOMAIN pipes[q].wire[k] : pipes[q].wire[k][j] = Announcement
<1>1. ASSUME NEW ps \in Seq(Pipe), NEW m \in Carried, Route(ps, r, m), Len(ps) = Len(pipes),
             Calm(ps), Heard(ps)
      PROVE  Calm(pipes') /\ Heard(pipes')
  <2>1. DOMAIN ps = DOMAIN pipes
    BY <1>1
  <2>2. \A q \in DOMAIN pipes :
            /\ Unwired(pipes'[q], ps[q])
            /\ \A k \in Router : \A i \in DOMAIN pipes'[q].wire[k] :
                pipes'[q].wire[k][i] = Announcement =>
                    i \in DOMAIN ps[q].wire[k] /\ ps[q].wire[k][i] = Announcement
    BY <1>1, <2>1, RouteUnwired
  <2>3. DOMAIN pipes' = DOMAIN pipes
    BY <1>1, <2>1, RouteTypes
  <2>4. Calm(pipes')
    BY <1>1, <2>2, <2>3 DEF Unwired
  <2>5. Heard(pipes')
    BY <1>1, <2>2
  <2>. QED
    BY <2>4, <2>5
<1>2. ASSUME NEW p \in DOMAIN pipes, pipes[p].wire[r] # <<>>
      PROVE  /\ Received(r, p) \in Seq(Pipe) /\ Len(Received(r, p)) = Len(pipes)
             /\ Calm(Received(r, p)) /\ Heard(Received(r, p))
  <2>a. PICK ps : ps = Received(r, p)
    OBVIOUS
  <2>1. /\ ps \in Seq(Pipe) /\ DOMAIN ps = DOMAIN pipes /\ Len(ps) = Len(pipes)
        /\ \A q \in DOMAIN pipes : q # p => ps[q] = pipes[q]
        /\ Unwired(ps[p], pipes[p])
    <3>1. /\ Received(r, p) \in Seq(Pipe)
          /\ DOMAIN Received(r, p) = DOMAIN pipes /\ Len(Received(r, p)) = Len(pipes)
          /\ \A q \in DOMAIN pipes : q # p => Received(r, p)[q] = pipes[q]
          /\ Unwired(Received(r, p)[p], pipes[p])
      BY <1>2, ReceivedEffect
    <3>. QED
      BY <2>a, <3>1
  <2>2. Calm(ps)
    BY <2>1 DEF Unwired
  <2>3. Heard(ps)
    <3>1. SUFFICES ASSUME NEW q \in DOMAIN pipes, NEW k \in Router, NEW i \in DOMAIN ps[q].wire[k]
                   PROVE  \E j \in DOMAIN pipes[q].wire[k] : ps[q].wire[k][i] = pipes[q].wire[k][j]
      OBVIOUS
    <3>2. IF q = p /\ k = r
          THEN /\ i \in Nat \ {0} /\ i + 1 \in DOMAIN pipes[q].wire[k]
               /\ ps[q].wire[k][i] = pipes[q].wire[k][i + 1]
          ELSE /\ i \in DOMAIN pipes[q].wire[k]
               /\ ps[q].wire[k][i] = pipes[q].wire[k][i]
      BY <1>2, <2>a, ReceivedPositions
    <3>. QED
      BY <3>2
  <2>. QED
    BY <2>1, <2>2, <2>3, <2>a
<1>3. Calm(pipes) /\ Heard(pipes)
  BY DEF Unwired
<1>. HIDE DEF Calm, Heard
<1>4. CASE Send(r)
  <2>a. PICK m : m = Message("letter", [from |-> r, n |-> sent[r] + 1], Listening(Peer(r)))
    OBVIOUS
  <2>1. m \in Carried /\ Route(pipes, r, m) /\ UNCHANGED <<nEps, routes, known>>
    BY <1>4, <2>a, SendTypes DEF Send
  <2>2. Calm(pipes') /\ Heard(pipes')
    BY <1>0, <1>1, <1>3, <2>1
  <2>. QED
    BY <2>1, <2>2 DEF Calm, Heard
<1>5. CASE \E w \in due[r] : Answer(r, w)
  <2>0. PICK w \in due[r] : Answer(r, w)
    BY <1>5
  <2>a. PICK m : m = Message("answer", w.letter, w.back)
    OBVIOUS
  <2>1. m \in Carried /\ Route(pipes, r, m) /\ UNCHANGED <<nEps, routes, known>>
    BY <2>0, <2>a, AnswerTypes DEF Answer
  <2>2. Calm(pipes') /\ Heard(pipes')
    BY <1>0, <1>1, <1>3, <2>1
  <2>. QED
    BY <2>1, <2>2 DEF Calm, Heard
<1>6. CASE \E p \in DOMAIN pipes : Receive(r, p) \/ ReceiveFails(r, p)
  <2>0. PICK p \in DOMAIN pipes : Receive(r, p) \/ ReceiveFails(r, p)
    BY <1>6
  <2>1. /\ pipes[p].wire[r] # <<>> /\ First(r, p) # Announcement
        /\ UNCHANGED <<nEps, routes, known>>
    BY <2>0 DEF Receive, ReceiveFails, Receives
  <2>a. PICK m : m = Addressed(First(r, p), Local(r, p))
    OBVIOUS
  <2>2. m \in Carried
    BY <2>1, <2>a, FirstFields
  <2>3. pipes' = Received(r, p) \/ Route(Received(r, p), r, m)
    BY <2>0, <2>a DEF Receive, ReceiveFails
  <2>4. Calm(pipes') /\ Heard(pipes')
    BY <1>1, <1>2, <2>1, <2>2, <2>3
  <2>. QED
    BY <2>1, <2>4 DEF Calm, Heard
<1>. QED
  BY <1>4, <1>5, <1>6

LEMMA StagesInv ==
    ASSUME TypeOK, Stages, DialersAnnounce, Routes, Next
    PROVE  Stages'
<1>0. /\ pipes \in Seq(Pipe) /\ nEps \in [Router -> SUBSET Addr]
      /\ known \in [Router -> SUBSET DOMAIN pipes]
      /\ \A q \in DOMAIN pipes : pipes[q].dialer \in Router /\ pipes[q].pc \in [Router -> Stage]
  BY PipeFields DEF TypeOK
<1>1. ASSUME NEW r \in Router, Listen(r) \/ ListenHangs(r) PROVE Stages'
  <2>1. UNCHANGED <<pipes, known>> /\ \A k \in Router : nEps[k] \subseteq nEps'[k]
    BY <1>0, <1>1 DEF Listen, ListenHangs
  <2>2. ASSUME NEW q \in DOMAIN pipes PROVE StagesOf(q)'
    BY <1>0, <2>1, StageKept
  <2>. QED
    BY <2>1, <2>2 DEF Stages
<1>2. ASSUME NEW r \in Router,
             \/ Send(r) \/ \E w \in due[r] : Answer(r, w)
             \/ \E p \in DOMAIN pipes : Receive(r, p) \/ ReceiveFails(r, p)
      PROVE  Stages'
  <2>1. /\ DOMAIN pipes' = DOMAIN pipes /\ UNCHANGED <<nEps, known>>
        /\ \A q \in DOMAIN pipes : Unwired(pipes'[q], pipes[q])
    BY <1>2, Messages
  <2>2. ASSUME NEW q \in DOMAIN pipes PROVE StagesOf(q)'
    <3>1. pipes'[q].dialer = pipes[q].dialer /\ pipes'[q].pc = pipes[q].pc
      BY <2>1 DEF Unwired
    <3>. QED
      BY <1>0, <2>1, <3>1, StageKept
  <2>. QED
    BY <2>1, <2>2 DEF Stages
<1>3. ASSUME NEW r \in Router, NEW dial \in DOMAIN dials[r], Connect(r, dial) PROVE Stages'
  <2>a. PICK p : p = Len(pipes) + 1
    OBVIOUS
  <2>1. /\ p \notin DOMAIN pipes /\ DOMAIN pipes' = DOMAIN pipes \cup {p}
        /\ \A q \in DOMAIN pipes : pipes'[q] = pipes[q]
        /\ pipes'[p].dialer = r /\ Listening(Peer(r)) \in nEps[Peer(r)]
        /\ \A k \in Router : pipes'[p].pc[k] = "add"
    BY <1>3, <2>a, ConnectEffect
  <2>2. UNCHANGED <<nEps, known>>
    BY <1>3 DEF Connect
  <2>3. ASSUME NEW q \in DOMAIN pipes PROVE StagesOf(q)'
    BY <1>0, <2>1, <2>2, StageKept
  <2>4. StagesOf(p)'
    <3>1. p \notin known'[r] /\ Peer(r) \in Router
      BY <1>0, <2>1, <2>2, RouterPeer
    <3>. QED
      BY <2>1, <2>2, <3>1 DEF StagesOf
  <2>. QED
    BY <2>1, <2>3, <2>4 DEF Stages
<1>4. ASSUME NEW p \in DOMAIN pipes, Cut(p) PROVE Stages'
  <2>1. /\ DOMAIN pipes' = DOMAIN pipes /\ \A q \in DOMAIN pipes : q # p => pipes'[q] = pipes[q]
        /\ Unstaged(pipes'[p], pipes[p]) /\ pipes'[p].pc = pipes[p].pc
        /\ UNCHANGED <<nEps, known>>
    BY <1>4, CutEffect DEF Cut
  <2>2. ASSUME NEW q \in DOMAIN pipes PROVE StagesOf(q)'
    <3>1. pipes'[q].dialer = pipes[q].dialer /\ pipes'[q].pc = pipes[q].pc
      BY <2>1 DEF Unstaged
    <3>. QED
      BY <1>0, <2>1, <3>1, StageKept
  <2>. QED
    BY <2>1, <2>2 DEF Stages
<1>5. ASSUME NEW r \in Router, NEW p \in DOMAIN pipes, RegisterRouteBack(r, p) PROVE Stages'
  <2>1. /\ pipes' = Received(r, p) /\ pipes[p].wire[r] # <<>>
        /\ Head(pipes[p].wire[r]) = Announcement
        /\ known'[r] = known[r] \cup {p} /\ known'[Peer(r)] = known[Peer(r)]
        /\ nEps' = nEps
    BY <1>5, RegisterRouteBackEffect
  <2>2. /\ DOMAIN pipes' = DOMAIN pipes /\ \A q \in DOMAIN pipes : q # p => pipes'[q] = pipes[q]
        /\ Unwired(pipes'[p], pipes[p])
    BY <2>1, ReceivedEffect
  <2>3. pipes[p].dialer = Peer(r)
    <3>1. pipes[p].wire[r] \in Seq(Written)
      BY <1>0, PipeFields
    <3>2. 1 \in DOMAIN pipes[p].wire[r] /\ pipes[p].wire[r][1] = Announcement
      BY <2>1, <3>1, Tailed
    <3>. QED
      BY <3>2 DEF DialersAnnounce
  <2>4. ASSUME NEW q \in DOMAIN pipes PROVE StagesOf(q)'
    <3>1. pipes'[q].dialer = pipes[q].dialer /\ pipes'[q].pc = pipes[q].pc
      BY <2>2 DEF Unwired
    <3>2. q \in known'[pipes[q].dialer] => q \in known[pipes[q].dialer]
      BY <1>0, <2>1, <2>3, RouterPeer
    <3>. QED
      BY <1>0, <2>1, <3>1, <3>2, StageKept
  <2>. QED
    BY <2>2, <2>4 DEF Stages
<1>6. ASSUME NEW r \in Router, NEW p \in DOMAIN pipes, Add(r, p) \/ Learn(r, p) \/ Name(r, p) \/ Forget(r, p)
      PROVE  Stages'
  <2>1. PICK from, to \in Stage :
            /\ Step(r, p, from, to)
            /\ \/ from = "add" /\ to = "learn" /\ UNCHANGED <<nEps, known>>
               \/ /\ from = "learn" /\ to = IF pipes[p].dialer = r THEN "name" ELSE "done"
                  /\ known' = [known EXCEPT ![r] = @ \cup {p}] /\ UNCHANGED nEps
               \/ /\ from = "name" /\ to = "announce" /\ UNCHANGED known
                  /\ nEps' = [nEps EXCEPT ![r] = @ \cup {Local(r, p)}]
               \/ /\ from = "done" /\ to = "gone" /\ UNCHANGED nEps
                  /\ known' = [known EXCEPT ![r] = @ \ {p}]
    BY <1>6 DEF Add, Learn, Name, Forget, Stage
  <2>2. /\ pipes[p].pc[r] = from
        /\ DOMAIN pipes' = DOMAIN pipes /\ \A q \in DOMAIN pipes : q # p => pipes'[q] = pipes[q]
        /\ Unstaged(pipes'[p], pipes[p])
        /\ pipes'[p].pc[r] = to /\ pipes'[p].pc[Peer(r)] = pipes[p].pc[Peer(r)]
    BY <2>1, StepEffect
  <2>3. /\ \A k \in Router : nEps[k] \subseteq nEps'[k]
        /\ \A k \in Router, q \in DOMAIN pipes : q # p => (q \in known'[k] => q \in known[k])
    BY <1>0, <2>1
  <2>4. ASSUME NEW q \in DOMAIN pipes, q # p PROVE StagesOf(q)'
    BY <1>0, <2>2, <2>3, <2>4, StageKept
  <2>5. StagesOf(p)'
    <3>a. PICK d : d = pipes[p].dialer
      OBVIOUS
    <3>1. d \in Router /\ pipes'[p].dialer = d /\ (d = r \/ d = Peer(r)) /\ Peer(d) \in Router
          /\ Peer(d) # d /\ (d # r => Peer(d) = r) /\ (d = r => Peer(d) = Peer(r))
      BY <1>0, <2>2, <3>a, RouterPeer DEF Unstaged
    <3>2. /\ Listening(Peer(d)) \in nEps[Peer(d)] /\ pipes[p].pc[Peer(d)] \notin {"name", "announce"}
          /\ p \in known[d] => pipes[p].pc[d] \notin {"add", "learn"}
          /\ pipes[p].pc[d] \in {"announce", "done", "gone"} => Local(d, p) \in nEps[d]
      BY <3>a DEF Stages, StagesOf
    <3>3. Local(d, p)' = Local(d, p)
      BY <2>2 DEF Local, Unstaged
    <3>4. Listening(Peer(d)) \in nEps'[Peer(d)]
      BY <2>3, <3>1, <3>2
    <3>5. pipes'[p].pc[Peer(d)] \notin {"name", "announce"}
      BY <2>1, <2>2, <3>1, <3>2, <3>a
    <3>6. p \in known'[d] => pipes'[p].pc[d] \notin {"add", "learn"}
      <4>1. CASE d = r
        <5>1. p \in known[r] => pipes[p].pc[r] \notin {"add", "learn"}
          BY <3>2, <4>1
        <5>. QED
          BY <1>0, <2>1, <2>2, <4>1, <3>a, <5>1
      <4>2. CASE d # r
        <5>1. known'[d] = known[d] /\ pipes'[p].pc[d] = pipes[p].pc[d]
          BY <1>0, <2>1, <2>2, <3>1, <4>2
        <5>. QED
          BY <3>2, <5>1
      <4>. QED
        BY <4>1, <4>2
    <3>7. pipes'[p].pc[d] \in {"announce", "done", "gone"} => Local(d, p) \in nEps'[d]
      <4>1. CASE d = r
        <5>1. from = "name" => Local(r, p) \in nEps'[r]
          BY <1>0, <2>1
        <5>2. from = "learn" => to = "name"
          BY <2>1, <4>1, <3>a
        <5>3. from = "done" => Local(r, p) \in nEps'[r]
          BY <2>2, <2>3, <3>2, <4>1
        <5>. QED
          BY <2>1, <2>2, <4>1, <5>1, <5>2, <5>3
      <4>2. CASE d # r
        <5>1. nEps[d] \subseteq nEps'[d] /\ pipes'[p].pc[d] = pipes[p].pc[d]
          BY <2>2, <2>3, <3>1, <4>2
        <5>. QED
          BY <3>2, <5>1
      <4>. QED
        BY <4>1, <4>2
    <3>. QED
      BY <3>1, <3>3, <3>4, <3>5, <3>6, <3>7 DEF StagesOf
  <2>. QED
    BY <2>2, <2>4, <2>5 DEF Stages
<1>7. ASSUME NEW r \in Router, NEW p \in DOMAIN pipes, Announce(r, p) PROVE Stages'
  <2>1. PICK g \in Nat, ms \in Seq(Written) : AnnouncedTo(r, p, g, ms)
    BY <1>7, AnnounceEffect
  <2>2. /\ pipes[p].pc[r] = "announce"
        /\ DOMAIN pipes' = DOMAIN pipes /\ \A q \in DOMAIN pipes : q # p => pipes'[q] = pipes[q]
        /\ pipes'[p].dialer = pipes[p].dialer
        /\ pipes'[p].pc[r] = "done" /\ pipes'[p].pc[Peer(r)] = pipes[p].pc[Peer(r)]
        /\ UNCHANGED <<nEps, known>>
    BY <2>1 DEF AnnouncedTo
  <2>3. ASSUME NEW q \in DOMAIN pipes, q # p PROVE StagesOf(q)'
    BY <1>0, <2>2, <2>3, StageKept
  <2>4. StagesOf(p)'
    <3>1. StagesOf(p) /\ pipes[p].dialer \in Router
      BY <1>0 DEF Stages
    <3>2. pipes[p].dialer = r
      BY <2>2, <3>1, RouterPeer DEF StagesOf
    <3>3. Local(r, p)' = Local(r, p)
      BY <2>2 DEF Local
    <3>. QED
      BY <2>2, <3>1, <3>2, <3>3 DEF StagesOf
  <2>. QED
    BY <2>2, <2>3, <2>4 DEF Stages
<1>. QED
  BY <1>1, <1>2, <1>3, <1>4, <1>5, <1>6, <1>7 DEF Next, Agents, SockRecv, Callback

LEMMA DialersAnnounceInv ==
    ASSUME TypeOK, Stages, DialersAnnounce, Routes, Next
    PROVE  DialersAnnounce'
<1>0. pipes \in Seq(Pipe) /\ \A q \in DOMAIN pipes : pipes[q].dialer \in Router
  BY PipeFields DEF TypeOK
<1>. DEFINE Heard(q) == \A k \in Router : \A i \in DOMAIN pipes'[q].wire[k] :
                pipes'[q].wire[k][i] = Announcement =>
                    \E j \in DOMAIN pipes[q].wire[k] : pipes[q].wire[k][j] = Announcement
<1>1. ASSUME DOMAIN pipes' = DOMAIN pipes,
             \A q \in DOMAIN pipes : pipes'[q].dialer = pipes[q].dialer /\ Heard(q)
      PROVE  DialersAnnounce'
  BY <1>1 DEF DialersAnnounce
<1>2. ASSUME NEW q \in DOMAIN pipes, pipes'[q].wire = pipes[q].wire PROVE Heard(q)
  BY <1>2
<1>. HIDE DEF Heard
<1>3. ASSUME NEW r \in Router, Listen(r) \/ ListenHangs(r) PROVE DialersAnnounce'
  BY <1>3 DEF Listen, ListenHangs, DialersAnnounce
<1>4. ASSUME NEW r \in Router,
             \/ Send(r) \/ \E w \in due[r] : Answer(r, w)
             \/ \E p \in DOMAIN pipes : Receive(r, p) \/ ReceiveFails(r, p)
      PROVE  DialersAnnounce'
  <2>1. /\ DOMAIN pipes' = DOMAIN pipes
        /\ \A q \in DOMAIN pipes : Unwired(pipes'[q], pipes[q])
        /\ \A q \in DOMAIN pipes : Heard(q)
    BY <1>4, Messages DEF Heard
  <2>. QED
    BY <1>1, <2>1 DEF Unwired
<1>5. ASSUME NEW r \in Router, NEW dial \in DOMAIN dials[r], Connect(r, dial)
      PROVE  DialersAnnounce'
  <2>a. PICK p : p = Len(pipes) + 1
    OBVIOUS
  <2>1. /\ DOMAIN pipes' = DOMAIN pipes \cup {p}
        /\ \A q \in DOMAIN pipes : pipes'[q] = pipes[q]
        /\ \A k \in Router : pipes'[p].wire[k] = <<>>
    BY <1>5, <2>a, ConnectEffect
  <2>. QED
    BY <2>1 DEF DialersAnnounce
<1>6. ASSUME NEW p \in DOMAIN pipes, Cut(p) PROVE DialersAnnounce'
  <2>1. /\ DOMAIN pipes' = DOMAIN pipes /\ \A q \in DOMAIN pipes : q # p => pipes'[q] = pipes[q]
        /\ Unstaged(pipes'[p], pipes[p])
    BY <1>6, CutEffect
  <2>. QED
    BY <1>1, <1>2, <2>1 DEF Unstaged
<1>7. ASSUME NEW r \in Router, NEW p \in DOMAIN pipes, RegisterRouteBack(r, p)
      PROVE  DialersAnnounce'
  <2>1. pipes' = Received(r, p) /\ pipes[p].wire[r] # <<>>
    BY <1>7, RegisterRouteBackEffect
  <2>2. /\ DOMAIN pipes' = DOMAIN pipes /\ \A q \in DOMAIN pipes : q # p => pipes'[q] = pipes[q]
        /\ Unwired(pipes'[p], pipes[p])
    BY <2>1, ReceivedEffect
  <2>3. ASSUME NEW q \in DOMAIN pipes PROVE Heard(q)
    <3>1. SUFFICES ASSUME NEW k \in Router, NEW i \in DOMAIN pipes'[q].wire[k]
                   PROVE  \E j \in DOMAIN pipes[q].wire[k] : pipes'[q].wire[k][i] = pipes[q].wire[k][j]
      BY DEF Heard
    <3>2. IF q = p /\ k = r
          THEN /\ i \in Nat \ {0} /\ i + 1 \in DOMAIN pipes[q].wire[k]
               /\ pipes'[q].wire[k][i] = pipes[q].wire[k][i + 1]
          ELSE /\ i \in DOMAIN pipes[q].wire[k]
               /\ pipes'[q].wire[k][i] = pipes[q].wire[k][i]
      BY <2>1, ReceivedPositions
    <3>. QED
      BY <3>2
  <2>. QED
    BY <1>1, <2>2, <2>3 DEF Unwired
<1>8. ASSUME NEW r \in Router, NEW p \in DOMAIN pipes, Add(r, p) \/ Learn(r, p) \/ Name(r, p) \/ Forget(r, p)
      PROVE  DialersAnnounce'
  <2>1. \E from : \E to \in Stage : Step(r, p, from, to)
    BY <1>8 DEF Add, Learn, Name, Forget, Stage
  <2>2. /\ DOMAIN pipes' = DOMAIN pipes /\ \A q \in DOMAIN pipes : q # p => pipes'[q] = pipes[q]
        /\ Unstaged(pipes'[p], pipes[p])
    BY <2>1, StepEffect
  <2>. QED
    BY <1>1, <1>2, <2>2 DEF Unstaged
<1>9. ASSUME NEW r \in Router, NEW p \in DOMAIN pipes, Announce(r, p) PROVE DialersAnnounce'
  <2>1. PICK g \in Nat, ms \in Seq(Written) : AnnouncedTo(r, p, g, ms)
    BY <1>9, AnnounceEffect
  <2>2. /\ pipes[p].pc[r] = "announce"
        /\ DOMAIN pipes' = DOMAIN pipes /\ \A q \in DOMAIN pipes : q # p => pipes'[q] = pipes[q]
        /\ pipes'[p].dialer = pipes[p].dialer
        /\ pipes'[p].wire[r] = pipes[p].wire[r]
    BY <2>1 DEF AnnouncedTo
  <2>3. pipes[p].dialer = r
    BY <1>0, <2>2, RouterPeer DEF Stages, StagesOf
  <2>4. \A k \in Router : k = r \/ (k = Peer(r) /\ r = Peer(k))
    BY RouterPeer
  <2>. QED
    BY <2>2, <2>3, <2>4 DEF DialersAnnounce
<1>. QED
  BY <1>3, <1>4, <1>5, <1>6, <1>7, <1>8, <1>9 DEF Next, Agents, SockRecv, Callback

LEMMA RoutesInv ==
    ASSUME TypeOK, Routes, Next
    PROVE  Routes'
<1>1. ASSUME NEW r \in Router, NEW p \in DOMAIN pipes, RegisterRouteBack(r, p) PROVE Routes'
  BY <1>1, RegisterRouteBackEffect DEF Routes
<1>2. ASSUME NEW r \in Router, NEW p \in DOMAIN pipes, Add(r, p) PROVE Routes'
  <2>a. PICK s : s = routes[r][Remote(r, p)]
    OBVIOUS
  <2>b. PICK new : new = IF p \in ToSet(s) THEN s ELSE Append(s, p)
    OBVIOUS
  <2>1. /\ Remote(r, p) \in Addr /\ routes \in [Router -> [Addr -> Seq(DOMAIN pipes)]]
    BY Addresses DEF TypeOK
  <2>2. s \in Seq(DOMAIN pipes) /\ NoneTwice(s)
    BY <2>1, <2>a DEF Routes
  <2>3. new \in Seq(DOMAIN pipes) /\ NoneTwice(new)
    <3>1. CASE p \in ToSet(s)
      BY <2>2, <2>b, <3>1
    <3>2. CASE p \notin ToSet(s)
      <4>1. \A i \in DOMAIN s : s[i] # p
        BY <3>2 DEF ToSet
      <4>2. Append(s, p) \in Seq(DOMAIN pipes) /\ NoneTwice(Append(s, p))
        BY <2>2, <4>1, AddedLast
      <4>. QED
        BY <2>b, <3>2, <4>2
    <3>. QED
      BY <3>1, <3>2
  <2>4. routes' = [routes EXCEPT ![r][Remote(r, p)] = new]
    BY <1>2, <2>a, <2>b DEF Add
  <2>5. \A k \in Router, a \in Addr :
            routes'[k][a] = IF k = r /\ a = Remote(r, p) THEN new ELSE routes[k][a]
    BY <2>1, <2>3, <2>4, Nested
  <2>. QED
    BY <2>3, <2>5 DEF Routes
<1>3. ASSUME routes' = routes PROVE Routes'
  BY <1>3 DEF Routes
<1>4. \A r \in Router : Agents(r) => routes' = routes
  BY DEF Agents, Listen, ListenHangs, Send, Answer
<1>5. \A r \in Router : \A dial : Connect(r, dial) => routes' = routes
  BY DEF Connect
<1>6. \A p : Cut(p) => routes' = routes
  BY DEF Cut
<1>7. \A r \in Router : \A p : Receive(r, p) \/ ReceiveFails(r, p) => routes' = routes
  BY DEF Receive, ReceiveFails
<1>8. \A r \in Router : \A p : Learn(r, p) \/ Name(r, p) \/ Announce(r, p) \/ Forget(r, p)
        => routes' = routes
  BY DEF Learn, Name, Announce, Write, Forget
<1>. QED
  BY <1>1, <1>2, <1>3, <1>4, <1>5, <1>6, <1>7, <1>8 DEF Next, SockRecv, Callback

(***************************************************************************)
(* Reply addresses                                                         *)
(***************************************************************************)

LEMMA SendersKept ==
    ASSUME NEW m \in Letter, NEW a, IsSenders(m, a),
           DOMAIN pipes \subseteq DOMAIN pipes',
           \A k \in Router : nEps[k] \subseteq nEps'[k],
           \A q \in DOMAIN pipes :
                /\ pipes'[q].dialer = pipes[q].dialer
                /\ \A k \in Router : pipes[q].pc[k] = "name" =>
                        pipes'[q].pc[k] = "name" \/ Local(k, q) \in nEps'[k]
    PROVE  IsSenders(m, a)'
<1>1. m.from \in Router
  BY LetterFields
<1>2. CASE a \in nEps[m.from]
  BY <1>1, <1>2 DEF IsSenders
<1>3. CASE \E p \in DOMAIN pipes : a = Local(m.from, p) /\ pipes[p].pc[m.from] = "name"
  <2>1. PICK p \in DOMAIN pipes : a = Local(m.from, p) /\ pipes[p].pc[m.from] = "name"
    BY <1>3
  <2>2. Local(m.from, p)' = Local(m.from, p)
    BY DEF Local
  <2>3. p \in DOMAIN pipes'
    BY <2>1
  <2>. QED
    BY <1>1, <2>1, <2>2, <2>3 DEF IsSenders
<1>. QED
  BY <1>2, <1>3 DEF IsSenders

\* A reply address that is the sender's stays so.
LEMMA GoodStays ==
    ASSUME TypeOK, Routes, Next, NEW w, w.letter \in Letter, Good(w)
    PROVE  Good(w)'
<1>. USE DEF traffic, outcomeVars
<1>0. /\ nEps \in [Router -> SUBSET Addr] /\ pipes \in Seq(Pipe)
  BY DEF TypeOK
<1>. DEFINE Names(k, q) == pipes[q].pc[k] = "name" =>
                pipes'[q].pc[k] = "name" \/ Local(k, q) \in nEps'[k]
            Stay == /\ DOMAIN pipes \subseteq DOMAIN pipes' /\ bare \subseteq bare'
                    /\ \A k \in Router : nEps[k] \subseteq nEps'[k]
                    /\ \A q \in DOMAIN pipes :
                        pipes'[q].dialer = pipes[q].dialer /\ \A k \in Router : Names(k, q)
<1>1. ASSUME Stay PROVE Good(w)'
  BY <1>1, SendersKept DEF Good
<1>2. ASSUME NEW r \in Router, Listen(r) \/ ListenHangs(r) PROVE Stay
  BY <1>0, <1>2 DEF Listen, ListenHangs
<1>3. ASSUME NEW r \in Router,
             \/ Send(r) \/ \E v \in due[r] : Answer(r, v)
             \/ \E p \in DOMAIN pipes : Receive(r, p) \/ ReceiveFails(r, p)
      PROVE  Stay
  <2>1. /\ DOMAIN pipes' = DOMAIN pipes /\ nEps' = nEps
        /\ \A q \in DOMAIN pipes : Unwired(pipes'[q], pipes[q])
    BY <1>3, Messages
  <2>2. bare \subseteq bare'
    <3>1. \A ps, m : Route(ps, r, m) => bare \subseteq bare'
      BY DEF Route, Deliver, RouteByPipe, RouteLater
    <3>. QED
      BY <1>3, <3>1 DEF Send, Answer, Receive, ReceiveFails
  <2>. QED
    BY <2>1, <2>2 DEF Unwired
<1>4. ASSUME NEW r \in Router, NEW dial \in DOMAIN dials[r], Connect(r, dial) PROVE Stay
  BY <1>4, ConnectEffect DEF Connect
<1>5. ASSUME NEW p \in DOMAIN pipes, Cut(p) PROVE Stay
  <2>1. /\ DOMAIN pipes' = DOMAIN pipes /\ \A q \in DOMAIN pipes : q # p => pipes'[q] = pipes[q]
        /\ Unstaged(pipes'[p], pipes[p]) /\ pipes'[p].pc = pipes[p].pc
        /\ UNCHANGED <<nEps, bare>>
    BY <1>5, CutEffect DEF Cut
  <2>. QED
    BY <2>1 DEF Unstaged
<1>6. ASSUME NEW r \in Router, NEW p \in DOMAIN pipes, RegisterRouteBack(r, p) PROVE Stay
  <2>1. pipes' = Received(r, p) /\ pipes[p].wire[r] # <<>> /\ UNCHANGED <<nEps, bare>>
    BY <1>6, RegisterRouteBackEffect
  <2>2. /\ DOMAIN pipes' = DOMAIN pipes /\ \A q \in DOMAIN pipes : q # p => pipes'[q] = pipes[q]
        /\ Unwired(pipes'[p], pipes[p])
    BY <2>1, ReceivedEffect
  <2>. QED
    BY <2>1, <2>2 DEF Unwired
<1>7. ASSUME NEW r \in Router, NEW p \in DOMAIN pipes, Add(r, p) \/ Learn(r, p) \/ Name(r, p) \/ Forget(r, p)
      PROVE  Stay
  <2>1. PICK from, to \in Stage : Step(r, p, from, to) /\ (from = "name" => Name(r, p))
    BY <1>7 DEF Add, Learn, Name, Forget, Stage, Step
  <2>2. /\ pipes[p].pc[r] = from
        /\ DOMAIN pipes' = DOMAIN pipes /\ \A q \in DOMAIN pipes : q # p => pipes'[q] = pipes[q]
        /\ Unstaged(pipes'[p], pipes[p])
        /\ pipes'[p].pc[r] = to /\ pipes'[p].pc[Peer(r)] = pipes[p].pc[Peer(r)]
    BY <2>1, StepEffect
  <2>3. UNCHANGED bare /\ \A k \in Router : nEps[k] \subseteq nEps'[k]
    BY <1>0, <1>7 DEF Add, Learn, Name, Forget
  <2>4. from = "name" => Local(r, p) \in nEps'[r]
    BY <1>0, <2>1 DEF Name
  <2>. QED
    BY <2>2, <2>3, <2>4, RouterPeer DEF Unstaged
<1>8. ASSUME NEW r \in Router, NEW p \in DOMAIN pipes, Announce(r, p) PROVE Stay
  <2>1. PICK g \in Nat, ms \in Seq(Written) : AnnouncedTo(r, p, g, ms)
    BY <1>8, AnnounceEffect
  <2>2. /\ pipes[p].pc[r] = "announce"
        /\ DOMAIN pipes' = DOMAIN pipes /\ \A q \in DOMAIN pipes : q # p => pipes'[q] = pipes[q]
        /\ pipes'[p].dialer = pipes[p].dialer
        /\ pipes'[p].pc[r] = "done" /\ pipes'[p].pc[Peer(r)] = pipes[p].pc[Peer(r)]
        /\ UNCHANGED <<nEps, bare>>
    BY <2>1 DEF AnnouncedTo
  <2>. QED
    BY <2>2, RouterPeer
<1>. HIDE DEF Stay
<1>. QED
  BY <1>1, <1>2, <1>3, <1>4, <1>5, <1>6, <1>7, <1>8 DEF Next, Agents, SockRecv, Callback

\* The reply address that r writes into its letters is one of its own: it knows a
\* pipe only when that is so.
LEMMA OwnIsGood ==
    ASSUME TypeOK, Stages, NEW r \in Router, NEW p \in DOMAIN pipes,
           p \in known[r] \/ pipes[p].pc[r] = "announce", NEW m \in Letter, m.from = r
    PROVE  IsSenders(m, Own(r, p))
<1>1. pipes[p].dialer \in Router /\ pipes[p].pc \in [Router -> Stage] /\ StagesOf(p)
  BY PipeFields DEF TypeOK, Stages
<1>2. CASE Listens(r)
  BY <1>2 DEF Own, Listens, IsSenders
<1>3. CASE ~Listens(r)
  <2>1. Own(r, p) = Local(r, p)
    BY <1>3 DEF Own
  <2>2. CASE pipes[p].dialer = r
    <3>1. pipes[p].pc[r] \in Stage /\ pipes[p].pc[r] \notin {"add", "learn"}
      BY <1>1, <2>2 DEF StagesOf
    <3>2. pipes[p].pc[r] # "name" => Local(r, p) \in nEps[r]
      BY <1>1, <2>2, <3>1 DEF StagesOf, Stage
    <3>. QED
      BY <2>1, <3>2 DEF IsSenders
  <2>3. CASE pipes[p].dialer # r
    <3>1. Peer(pipes[p].dialer) = r
      BY <1>1, <2>3, RouterPeer
    <3>2. Listening(r) \in nEps[r]
      BY <1>1, <3>1 DEF StagesOf
    <3>. QED
      BY <1>3, <3>2 DEF Listens
  <2>. QED
    BY <2>2, <2>3
<1>. QED
  BY <1>2, <1>3

\* A message stays as good as it is.
LEMMA GoodMessagesStay ==
    ASSUME TypeOK, Routes, Next
    PROVE  /\ \A w \in Written : GoodWire(w) => GoodWire(w)'
           /\ \A w \in Carried, r \in Router : GoodBox(w, r) => GoodBox(w, r)'
           /\ \A w \in Carried : Good(w) => Good(w)'
<1>1. ASSUME NEW w \in Carried, Good(w) PROVE Good(w)'
  BY <1>1, GoodStays, MessageFields
<1>2. ASSUME NEW w \in Written, GoodWire(w) PROVE GoodWire(w)'
  BY <1>1, <1>2 DEF GoodWire, Written
<1>3. ASSUME NEW w \in Carried, NEW r \in Router, GoodBox(w, r) PROVE GoodBox(w, r)'
  BY <1>1, <1>3 DEF GoodBox
<1>. QED
  BY <1>1, <1>2, <1>3

\* What is accumulated stays, or is taken away.
LEMMA BoxesStay ==
    ASSUME TypeOK, Routes, Backs, Next,
           \A r \in Router, a \in Addr : waiting'[r][a] \in {waiting[r][a], <<>>}
    PROVE  GoodBoxes'
<1>1. SUFFICES ASSUME NEW r \in Router, NEW a \in Addr, NEW w \in Carried, NEW i, InBox(w, r, a, i)'
               PROVE  GoodBox(w, r)'
  BY DEF GoodBoxes
<1>2. InBox(w, r, a, i)
  BY <1>1 DEF InBox
<1>. QED
  BY <1>2, GoodMessagesStay DEF Backs, GoodBoxes

\* What is on the pipes after a step was there before.
LEMMA WiresStay ==
    ASSUME TypeOK, Routes, Backs, Next,
           \A q \in DOMAIN pipes', k \in Router : \A i \in DOMAIN pipes'[q].wire[k] :
                /\ q \in DOMAIN pipes
                /\ \E j \in DOMAIN pipes[q].wire[k] : pipes'[q].wire[k][i] = pipes[q].wire[k][j]
    PROVE  GoodWires(pipes)'
<1>1. SUFFICES ASSUME NEW k \in Router, NEW w \in Written, NEW q, NEW i, OnWire(pipes, w, k, q, i)'
               PROVE  GoodWire(w)'
  BY DEF GoodWires
<1>2. \E j : OnWire(pipes, w, k, q, j)
  BY <1>1 DEF OnWire
<1>. QED
  BY <1>2, GoodMessagesStay DEF Backs, GoodWires

\* Routing a good message; its reply address, if it needs one, is its sender's.
LEMMA RouteBacks ==
    ASSUME TypeOK, Stages, Routes, Backs, Next, NEW r \in Router,
           NEW ps \in Seq(Pipe), DOMAIN ps = DOMAIN pipes, GoodWires(ps),
           NEW m \in Carried, GoodBox(m, r), Route(ps, r, m), DOMAIN pipes' = DOMAIN pipes
    PROVE  GoodBoxes' /\ GoodWires(pipes)'
<1>1. \A k \in Router, w \in Written : \A q, i : OnWire(ps, w, k, q, i) => GoodWire(w)'
  BY GoodMessagesStay DEF GoodWires
<1>2. CASE Deliver(ps, r, m)
  <2>1. pipes' = ps /\ waiting' = waiting
    BY <1>2, DeliverEffect
  <2>2. GoodBoxes'
    BY <2>1, BoxesStay
  <2>. QED
    BY <1>1, <2>1, <2>2 DEF GoodWires, OnWire
<1>3. CASE RouteLater(ps, r, m)
  <2>1. /\ pipes' = ps /\ m.to \in Addr /\ waiting[r][m.to] \in Seq(Carried)
        /\ \A k \in Router, a \in Addr : waiting'[k][a] =
                IF k = r /\ a = m.to THEN Append(waiting[r][m.to], m) ELSE waiting[k][a]
    BY <1>3, RouteLaterEffect
  <2>2. ASSUME NEW k \in Router, NEW a \in Addr, NEW w \in Carried, NEW i, InBox(w, k, a, i)'
        PROVE  GoodBox(w, k)'
    <3>1. InBox(w, k, a, i) \/ (k = r /\ w = m)
      <4>1. CASE k = r /\ a = m.to
        <5>a. PICK s : s = waiting[r][m.to]
          OBVIOUS
        <5>1. /\ DOMAIN Append(s, m) = DOMAIN s \cup {Len(s) + 1}
              /\ \A j \in DOMAIN s : Append(s, m)[j] = s[j]
              /\ Append(s, m)[Len(s) + 1] = m
          BY <2>1, <5>a, Appended
        <5>2. waiting'[k][a] = Append(s, m)
          BY <2>1, <4>1, <5>a
        <5>. QED
          BY <2>2, <4>1, <5>1, <5>2, <5>a DEF InBox
      <4>2. CASE ~(k = r /\ a = m.to)
        BY <2>1, <2>2, <4>2 DEF InBox
      <4>. QED
        BY <4>1, <4>2
    <3>2. GoodBox(w, k)
      BY <3>1 DEF Backs, GoodBoxes
    <3>. QED
      BY <3>2, GoodMessagesStay
  <2>3. GoodBoxes'
    BY <2>2 DEF GoodBoxes
  <2>. QED
    BY <1>1, <2>1, <2>3 DEF GoodWires, OnWire
<1>4. CASE RouteByPipe(ps, r, m)
  <2>1. PICK p \in DOMAIN pipes, last \in Carried : WrittenTo(ps, r, m, p, last)
    BY <1>4, RouteByPipeEffect
  <2>2. /\ m.back = NoAddr => p \in known[r]
        /\ last = Addressed(m, Own(r, p))
        /\ waiting[r][m.to] \in Seq(Carried)
        /\ \A k \in Router, a \in Addr : waiting'[k][a] =
                IF k = r /\ a = m.to THEN <<>> ELSE waiting[k][a]
        /\ \A i \in DOMAIN waiting[r][m.to] :
                waiting[r][m.to][i].kind = "letter" => waiting[r][m.to][i].letter \in bare'
    BY <2>1 DEF WrittenTo
  <2>3. GoodBoxes'
    BY <2>2, BoxesStay
  <2>4. GoodWire(last)'
    <3>1. Own(r, p) \in Addr /\ m.letter \in Letter
      BY Addresses, MessageFields
    <3>2. /\ last.kind = m.kind /\ last.letter = m.letter /\ last \in Written
          /\ last.back = IF m.back = NoAddr THEN Own(r, p) ELSE m.back
      BY <2>2, <3>1, AddressedFields, MessageFields
    <3>3. m.kind = "letter" => Good(last)
      <4>1. CASE m.back = NoAddr /\ m.kind = "letter"
        <5>1. p \in known[r] /\ m.letter.from = r
          BY <2>2, <4>1 DEF GoodBox
        <5>2. IsSenders(m.letter, Own(r, p))
          BY <3>1, <5>1, OwnIsGood
        <5>. QED
          BY <3>2, <4>1, <5>2 DEF Good
      <4>2. CASE m.back # NoAddr /\ m.kind = "letter"
        BY <3>2, <4>2 DEF Good, GoodBox
      <4>. QED
        BY <4>1, <4>2
    <3>4. GoodWire(last)
      BY <3>2, <3>3 DEF GoodWire
    <3>. QED
      BY <3>2, <3>4, GoodMessagesStay
  <2>5. ASSUME NEW k \in Router, NEW w \in Written, NEW q, NEW i, OnWire(pipes, w, k, q, i)'
        PROVE  GoodWire(w)'
    <3>a. PICK box : box = waiting[r][m.to]
      OBVIOUS
    <3>0. q \in DOMAIN pipes /\ i \in DOMAIN pipes'[q].wire[k] /\ pipes'[q].wire[k][i] = w
      BY <2>5 DEF OnWire
    <3>1. IsWritten(ps, r, m, p, last, q, k, i)
      BY <2>1, <3>0, RoutePositions
    <3>2. \/ OnWire(ps, w, k, q, i)
          \/ \E j \in DOMAIN box : w = box[j]
          \/ w = last
      BY <3>0, <3>1, <3>a DEF IsWritten, OnWire
    <3>3. \A j \in DOMAIN box : w = box[j] => GoodWire(w)'
      BY <2>2, <3>a DEF GoodWire, Good
    <3>. QED
      BY <1>1, <2>4, <3>2, <3>3
  <2>6. GoodWires(pipes)'
    BY <2>5 DEF GoodWires
  <2>. QED
    BY <2>3, <2>6
<1>. QED
  BY <1>2, <1>3, <1>4 DEF Route

\* What is on a pipe after a callback has announced itself was there, or is the
\* announcement, or comes from the accumulator.
IsSentOn(r, p, g, q, k, i) ==
    LET box == waiting[r][Remote(r, p)]
        n == Len(pipes[p].wire[Peer(r)])
    IN  \/ /\ i \in DOMAIN pipes[q].wire[k]
           /\ pipes'[q].wire[k][i] = pipes[q].wire[k][i]
        \/ pipes'[q].wire[k][i] = Announcement
        \/ /\ q = p /\ k = Peer(r) /\ i \in Nat /\ n \in Nat /\ i \notin DOMAIN pipes[q].wire[k]
           /\ i - n - g \in DOMAIN box
           /\ pipes'[q].wire[k][i] = Addressed(box[i - n - g], Own(r, p))

LEMMA AnnouncePositions ==
    ASSUME TypeOK, NEW r \in Router, NEW p \in DOMAIN pipes, NEW g \in Nat,
           NEW ms \in Seq(Written), AnnouncedTo(r, p, g, ms)
    PROVE  \A q \in DOMAIN pipes, k \in Router : \A i \in DOMAIN pipes'[q].wire[k] :
                IsSentOn(r, p, g, q, k, i)
<1>. TAKE q \in DOMAIN pipes, k \in Router
<1>. TAKE i \in DOMAIN pipes'[q].wire[k]
<1>a. PICK box : box = waiting[r][Remote(r, p)]
  OBVIOUS
<1>b. PICK s : s = pipes[p].wire[Peer(r)]
  OBVIOUS
<1>c. PICK n : n = Len(s)
  OBVIOUS
<1>1. /\ box \in Seq(Carried) /\ Len(ms) = g + Len(box)
      /\ \A j \in 1..g : ms[j] = Announcement
      /\ \A j \in DOMAIN box : ms[g + j] = Addressed(box[j], Own(r, p))
      /\ \A j \in DOMAIN pipes : j # p => pipes'[j] = pipes[j]
      /\ pipes'[p].wire[r] = pipes[p].wire[r]
      /\ pipes'[p].wire[Peer(r)] = s \o ms
  BY <1>a, <1>b DEF AnnouncedTo
<1>2. s \in Seq(Written) /\ n \in Nat
  BY <1>b, <1>c, PipeFields, RouterPeer DEF TypeOK
<1>3. k = r \/ k = Peer(r)
  BY RouterPeer
<1>4. CASE q = p /\ k = Peer(r)
  <2>1. /\ \A j \in DOMAIN (s \o ms) : (s \o ms)[j] = IF j \in DOMAIN s THEN s[j] ELSE ms[j - Len(s)]
        /\ \A j \in DOMAIN (s \o ms) : j \notin DOMAIN s => j - Len(s) \in DOMAIN ms
        /\ DOMAIN (s \o ms) = 1..(Len(s) + Len(ms))
    BY <1>2, Joined
  <2>2. /\ pipes'[q].wire[k] = s \o ms /\ pipes[q].wire[k] = s
        /\ i \in DOMAIN (s \o ms) /\ i \in Nat
    <3>1. pipes'[q].wire[k] = s \o ms /\ pipes[q].wire[k] = s
      BY <1>1, <1>4, <1>b
    <3>2. i \in DOMAIN (s \o ms)
      BY <3>1
    <3>3. Len(s) \in Nat /\ Len(ms) \in Nat
      BY <1>2
    <3>4. i \in Nat
      BY <2>1, <3>2, <3>3
    <3>. QED
      BY <3>1, <3>2, <3>4
  <2>3. CASE i \in DOMAIN s
    BY <2>1, <2>2, <2>3 DEF IsSentOn
  <2>4. CASE i \notin DOMAIN s
    <3>a. PICK j : j = i - n
      OBVIOUS
    <3>1. j \in DOMAIN ms /\ pipes'[q].wire[k][i] = ms[j]
      BY <1>c, <2>1, <2>2, <2>4, <3>a
    <3>2. j \in 1..(g + Len(box)) /\ Len(box) \in Nat /\ DOMAIN box = 1..Len(box)
      <4>1. DOMAIN ms = 1..Len(ms)
        OBVIOUS
      <4>. QED
        BY <1>1, <3>1, <4>1
    <3>3. CASE j <= g
      <4>1. j \in 1..g
        BY <3>2, <3>3
      <4>. QED
        BY <1>1, <3>1, <4>1 DEF IsSentOn
    <3>4. CASE ~(j <= g)
      <4>a. PICK l : l = j - g
        OBVIOUS
      <4>1. l \in DOMAIN box /\ j = g + l
        BY <3>2, <3>4, <4>a
      <4>2. i - n - g = l
        BY <3>a, <4>a
      <4>3. ms[j] = Addressed(box[l], Own(r, p))
        BY <1>1, <4>1
      <4>. QED
        BY <1>2, <1>4, <1>a, <1>b, <1>c, <2>2, <2>4, <3>1, <4>1, <4>2, <4>3 DEF IsSentOn
    <3>. QED
      BY <3>3, <3>4
  <2>. QED
    BY <2>3, <2>4
<1>5. CASE ~(q = p /\ k = Peer(r))
  BY <1>1, <1>3, <1>5 DEF IsSentOn
<1>. QED
  BY <1>4, <1>5

LEMMA BacksInv ==
    ASSUME TypeOK, Stages, Routes, Backs, Next
    PROVE  Backs'
<1>. USE DEF traffic, outcomeVars
<1>0. /\ pipes \in Seq(Pipe) /\ due \in [Router -> SUBSET Answerable]
      /\ waiting \in [Router -> [Addr -> Seq(Carried)]]
      /\ nEps \in [Router -> SUBSET Addr]
  BY DEF TypeOK
<1>d. ASSUME \A k \in Router : due'[k] \subseteq due[k]
      PROVE  GoodDues'
  <2>1. ASSUME NEW k \in Router, NEW w \in due'[k] PROVE Good(w)'
    <3>1. w \in due[k] /\ w \in Carried
      BY <1>0, <1>d DEF Answerable
    <3>2. Good(w)
      BY <3>1 DEF Backs, GoodDues
    <3>. QED
      BY <3>1, <3>2, GoodMessagesStay
  <2>. QED
    BY <2>1 DEF GoodDues
<1>b. ASSUME waiting' = waiting PROVE GoodBoxes'
  BY <1>b, BoxesStay
<1>w. ASSUME DOMAIN pipes' = DOMAIN pipes, \A q \in DOMAIN pipes : pipes'[q].wire = pipes[q].wire
      PROVE  GoodWires(pipes)'
  BY <1>w, WiresStay
<1>1. ASSUME NEW r \in Router, Listen(r) \/ ListenHangs(r) PROVE Backs'
  <2>1. UNCHANGED <<waiting, pipes, due>>
    BY <1>1 DEF Listen, ListenHangs
  <2>. QED
    BY <1>b, <1>d, <1>w, <2>1 DEF Backs
<1>2. ASSUME NEW r \in Router, Send(r) PROVE Backs'
  <2>a. PICK m : m = Message("letter", [from |-> r, n |-> sent[r] + 1], Listening(Peer(r)))
    OBVIOUS
  <2>1. m \in Carried /\ Route(pipes, r, m) /\ due' = due
    BY <1>2, <2>a, SendTypes DEF Send
  <2>2. GoodBox(m, r)
    BY <2>a DEF GoodBox, Message
  <2>3. DOMAIN pipes' = DOMAIN pipes
    BY <1>0, <2>1, RouteTypes
  <2>4. GoodWires(pipes)
    BY DEF Backs
  <2>5. GoodBoxes' /\ GoodWires(pipes)'
    BY <1>0, <2>1, <2>2, <2>3, <2>4, RouteBacks
  <2>. QED
    BY <1>d, <2>1, <2>5 DEF Backs
<1>3. ASSUME NEW r \in Router, NEW w \in due[r], Answer(r, w) PROVE Backs'
  <2>a. PICK m : m = Message("answer", w.letter, w.back)
    OBVIOUS
  <2>1. m \in Carried /\ Route(pipes, r, m) /\ \A k \in Router : due'[k] \subseteq due[k]
    BY <1>0, <1>3, <2>a, AnswerTypes DEF Answer
  <2>2. GoodBox(m, r)
    BY <2>a DEF GoodBox, Message
  <2>3. DOMAIN pipes' = DOMAIN pipes
    BY <1>0, <2>1, RouteTypes
  <2>4. GoodWires(pipes)
    BY DEF Backs
  <2>5. GoodBoxes' /\ GoodWires(pipes)'
    BY <1>0, <2>1, <2>2, <2>3, <2>4, RouteBacks
  <2>. QED
    BY <1>d, <2>1, <2>5 DEF Backs
<1>4. ASSUME NEW r \in Router, NEW dial \in DOMAIN dials[r], Connect(r, dial) PROVE Backs'
  <2>a. PICK p : p = Len(pipes) + 1
    OBVIOUS
  <2>1. /\ DOMAIN pipes' = DOMAIN pipes \cup {p} /\ \A q \in DOMAIN pipes : pipes'[q] = pipes[q]
        /\ \A k \in Router : pipes'[p].wire[k] = <<>>
    BY <1>4, <2>a, ConnectEffect
  <2>2. GoodWires(pipes)'
    BY <2>1, WiresStay
  <2>3. UNCHANGED <<waiting, due>>
    BY <1>4 DEF Connect
  <2>. QED
    BY <1>b, <1>d, <2>2, <2>3 DEF Backs
<1>5. ASSUME NEW p \in DOMAIN pipes, Cut(p) PROVE Backs'
  <2>1. /\ DOMAIN pipes' = DOMAIN pipes /\ \A q \in DOMAIN pipes : q # p => pipes'[q] = pipes[q]
        /\ Unstaged(pipes'[p], pipes[p])
    BY <1>5, CutEffect
  <2>2. UNCHANGED <<waiting, due>>
    BY <1>5 DEF Cut
  <2>. QED
    BY <1>b, <1>d, <1>w, <2>1, <2>2 DEF Backs, Unstaged
<1>6. ASSUME NEW r \in Router, NEW p \in DOMAIN pipes,
             RegisterRouteBack(r, p) \/ ReceiveFails(r, p)
      PROVE  Backs'
  <2>1. /\ pipes[p].wire[r] # <<>> /\ pipes' = Received(r, p) /\ UNCHANGED <<waiting, due>>
    BY <1>6 DEF RegisterRouteBack, ReceiveFails, Receives
  <2>2. DOMAIN pipes' = DOMAIN pipes
    BY <2>1, ReceivedEffect
  <2>3. ASSUME NEW q \in DOMAIN pipes, NEW k \in Router, NEW i \in DOMAIN pipes'[q].wire[k]
        PROVE  \E j \in DOMAIN pipes[q].wire[k] : pipes'[q].wire[k][i] = pipes[q].wire[k][j]
    <3>1. IF q = p /\ k = r
          THEN /\ i \in Nat \ {0} /\ i + 1 \in DOMAIN pipes[q].wire[k]
               /\ pipes'[q].wire[k][i] = pipes[q].wire[k][i + 1]
          ELSE /\ i \in DOMAIN pipes[q].wire[k]
               /\ pipes'[q].wire[k][i] = pipes[q].wire[k][i]
      BY <2>1, ReceivedPositions
    <3>. QED
      BY <3>1
  <2>4. GoodWires(pipes)'
    BY <2>2, <2>3, WiresStay
  <2>. QED
    BY <1>b, <1>d, <2>1, <2>4 DEF Backs
<1>7. ASSUME NEW r \in Router, NEW p \in DOMAIN pipes, Receive(r, p) PROVE Backs'
  <2>a. PICK w : w = First(r, p)
    OBVIOUS
  <2>b. PICK m : m = Addressed(First(r, p), Local(r, p))
    OBVIOUS
  <2>c. PICK ps : ps = Received(r, p)
    OBVIOUS
  <2>1. /\ pipes[p].wire[r] # <<>> /\ First(r, p) # Announcement /\ Route(ps, r, m)
        /\ due' = IF m.kind = "letter" /\ m.to \in nEps[r]
                  THEN [due EXCEPT ![r] = @ \cup {m}] ELSE due
    BY <1>7, <2>b, <2>c DEF Receive, Receives
  <2>2. /\ ps \in Seq(Pipe) /\ DOMAIN ps = DOMAIN pipes /\ Len(ps) = Len(pipes)
    BY <2>1, <2>c, ReceivedEffect
  <2>3. /\ w \in Carried /\ w = pipes[p].wire[r][1] /\ 1 \in DOMAIN pipes[p].wire[r]
        /\ m \in Carried /\ m.letter = w.letter /\ m.kind = w.kind /\ m.back # NoAddr
    BY <2>1, <2>a, <2>b, FirstFields
  <2>4. m.kind = "letter" => Good(m)
    <3>1. OnWire(pipes, w, r, p, 1) /\ w \in Written /\ w # Announcement
      BY <2>3, MessageFields DEF OnWire
    <3>2. w.kind = "letter" => Good(w)
      BY <3>1 DEF Backs, GoodWires, GoodWire
    <3>3. CASE w.back = NoAddr
      <4>1. w.letter.from \in Router
        BY <2>3, MessageFields, LetterFields
      <4>2. NoAddr \notin nEps[w.letter.from]
        BY <1>0, <4>1, Addresses
      <4>3. \A q \in DOMAIN pipes : NoAddr # Local(w.letter.from, q)
        BY <4>1, Addresses
      <4>. QED
        BY <2>3, <3>2, <3>3, <4>2, <4>3 DEF Good, IsSenders
    <3>4. CASE w.back # NoAddr
      <4>1. m.back = w.back
        BY <2>a, <2>b, <3>4 DEF Addressed
      <4>. QED
        BY <2>3, <3>2, <4>1 DEF Good
    <3>. QED
      BY <3>3, <3>4
  <2>5. GoodBox(m, r)
    BY <2>3, <2>4 DEF GoodBox
  <2>6. GoodWires(ps)
    <3>1. SUFFICES ASSUME NEW k \in Router, NEW v \in Written, NEW q, NEW i, OnWire(ps, v, k, q, i)
                   PROVE  GoodWire(v)
      BY DEF GoodWires
    <3>2. q \in DOMAIN pipes /\ i \in DOMAIN ps[q].wire[k] /\ ps[q].wire[k][i] = v
      BY <2>2, <3>1 DEF OnWire
    <3>3. IF q = p /\ k = r
          THEN /\ i \in Nat \ {0} /\ i + 1 \in DOMAIN pipes[q].wire[k]
               /\ ps[q].wire[k][i] = pipes[q].wire[k][i + 1]
          ELSE /\ i \in DOMAIN pipes[q].wire[k]
               /\ ps[q].wire[k][i] = pipes[q].wire[k][i]
      BY <2>1, <2>c, <3>2, ReceivedPositions
    <3>4. \E j : OnWire(pipes, v, k, q, j)
      BY <3>2, <3>3 DEF OnWire
    <3>. QED
      BY <3>4 DEF Backs, GoodWires
  <2>7. DOMAIN pipes' = DOMAIN pipes
    BY <2>1, <2>2, <2>3, RouteTypes
  <2>8. GoodBoxes' /\ GoodWires(pipes)'
    BY <2>1, <2>2, <2>3, <2>5, <2>6, <2>7, RouteBacks
  <2>9. GoodDues'
    <3>1. ASSUME NEW k \in Router, NEW v \in due'[k] PROVE Good(v)'
      <4>1. v \in due[k] \/ (v = m /\ m.kind = "letter")
        BY <1>0, <2>1, <3>1
      <4>2. v \in Carried /\ Good(v)
        BY <1>0, <2>3, <2>4, <4>1 DEF Backs, GoodDues, Answerable
      <4>. QED
        BY <4>2, GoodMessagesStay
    <3>. QED
      BY <3>1 DEF GoodDues
  <2>. QED
    BY <2>8, <2>9 DEF Backs
<1>8. ASSUME NEW r \in Router, NEW p \in DOMAIN pipes, Add(r, p) \/ Learn(r, p) \/ Name(r, p) \/ Forget(r, p)
      PROVE  Backs'
  <2>1. \E from : \E to \in Stage : Step(r, p, from, to)
    BY <1>8 DEF Add, Learn, Name, Forget, Stage
  <2>2. /\ DOMAIN pipes' = DOMAIN pipes /\ \A q \in DOMAIN pipes : q # p => pipes'[q] = pipes[q]
        /\ Unstaged(pipes'[p], pipes[p])
    BY <2>1, StepEffect
  <2>3. UNCHANGED <<waiting, due>>
    BY <1>8 DEF Add, Learn, Name, Forget
  <2>. QED
    BY <1>b, <1>d, <1>w, <2>2, <2>3 DEF Backs, Unstaged
<1>9. ASSUME NEW r \in Router, NEW p \in DOMAIN pipes, Announce(r, p) PROVE Backs'
  <2>1. PICK g \in Nat, ms \in Seq(Written) : AnnouncedTo(r, p, g, ms)
    BY <1>9, AnnounceEffect
  <2>a. PICK box : box = waiting[r][Remote(r, p)]
    OBVIOUS
  <2>2. /\ pipes[p].pc[r] = "announce" /\ box \in Seq(Carried) /\ DOMAIN pipes' = DOMAIN pipes
        /\ \A k \in Router, a \in Addr : waiting'[k][a] =
                IF k = r /\ a = Remote(r, p) THEN <<>> ELSE waiting[k][a]
        /\ due' = due
    BY <2>1, <2>a DEF AnnouncedTo
  <2>3. GoodBoxes'
    BY <2>2, BoxesStay
  <2>4. Own(r, p) \in Addr /\ Remote(r, p) \in Addr
    BY Addresses
  <2>5. ASSUME NEW j \in DOMAIN box PROVE GoodWire(Addressed(box[j], Own(r, p)))
    <3>a. PICK w : w = box[j]
      OBVIOUS
    <3>b. PICK v : v = Addressed(w, Own(r, p))
      OBVIOUS
    <3>1. w \in Carried /\ InBox(w, r, Remote(r, p), j)
      BY <2>2, <2>a, <3>a DEF InBox
    <3>2. GoodBox(w, r)
      BY <2>4, <3>1 DEF Backs, GoodBoxes
    <3>3. /\ v.kind = w.kind /\ v.letter = w.letter /\ w.letter \in Letter
          /\ v.back = IF w.back = NoAddr THEN Own(r, p) ELSE w.back
      BY <2>4, <3>1, <3>b, AddressedFields, MessageFields
    <3>4. v.kind = "letter" => Good(v)
      <4>1. CASE w.back = NoAddr /\ w.kind = "letter"
        <5>1. IsSenders(w.letter, Own(r, p))
          BY <2>2, <3>2, <3>3, <4>1, OwnIsGood DEF GoodBox
        <5>. QED
          BY <3>3, <4>1, <5>1 DEF Good
      <4>2. CASE w.back # NoAddr /\ w.kind = "letter"
        BY <3>2, <3>3, <4>2 DEF Good, GoodBox
      <4>. QED
        BY <3>3, <4>1, <4>2
    <3>. QED
      BY <3>4, <3>a, <3>b DEF GoodWire
  <2>6. ASSUME NEW k \in Router, NEW w \in Written, NEW q, NEW i, OnWire(pipes, w, k, q, i)'
        PROVE  GoodWire(w)'
    <3>1. q \in DOMAIN pipes /\ i \in DOMAIN pipes'[q].wire[k] /\ pipes'[q].wire[k][i] = w
      BY <2>2, <2>6 DEF OnWire
    <3>2. IsSentOn(r, p, g, q, k, i)
      BY <2>1, <3>1, AnnouncePositions
    <3>3. \/ OnWire(pipes, w, k, q, i)
          \/ w = Announcement
          \/ \E j \in DOMAIN box : w = Addressed(box[j], Own(r, p))
      BY <3>1, <3>2, <2>a DEF IsSentOn, OnWire
    <3>4. GoodWire(w)
      <4>1. CASE OnWire(pipes, w, k, q, i)
        BY <4>1 DEF Backs, GoodWires
      <4>2. CASE w = Announcement
        BY <4>2 DEF GoodWire
      <4>. QED
        BY <2>5, <3>3, <4>1, <4>2
    <3>. QED
      BY <3>4, GoodMessagesStay
  <2>7. GoodWires(pipes)'
    BY <2>6 DEF GoodWires
  <2>. QED
    BY <1>d, <2>2, <2>3, <2>7 DEF Backs
<1>. QED
  BY <1>1, <1>2, <1>3, <1>4, <1>5, <1>6, <1>7, <1>8, <1>9 DEF Next, Agents, SockRecv, Callback

(***************************************************************************)
(* Every letter is in one place                                            *)
(***************************************************************************)

LEMMA Places ==
    /\ \A y \in Box : /\ y.at = "box" /\ y.r \in Router /\ y.a \in Addr /\ y.i \in Nat
                      /\ y = AtBox(y.r, y.a, y.i)
    /\ \A y \in Wire : /\ y.at = "wire" /\ y.r \in Router /\ y.p \in Nat /\ y.i \in Nat
                       /\ y = AtWire(y.r, y.p, y.i)
    /\ \A y \in Due : /\ y.at = "due" /\ y.r \in Router /\ y.w \in Carried /\ y = AtDue(y.r, y.w)
    /\ \A r \in Router, a \in Addr, i \in Nat : AtBox(r, a, i) \in Box
    /\ \A r \in Router, p \in Nat, i \in Nat : AtWire(r, p, i) \in Wire
    /\ \A r \in Router, w \in Carried : AtDue(r, w) \in Due
<1>1. \A y \in Box : /\ y.at = "box" /\ y.r \in Router /\ y.a \in Addr /\ y.i \in Nat
                     /\ y = AtBox(y.r, y.a, y.i)
  BY DEF Box, AtBox
<1>2. \A y \in Wire : /\ y.at = "wire" /\ y.r \in Router /\ y.p \in Nat /\ y.i \in Nat
                      /\ y = AtWire(y.r, y.p, y.i)
  BY DEF Wire, AtWire
<1>3. \A y \in Due : /\ y.at = "due" /\ y.r \in Router /\ y.w \in Carried /\ y = AtDue(y.r, y.w)
  BY DEF Due, AtDue
<1>. QED
  BY <1>1, <1>2, <1>3 DEF Box, Wire, Due

\* What it is to be at a place, before a step and after it.
LEMMA Presence ==
    ASSUME NEW ps, NEW w
    PROVE  /\ \A y \in Box : /\ IsIn(ps, w, y) <=> InBox(w, y.r, y.a, y.i)
                             /\ IsAt(w, y)' <=> InBox(w, y.r, y.a, y.i)'
           /\ \A y \in Wire : /\ IsIn(ps, w, y) <=> OnWire(ps, w, y.r, y.p, y.i)
                              /\ IsAt(w, y)' <=> OnWire(pipes, w, y.r, y.p, y.i)'
           /\ \A y \in Due : /\ IsIn(ps, w, y) <=> w = y.w /\ w \in due[y.r]
                             /\ IsAt(w, y)' <=> w = y.w /\ w \in due'[y.r]
<1>1. ASSUME NEW y \in Box
      PROVE  /\ IsIn(ps, w, y) <=> InBox(w, y.r, y.a, y.i)
             /\ IsAt(w, y)' <=> InBox(w, y.r, y.a, y.i)'
  <2>1. y.at = "box"
    BY Places
  <2>. QED
    BY <2>1 DEF IsIn, IsAt
<1>2. ASSUME NEW y \in Wire
      PROVE  /\ IsIn(ps, w, y) <=> OnWire(ps, w, y.r, y.p, y.i)
             /\ IsAt(w, y)' <=> OnWire(pipes, w, y.r, y.p, y.i)'
  <2>1. y.at = "wire"
    BY Places
  <2>. QED
    BY <2>1 DEF IsIn, IsAt
<1>3. ASSUME NEW y \in Due
      PROVE  /\ IsIn(ps, w, y) <=> w = y.w /\ w \in due[y.r]
             /\ IsAt(w, y)' <=> w = y.w /\ w \in due'[y.r]
  <2>1. y.at = "due"
    BY Places
  <2>. QED
    BY <2>1 DEF IsIn, IsAt
<1>. QED
  BY <1>1, <1>2, <1>3

\* With the pipes ps, w is at the place x with h[x] = y, but for its reply address.
CameFrom(ps, h, w, y) == \E x \in Spot, v \in Carried :
    IsIn(ps, v, x) /\ y = h[x] /\ v.letter = w.letter /\ v.kind = w.kind

\* A letter that is only moved stays in one place.
LEMMA Moved ==
    ASSUME TypeOK, NEW l \in Letter, OnePlaceOf(l), NEW h,
           \A y \in Spot, w \in Carried : w.letter = l /\ IsAt(w, y)' => CameFrom(pipes, h, w, y),
           \A k \in Router, w \in Carried : w.letter = l /\ w \in due'[k] => w \in due[k],
           arrived'[l] = arrived[l], answered'[l] = answered[l],
           sent'[l.from] \in Nat, sent[l.from] <= sent'[l.from]
    PROVE  OnePlaceOf(l)'
<1>a. PICK g : g = [x \in Place |-> IF x \in Due THEN x ELSE h[x]]
  OBVIOUS
<1>1. ASSUME NEW y \in Place, NEW w \in Carried, w.letter = l, IsAt(w, y)'
      PROVE  \E x \in Place, v \in Carried :
                /\ IsAt(v, x) /\ y = g[x] /\ v.letter = l /\ v.kind = w.kind
                /\ y \in Spot => x \in Spot
  <2>1. CASE y \in Spot
    <3>1. PICK x \in Spot, v \in Carried :
                IsIn(pipes, v, x) /\ y = h[x] /\ v.letter = w.letter /\ v.kind = w.kind
      BY <1>1, <2>1 DEF CameFrom
    <3>2. x \in Place /\ x \notin Due
      BY Places DEF Place, Spot
    <3>. QED
      BY <1>1, <1>a, <3>1, <3>2 DEF IsAt
  <2>2. CASE y \notin Spot
    <3>1. y \in Due
      BY <2>2 DEF Place
    <3>2. y.r \in Router /\ w = y.w /\ w \in due'[y.r]
      BY <1>1, <3>1, Places, Presence
    <3>3. w \in due[y.r]
      BY <1>1, <3>2
    <3>4. IsAt(w, y)
      BY <3>1, <3>2, <3>3, Presence DEF IsAt
    <3>. QED
      BY <1>1, <1>a, <2>2, <3>1, <3>4
  <2>. QED
    BY <2>1, <2>2
<1>2. ASSUME NEW y \in Place, Carries(l, y)'
      PROVE  \E x \in Place : Carries(l, x) /\ y = g[x]
  <2>1. PICK w \in Carried : w.letter = l /\ IsAt(w, y)'
    BY <1>2 DEF Carries
  <2>. QED
    BY <1>1, <2>1 DEF Carries
<1>3. \A x, y \in Place : Carries(l, x)' /\ Carries(l, y)' => x = y
  BY <1>2 DEF OnePlaceOf
<1>4. l.n > sent'[l.from] => l.n > sent[l.from]
  BY LetterFields DEF TypeOK
<1>5. l.n > sent'[l.from] =>
        (\A x \in Place : ~Carries(l, x)') /\ arrived'[l] = 0 /\ answered'[l] = 0
  BY <1>2, <1>4 DEF OnePlaceOf
<1>6. (\E x \in Place : Carries(l, x)') => answered'[l] = 0
  BY <1>2 DEF OnePlaceOf
<1>7. ASSUME NEW y \in Spot, NEW w \in Carried, w.letter = l, w.kind = "letter", IsAt(w, y)'
      PROVE  arrived'[l] = 0
  <2>1. y \in Place
    BY DEF Place
  <2>. QED
    BY <1>1, <1>7, <2>1 DEF OnePlaceOf
<1>8. arrived'[l] <= 1 /\ answered'[l] <= 1
  BY DEF OnePlaceOf
<1>. QED
  BY <1>3, <1>5, <1>6, <1>7, <1>8 DEF OnePlaceOf

\* Taking the first message of a pipe brings the others forward.
Forward(r, p) == [x \in Spot |-> IF x.at = "wire" /\ x.r = r /\ x.p = p
                                 THEN AtWire(r, p, x.i - 1) ELSE x]

LEMMA ReceivedFrom ==
    ASSUME TypeOK, NEW p \in DOMAIN pipes, NEW r \in Router, pipes[p].wire[r] # <<>>,
           NEW w \in Carried, NEW y \in Spot, IsIn(Received(r, p), w, y)
    PROVE  \E x \in Spot : IsIn(pipes, w, x) /\ y = Forward(r, p)[x] /\ x # AtWire(r, p, 1)
<1>1. CASE y \in Box
  <2>1. IsIn(pipes, w, y) /\ y.at = "box"
    BY <1>1, Presence, Places
  <2>2. y # AtWire(r, p, 1)
    BY <2>1 DEF AtWire
  <2>. QED
    BY <2>1, <2>2 DEF Forward
<1>2. CASE y \in Wire
  <2>a. PICK k, q, i : k = y.r /\ q = y.p /\ i = y.i
    OBVIOUS
  <2>1. /\ y.at = "wire" /\ k \in Router /\ q \in Nat /\ i \in Nat /\ y = AtWire(k, q, i)
        /\ OnWire(Received(r, p), w, k, q, i)
    BY <1>2, <2>a, Presence, Places
  <2>2. DOMAIN Received(r, p) = DOMAIN pipes
    BY ReceivedEffect
  <2>3. q \in DOMAIN pipes /\ i \in DOMAIN Received(r, p)[q].wire[k] /\ w = Received(r, p)[q].wire[k][i]
    BY <2>1, <2>2 DEF OnWire
  <2>b. PICK ps : ps = Received(r, p)
    OBVIOUS
  <2>c. q \in DOMAIN pipes /\ i \in DOMAIN ps[q].wire[k]
    BY <2>3, <2>b
  <2>4. IF q = p /\ k = r
        THEN /\ i \in Nat \ {0} /\ i + 1 \in DOMAIN pipes[q].wire[k]
             /\ ps[q].wire[k][i] = pipes[q].wire[k][i + 1]
        ELSE /\ i \in DOMAIN pipes[q].wire[k]
             /\ ps[q].wire[k][i] = pipes[q].wire[k][i]
    BY <2>1, <2>b, <2>c, ReceivedPositions
  <2>5. CASE q = p /\ k = r
    <3>a. PICK x : x = AtWire(r, p, i + 1)
      OBVIOUS
    <3>1. OnWire(pipes, w, r, p, i + 1) /\ i \in Nat \ {0}
      BY <2>3, <2>4, <2>5, <2>b DEF OnWire
    <3>2. x \in Wire /\ x.r = r /\ x.p = p /\ x.i = i + 1 /\ x.at = "wire"
      BY <2>1, <2>5, <3>a, Places DEF AtWire
    <3>3. IsIn(pipes, w, x)
      BY <3>1, <3>2, Presence
    <3>4. x # AtWire(r, p, 1)
      BY <3>1, <3>2 DEF AtWire
    <3>5. x.i - 1 = i
      BY <3>1, <3>2
    <3>6. Forward(r, p)[x] = AtWire(r, p, i) /\ x \in Spot
      BY <3>2, <3>5 DEF Forward, Spot
    <3>. QED
      BY <2>1, <2>5, <3>3, <3>4, <3>6
  <2>6. CASE ~(q = p /\ k = r)
    <3>1. OnWire(pipes, w, k, q, i)
      BY <2>3, <2>4, <2>6, <2>b DEF OnWire
    <3>2. IsIn(pipes, w, y)
      BY <1>2, <2>a, <3>1, Presence
    <3>3. Forward(r, p)[y] = y
      BY <2>6, <2>a DEF Forward
    <3>4. y # AtWire(r, p, 1)
      BY <2>6, <2>a DEF AtWire
    <3>. QED
      BY <3>2, <3>3, <3>4
  <2>. QED
    BY <2>5, <2>6
<1>. QED
  BY <1>1, <1>2 DEF Spot

\* What is accumulated for a goes to p, after n messages.
Onward(r, a, p, n) == [x \in Spot |-> IF x.at = "box" /\ x.r = r /\ x.a = a
                                      THEN AtWire(Peer(r), p, n + x.i) ELSE x]
Unmoved == [x \in Spot |-> x]

\* h does so, and leaves the rest where it is.
IsOnward(h, r, a, p, n, ps) ==
    /\ \A j \in Nat : /\ AtBox(r, a, j) \in Box
                      /\ h[AtBox(r, a, j)] = AtWire(Peer(r), p, n + j)
                      /\ \A w : IsIn(ps, w, AtBox(r, a, j)) <=> InBox(w, r, a, j)
    /\ \A x \in Spot : x \notin Box \/ x.r # r \/ x.a # a => h[x] = x

LEMMA OnwardFrom ==
    ASSUME NEW r \in Router, NEW a \in Addr, NEW p \in Nat, NEW n \in Nat, NEW ps
    PROVE  IsOnward(Onward(r, a, p, n), r, a, p, n, ps)
<1>. USE DEF IsOnward
<1>1. ASSUME NEW j \in Nat
      PROVE  /\ AtBox(r, a, j) \in Box
             /\ Onward(r, a, p, n)[AtBox(r, a, j)] = AtWire(Peer(r), p, n + j)
             /\ \A w : IsIn(ps, w, AtBox(r, a, j)) <=> InBox(w, r, a, j)
  <2>a. PICK x : x = AtBox(r, a, j)
    OBVIOUS
  <2>1. x \in Box /\ x.at = "box" /\ x.r = r /\ x.a = a /\ x.i = j
    BY <2>a, Places DEF AtBox
  <2>2. x \in Spot
    BY <2>1 DEF Spot
  <2>3. Onward(r, a, p, n)[x] = AtWire(Peer(r), p, n + j)
    BY <2>1, <2>2 DEF Onward
  <2>4. \A w : IsIn(ps, w, x) <=> InBox(w, r, a, j)
    BY <2>1, Presence
  <2>. QED
    BY <2>1, <2>3, <2>4, <2>a
<1>2. ASSUME NEW x \in Spot, x \notin Box \/ x.r # r \/ x.a # a
      PROVE  Onward(r, a, p, n)[x] = x
  <2>1. x.at # "box" \/ x.r # r \/ x.a # a
    BY <1>2, Places DEF Spot
  <2>. QED
    BY <2>1 DEF Onward
<1>. QED
  BY <1>1, <1>2

\* A message that is routed is in one new place, t, or has arrived; what has been
\* accumulated may move on.
RoutedTo(ps, r, m, h, t) ==
    /\ t \in Spot
    /\ \A y \in Spot, w \in Carried : IsAt(w, y)' =>
            \/ CameFrom(ps, h, w, y)
            \/ y = t /\ w.letter = m.letter /\ w.kind = m.kind /\ m.to \notin nEps[r]

LEMMA RouteMoves ==
    ASSUME TypeOK, NEW r \in Router, NEW ps \in Seq(Pipe), DOMAIN ps = DOMAIN pipes,
           NEW m \in Carried, Route(ps, r, m), DOMAIN pipes' = DOMAIN pipes
    PROVE  \E h, t : RoutedTo(ps, r, m, h, t)
<1>0. m.to \in Addr /\ waiting[r][m.to] \in Seq(Carried)
  BY MessageFields DEF TypeOK
<1>1. ASSUME NEW y \in Spot, NEW w \in Carried, NEW h, IsIn(ps, w, y), h[y] = y
      PROVE  CameFrom(ps, h, w, y)
  BY <1>1 DEF CameFrom
<1>2. CASE Deliver(ps, r, m)
  <2>1. pipes' = ps /\ waiting' = waiting
    BY <1>2, DeliverEffect
  <2>2. ASSUME NEW y \in Spot, NEW w \in Carried, IsAt(w, y)' PROVE CameFrom(ps, Unmoved, w, y)
    <3>1. CASE y \in Box
      <4>1. IsIn(ps, w, y)
        BY <2>1, <2>2, <3>1, Presence DEF InBox
      <4>. QED
        BY <1>1, <4>1 DEF Unmoved
    <3>2. CASE y \in Wire
      <4>1. IsIn(ps, w, y)
        BY <2>1, <2>2, <3>2, Presence DEF OnWire
      <4>. QED
        BY <1>1, <4>1 DEF Unmoved
    <3>. QED
      BY <3>1, <3>2 DEF Spot
  <2>3. AtBox(r, m.to, 0) \in Spot
    BY <1>0, Places DEF Spot
  <2>4. RoutedTo(ps, r, m, Unmoved, AtBox(r, m.to, 0))
    BY <2>2, <2>3 DEF RoutedTo
  <2>. QED
    BY <2>4
<1>3. CASE RouteLater(ps, r, m)
  <2>a. PICK s : s = waiting[r][m.to]
    OBVIOUS
  <2>1. /\ m.to \notin nEps[r] /\ pipes' = ps /\ s \in Seq(Carried)
        /\ \A k \in Router, a \in Addr : waiting'[k][a] =
                IF k = r /\ a = m.to THEN Append(s, m) ELSE waiting[k][a]
    BY <1>3, <2>a, RouteLaterEffect
  <2>2. /\ DOMAIN Append(s, m) = DOMAIN s \cup {Len(s) + 1}
        /\ \A j \in DOMAIN s : Append(s, m)[j] = s[j]
        /\ Append(s, m)[Len(s) + 1] = m
        /\ Len(s) + 1 \in Nat
    BY <2>1, Appended
  <2>b. PICK t : t = AtBox(r, m.to, Len(s) + 1)
    OBVIOUS
  <2>3. ASSUME NEW y \in Spot, NEW w \in Carried, IsAt(w, y)'
        PROVE  CameFrom(ps, Unmoved, w, y) \/ (y = t /\ w = m)
    <3>1. CASE y \in Box
      <4>a. PICK k, a, i : k = y.r /\ a = y.a /\ i = y.i
        OBVIOUS
      <4>1. k \in Router /\ a \in Addr /\ y = AtBox(k, a, i) /\ InBox(w, k, a, i)'
        BY <2>3, <3>1, <4>a, Presence, Places
      <4>2. InBox(w, k, a, i) \/ (k = r /\ a = m.to /\ i = Len(s) + 1 /\ w = m)
        <5>1. CASE k = r /\ a = m.to
          <6>1. waiting'[k][a] = Append(s, m) /\ waiting[k][a] = s
            BY <2>1, <2>a, <4>1, <5>1
          <6>. QED
            BY <2>2, <4>1, <5>1, <6>1 DEF InBox
        <5>2. CASE ~(k = r /\ a = m.to)
          BY <2>1, <4>1, <5>2 DEF InBox
        <5>. QED
          BY <5>1, <5>2
      <4>3. CASE InBox(w, k, a, i)
        <5>1. IsIn(ps, w, y)
          BY <3>1, <4>3, <4>a, Presence
        <5>. QED
          BY <1>1, <5>1 DEF Unmoved
      <4>. QED
        BY <2>b, <4>1, <4>2, <4>3
    <3>2. CASE y \in Wire
      <4>1. IsIn(ps, w, y)
        BY <2>1, <2>3, <3>2, Presence DEF OnWire
      <4>. QED
        BY <1>1, <4>1 DEF Unmoved
    <3>. QED
      BY <3>1, <3>2 DEF Spot
  <2>4. t \in Spot
    <3>1. t \in Box
      BY <1>0, <2>2, <2>b, Places
    <3>. QED
      BY <3>1 DEF Spot
  <2>5. RoutedTo(ps, r, m, Unmoved, t)
    BY <2>1, <2>3, <2>4 DEF RoutedTo
  <2>. QED
    BY <2>5
<1>4. CASE RouteByPipe(ps, r, m)
  <2>1. PICK p \in DOMAIN pipes, last \in Carried : WrittenTo(ps, r, m, p, last)
    BY <1>4, RouteByPipeEffect
  <2>a. PICK box : box = waiting[r][m.to]
    OBVIOUS
  <2>b. PICK n : n = Len(ps[p].wire[Peer(r)])
    OBVIOUS
  <2>c. PICK h : h = Onward(r, m.to, p, n)
    OBVIOUS
  <2>d. PICK t : t = AtWire(Peer(r), p, n + Len(box) + 1)
    OBVIOUS
  <2>2. /\ m.to \notin nEps[r] /\ last = Addressed(m, Own(r, p))
        /\ \A k \in Router, a \in Addr : waiting'[k][a] =
                IF k = r /\ a = m.to THEN <<>> ELSE waiting[k][a]
    BY <2>1 DEF WrittenTo
  <2>3. last.letter = m.letter /\ last.kind = m.kind
    <3>1. Own(r, p) \in Addr
      BY Addresses
    <3>. QED
      BY <2>2, <3>1, AddressedFields
  <2>4. p \in Nat /\ n \in Nat /\ Peer(r) \in Router /\ Len(box) \in Nat /\ DOMAIN box \subseteq Nat
    <3>1. ps[p].wire[Peer(r)] \in Seq(Written) /\ p \in Nat
      BY RouterPeer, PipeFields
    <3>2. box \in Seq(Carried)
      BY <1>0, <2>a
    <3>. QED
      BY <2>b, <3>1, <3>2, RouterPeer
  <2>5. /\ \A j \in Nat : /\ AtBox(r, m.to, j) \in Box
                          /\ h[AtBox(r, m.to, j)] = AtWire(Peer(r), p, n + j)
                          /\ \A w : IsIn(ps, w, AtBox(r, m.to, j)) <=> InBox(w, r, m.to, j)
        /\ \A x \in Spot : x \notin Box \/ x.r # r \/ x.a # m.to => h[x] = x
    <3>1. IsOnward(h, r, m.to, p, n, ps)
      BY <1>0, <2>4, <2>c, OnwardFrom
    <3>. QED
      BY <3>1 DEF IsOnward
  <2>6. ASSUME NEW y \in Spot, NEW w \in Carried, IsAt(w, y)'
        PROVE  CameFrom(ps, h, w, y) \/ (y = t /\ w = last)
    <3>1. CASE y \in Box
      <4>1. y.r \in Router /\ y.a \in Addr /\ InBox(w, y.r, y.a, y.i)'
        BY <2>6, <3>1, Presence, Places
      <4>2. ~(y.r = r /\ y.a = m.to) /\ InBox(w, y.r, y.a, y.i)
        <5>1. \A i : i \notin DOMAIN <<>>
          OBVIOUS
        <5>. QED
          BY <2>2, <4>1, <5>1 DEF InBox
      <4>3. IsIn(ps, w, y)
        BY <3>1, <4>2, Presence
      <4>. QED
        BY <1>1, <2>5, <4>2, <4>3
    <3>2. CASE y \in Wire
      <4>a. PICK k, q, i : k = y.r /\ q = y.p /\ i = y.i
        OBVIOUS
      <4>1. k \in Router /\ y = AtWire(k, q, i) /\ OnWire(pipes, w, k, q, i)'
        BY <2>6, <3>2, <4>a, Presence, Places
      <4>2. q \in DOMAIN pipes /\ i \in DOMAIN pipes'[q].wire[k] /\ pipes'[q].wire[k][i] = w
        BY <4>1 DEF OnWire
      <4>3. IsWritten(ps, r, m, p, last, q, k, i)
        BY <2>1, <4>1, <4>2, RoutePositions
      <4>4. \/ OnWire(ps, w, k, q, i)
            \/ /\ q = p /\ k = Peer(r) /\ i \in Nat /\ i - n \in DOMAIN box /\ w = box[i - n]
            \/ q = p /\ k = Peer(r) /\ i = n + Len(box) + 1 /\ w = last
        BY <4>2, <4>3, <2>a, <2>b DEF IsWritten, OnWire
      <4>5. CASE OnWire(ps, w, k, q, i)
        <5>1. IsIn(ps, w, y)
          BY <3>2, <4>5, <4>a, Presence
        <5>2. y \notin Box
          BY <3>2, Places
        <5>. QED
          BY <1>1, <2>5, <5>1, <5>2
      <4>6. CASE q = p /\ k = Peer(r) /\ i \in Nat /\ i - n \in DOMAIN box /\ w = box[i - n]
        <5>a. PICK j : j = i - n
          OBVIOUS
        <5>1. j \in Nat /\ n + j = i /\ InBox(w, r, m.to, j)
          BY <2>4, <2>a, <4>6, <5>a DEF InBox
        <5>2. AtBox(r, m.to, j) \in Spot /\ h[AtBox(r, m.to, j)] = y /\ IsIn(ps, w, AtBox(r, m.to, j))
          BY <2>5, <4>1, <4>6, <5>1 DEF Spot
        <5>. QED
          BY <5>2 DEF CameFrom
      <4>. QED
        BY <2>d, <4>1, <4>4, <4>5, <4>6
    <3>. QED
      BY <3>1, <3>2 DEF Spot
  <2>7. t \in Spot
    BY <2>4, <2>d, Places DEF Spot
  <2>8. RoutedTo(ps, r, m, h, t)
    BY <2>2, <2>3, <2>6, <2>7 DEF RoutedTo
  <2>. QED
    BY <2>8
<1>. QED
  BY <1>2, <1>3, <1>4 DEF Route

\* The callback sends on what has been accumulated.
LEMMA AnnounceMoves ==
    ASSUME TypeOK, NEW r \in Router, NEW p \in DOMAIN pipes, Announce(r, p)
    PROVE  \E h : \A y \in Spot, w \in Carried : IsAt(w, y)' => CameFrom(pipes, h, w, y)
<1>1. PICK g \in Nat, ms \in Seq(Written) : AnnouncedTo(r, p, g, ms)
  BY AnnounceEffect
<1>a. PICK to : to = Remote(r, p)
  OBVIOUS
<1>b. PICK box : box = waiting[r][to]
  OBVIOUS
<1>c. PICK n : n = Len(pipes[p].wire[Peer(r)])
  OBVIOUS
<1>d. PICK h : h = Onward(r, to, p, n + g)
  OBVIOUS
<1>2. /\ box \in Seq(Carried) /\ DOMAIN pipes' = DOMAIN pipes
      /\ \A k \in Router, a \in Addr : waiting'[k][a] =
              IF k = r /\ a = to THEN <<>> ELSE waiting[k][a]
  BY <1>1, <1>a, <1>b DEF AnnouncedTo
<1>3. to \in Addr /\ Own(r, p) \in Addr
  BY <1>a, Addresses
<1>4. p \in Nat /\ n \in Nat /\ n + g \in Nat /\ Peer(r) \in Router /\ DOMAIN box \subseteq Nat
  <2>1. pipes[p].wire[Peer(r)] \in Seq(Written) /\ p \in Nat
    BY RouterPeer, PipeFields DEF TypeOK
  <2>. QED
    BY <1>2, <1>c, <2>1, RouterPeer
<1>5. /\ \A j \in Nat : /\ AtBox(r, to, j) \in Box
                        /\ h[AtBox(r, to, j)] = AtWire(Peer(r), p, n + g + j)
                        /\ \A w : IsIn(pipes, w, AtBox(r, to, j)) <=> InBox(w, r, to, j)
      /\ \A x \in Spot : x \notin Box \/ x.r # r \/ x.a # to => h[x] = x
  <2>1. IsOnward(h, r, to, p, n + g, pipes)
    BY <1>3, <1>4, <1>d, OnwardFrom
  <2>. QED
    BY <2>1 DEF IsOnward
<1>6. ASSUME NEW y \in Spot, NEW w \in Carried, IsIn(pipes, w, y), h[y] = y
      PROVE  CameFrom(pipes, h, w, y)
  BY <1>6 DEF CameFrom
<1>7. ASSUME NEW y \in Spot, NEW w \in Carried, IsAt(w, y)'
      PROVE  CameFrom(pipes, h, w, y)
  <2>1. CASE y \in Box
    <3>1. y.r \in Router /\ y.a \in Addr /\ InBox(w, y.r, y.a, y.i)'
      BY <1>7, <2>1, Presence, Places
    <3>2. ~(y.r = r /\ y.a = to) /\ InBox(w, y.r, y.a, y.i)
      <4>1. \A i : i \notin DOMAIN <<>>
        OBVIOUS
      <4>. QED
        BY <1>2, <3>1, <4>1 DEF InBox
    <3>3. IsIn(pipes, w, y)
      BY <2>1, <3>2, Presence
    <3>. QED
      BY <1>5, <1>6, <3>2, <3>3
  <2>2. CASE y \in Wire
    <3>a. PICK k, q, i : k = y.r /\ q = y.p /\ i = y.i
      OBVIOUS
    <3>1. k \in Router /\ y = AtWire(k, q, i) /\ OnWire(pipes, w, k, q, i)'
      BY <1>7, <2>2, <3>a, Presence, Places
    <3>2. q \in DOMAIN pipes /\ i \in DOMAIN pipes'[q].wire[k] /\ pipes'[q].wire[k][i] = w
      BY <1>2, <3>1 DEF OnWire
    <3>3. IsSentOn(r, p, g, q, k, i) /\ w # Announcement
      BY <1>1, <3>1, <3>2, AnnouncePositions, MessageFields
    <3>4. \/ OnWire(pipes, w, k, q, i)
          \/ /\ q = p /\ k = Peer(r) /\ i \in Nat /\ i - n - g \in DOMAIN box
             /\ w = Addressed(box[i - n - g], Own(r, p))
      BY <3>2, <3>3, <1>a, <1>b, <1>c DEF IsSentOn, OnWire
    <3>5. CASE OnWire(pipes, w, k, q, i)
      <4>1. IsIn(pipes, w, y)
        BY <2>2, <3>5, <3>a, Presence
      <4>2. y \notin Box
        BY <2>2, Places
      <4>. QED
        BY <1>5, <1>6, <4>1, <4>2
    <3>6. CASE /\ q = p /\ k = Peer(r) /\ i \in Nat /\ i - n - g \in DOMAIN box
               /\ w = Addressed(box[i - n - g], Own(r, p))
      <4>a. PICK j : j = i - n - g
        OBVIOUS
      <4>b. PICK v : v = box[j]
        OBVIOUS
      <4>1. j \in Nat /\ j \in DOMAIN box
        BY <1>4, <3>6, <4>a
      <4>2. n + g + j = i
        BY <1>4, <3>6, <4>1, <4>a
      <4>3. v \in Carried /\ InBox(v, r, to, j)
        BY <1>2, <1>b, <4>1, <4>b DEF InBox
      <4>4. w.letter = v.letter /\ w.kind = v.kind
        BY <1>3, <3>6, <4>3, <4>a, <4>b, AddressedFields
      <4>5. AtBox(r, to, j) \in Spot /\ h[AtBox(r, to, j)] = y /\ IsIn(pipes, v, AtBox(r, to, j))
        BY <1>5, <3>1, <3>6, <4>1, <4>2, <4>3 DEF Spot
      <4>. QED
        BY <4>3, <4>4, <4>5 DEF CameFrom
    <3>. QED
      BY <3>4, <3>5, <3>6
  <2>. QED
    BY <2>1, <2>2 DEF Spot
<1>. QED
  BY <1>7

\* A letter that is in one place at most, and is counted as it should be.
LEMMA Settled ==
    ASSUME NEW l \in Letter, NEW t,
           \A y \in Place, w \in Carried : w.letter = l /\ IsAt(w, y)' => y = t,
           \A y \in Place, w \in Carried : w.letter = l /\ IsAt(w, y)' => answered'[l] = 0,
           \A y \in Spot, w \in Carried :
                w.letter = l /\ w.kind = "letter" /\ IsAt(w, y)' => arrived'[l] = 0,
           ~(l.n > sent'[l.from]), arrived'[l] <= 1, answered'[l] <= 1
    PROVE  OnePlaceOf(l)'
<1>1. \A y \in Place : Carries(l, y)' => y = t /\ answered'[l] = 0
  BY DEF Carries
<1>. QED
  BY <1>1 DEF OnePlaceOf

\* The letter of the message that is routed, when it is nowhere else.
LEMMA RoutedLetter ==
    ASSUME TypeOK, NEW r \in Router, NEW ps \in Seq(Pipe), DOMAIN ps = DOMAIN pipes,
           NEW m \in Carried, Route(ps, r, m), DOMAIN pipes' = DOMAIN pipes,
           NEW l \in Letter, l = m.letter,
           \A x \in Spot, w \in Carried : w.letter = l => ~IsIn(ps, w, x),
           answered[l] = 0, arrived[l] <= 1, m.kind = "letter" => arrived[l] = 0,
           ~(l.n > sent'[l.from]),
           \A k \in Router, w \in Carried : w.letter = l /\ w \in due'[k] =>
                k = r /\ w = m /\ m.kind = "letter" /\ m.to \in nEps[r]
    PROVE  OnePlaceOf(l)'
<1>1. PICK h, t : RoutedTo(ps, r, m, h, t)
  BY RouteMoves
<1>2. ASSUME NEW y \in Spot, NEW w \in Carried, w.letter = l, IsAt(w, y)'
      PROVE  y = t /\ w.kind = m.kind /\ m.to \notin nEps[r]
  <2>1. ~CameFrom(ps, h, w, y)
    BY <1>2 DEF CameFrom
  <2>. QED
    BY <1>1, <1>2, <2>1 DEF RoutedTo
<1>3. ASSUME NEW y \in Due, NEW w \in Carried, w.letter = l, IsAt(w, y)'
      PROVE  y = AtDue(r, m) /\ m.kind = "letter" /\ m.to \in nEps[r]
  <2>1. y.r \in Router /\ w \in due'[y.r] /\ y = AtDue(y.r, w)
    BY <1>3, Presence, Places
  <2>. QED
    BY <1>3, <2>1
<1>4. arrived[l] \in Nat /\ answered[l] \in Nat
  BY DEF TypeOK
<1>5. CASE m.to \in nEps[r]
  <2>1. /\ arrived'[l] = IF m.kind = "letter" THEN arrived[l] + 1 ELSE arrived[l]
        /\ answered'[l] = IF m.kind = "answer" /\ m.letter.from = r
                          THEN answered[l] + 1 ELSE answered[l]
    <3>1. Deliver(ps, r, m)
      BY <1>5 DEF Route, RouteByPipe, RouteLater
    <3>. QED
      BY <3>1, DeliverEffect
  <2>2. arrived'[l] <= 1 /\ answered'[l] <= 1
    BY <1>4, <2>1
  <2>3. \A y \in Place, w \in Carried : w.letter = l /\ IsAt(w, y)' =>
            y = AtDue(r, m) /\ answered'[l] = 0
    <3>1. m.kind = "letter" => answered'[l] = 0
      BY <2>1
    <3>. QED
      BY <1>2, <1>3, <1>5, <3>1 DEF Place
  <2>4. \A y \in Spot, w \in Carried : ~(w.letter = l /\ IsAt(w, y)')
    BY <1>2, <1>5
  <2>a. PICK d : d = AtDue(r, m)
    OBVIOUS
  <2>5. /\ \A y \in Place, w \in Carried : w.letter = l /\ IsAt(w, y)' => y = d
        /\ \A y \in Place, w \in Carried : w.letter = l /\ IsAt(w, y)' => answered'[l] = 0
    BY <2>3, <2>a
  <2>6. \A y \in Spot, w \in Carried :
            w.letter = l /\ w.kind = "letter" /\ IsAt(w, y)' => arrived'[l] = 0
    BY <2>4
  <2>. QED
    BY <2>2, <2>5, <2>6, Settled
<1>6. CASE m.to \notin nEps[r]
  <2>1. arrived' = arrived /\ answered' = answered
    BY <1>6 DEF Route, Deliver, RouteByPipe, RouteLater, outcomeVars
  <2>2. /\ \A y \in Place, w \in Carried : w.letter = l /\ IsAt(w, y)' => y = t
        /\ \A y \in Place, w \in Carried : w.letter = l /\ IsAt(w, y)' => answered'[l] = 0
    BY <1>2, <1>3, <1>6, <2>1 DEF Place
  <2>3. \A y \in Spot, w \in Carried :
            w.letter = l /\ w.kind = "letter" /\ IsAt(w, y)' => arrived'[l] = 0
    BY <1>2, <2>1
  <2>4. arrived'[l] <= 1 /\ answered'[l] <= 1
    BY <1>4, <2>1
  <2>. QED
    BY <2>2, <2>3, <2>4, Settled
<1>. QED
  BY <1>5, <1>6

\* The other letters.
LEMMA OtherLetters ==
    ASSUME TypeOK, NEW r, NEW ps, NEW m \in Carried, Route(ps, r, m),
           NEW l \in Letter, l # m.letter
    PROVE  arrived'[l] = arrived[l] /\ answered'[l] = answered[l]
<1>1. arrived \in [Letter -> Nat] /\ answered \in [Letter -> Nat]
  BY DEF TypeOK
<1>. QED
  BY <1>1 DEF Route, Deliver, RouteByPipe, RouteLater, outcomeVars

LEMMA SendOnePlace ==
    ASSUME TypeOK, OnePlace, NEW r \in Router, Send(r)
    PROVE  OnePlace'
<1>a. PICK new : new = [from |-> r, n |-> sent[r] + 1]
  OBVIOUS
<1>b. PICK m : m = Message("letter", new, Listening(Peer(r)))
  OBVIOUS
<1>0. pipes \in Seq(Pipe) /\ sent \in [Router -> Nat]
  BY DEF TypeOK
<1>1. /\ new \in Letter /\ m \in Carried /\ sent' \in [Router -> Nat]
      /\ \A k \in Router : sent'[k] = IF k = r THEN sent[r] + 1 ELSE sent[k]
      /\ Route(pipes, r, m) /\ due' = due
  BY <1>a, <1>b, SendTypes DEF Send
<1>2. m.letter = new /\ new.from = r /\ new.n = sent[r] + 1 /\ sent[r] \in Nat
  BY <1>0, <1>a, <1>b DEF Message
<1>3. DOMAIN pipes' = DOMAIN pipes
  BY <1>0, <1>1, RouteTypes
<1>4. PICK h, t : RoutedTo(pipes, r, m, h, t)
  BY <1>0, <1>1, <1>3, RouteMoves
<1>5. ASSUME NEW l \in Letter, l # new PROVE OnePlaceOf(l)'
  <2>1. arrived'[l] = arrived[l] /\ answered'[l] = answered[l]
    BY <1>1, <1>2, <1>5, OtherLetters
  <2>2. \A y \in Spot, w \in Carried : w.letter = l /\ IsAt(w, y)' => CameFrom(pipes, h, w, y)
    BY <1>2, <1>4, <1>5 DEF RoutedTo
  <2>3. sent'[l.from] \in Nat /\ sent[l.from] <= sent'[l.from]
    BY <1>0, <1>1, LetterFields
  <2>4. OnePlaceOf(l)
    BY DEF OnePlace
  <2>. QED
    BY <1>1, <2>1, <2>2, <2>3, <2>4, Moved
<1>6. OnePlaceOf(new)'
  <2>1. new.n > sent[new.from] /\ ~(new.n > sent'[new.from])
    BY <1>1, <1>2
  <2>2. (\A x \in Place : ~Carries(new, x)) /\ arrived[new] = 0 /\ answered[new] = 0
    BY <1>1, <2>1 DEF OnePlace, OnePlaceOf
  <2>3. \A x \in Spot, w \in Carried : w.letter = new => ~IsIn(pipes, w, x)
    BY <2>2 DEF Carries, IsAt, Place
  <2>4. ASSUME NEW k \in Router, NEW w \in Carried, w.letter = new, w \in due'[k] PROVE FALSE
    <3>a. PICK x : x = AtDue(k, w)
      OBVIOUS
    <3>1. x \in Due /\ x.r = k /\ x.w = w
      BY <3>a, Places DEF AtDue
    <3>2. IsIn(pipes, w, x)
      BY <1>1, <2>4, <3>1, Presence
    <3>3. Carries(new, x) /\ x \in Place
      BY <2>4, <3>1, <3>2 DEF Carries, IsAt, Place
    <3>. QED
      BY <2>2, <3>3
  <2>5. new = m.letter /\ ~(new.n > sent'[new.from]) /\ arrived[new] <= 1
    BY <1>2, <2>1, <2>2
  <2>. QED
    BY <1>0, <1>1, <1>3, <2>2, <2>3, <2>4, <2>5, RoutedLetter
<1>. QED
  BY <1>5, <1>6 DEF OnePlace

LEMMA AnswerOnePlace ==
    ASSUME TypeOK, OnePlace, NEW r \in Router, NEW v \in due[r], Answer(r, v)
    PROVE  OnePlace'
<1>a. PICK m : m = Message("answer", v.letter, v.back)
  OBVIOUS
<1>b. PICK old : old = v.letter
  OBVIOUS
<1>0. pipes \in Seq(Pipe) /\ sent \in [Router -> Nat] /\ due \in [Router -> SUBSET Answerable]
  BY DEF TypeOK
<1>1. /\ old \in Letter /\ v \in Carried /\ m \in Carried /\ sent' = sent
      /\ Route(pipes, r, m) /\ due' = [due EXCEPT ![r] = @ \ {v}]
      /\ m.letter = old /\ m.kind = "answer"
  BY <1>a, <1>b, AnswerTypes DEF Answer, Message
<1>2. \A k \in Router : due'[k] = IF k = r THEN due[r] \ {v} ELSE due[k]
  BY <1>0, <1>1
<1>3. DOMAIN pipes' = DOMAIN pipes
  BY <1>0, <1>1, RouteTypes
<1>4. PICK h, t : RoutedTo(pipes, r, m, h, t)
  BY <1>0, <1>1, <1>3, RouteMoves
<1>5. ASSUME NEW l \in Letter, l # old PROVE OnePlaceOf(l)'
  <2>1. arrived'[l] = arrived[l] /\ answered'[l] = answered[l]
    BY <1>1, <1>5, OtherLetters
  <2>2. \A y \in Spot, w \in Carried : w.letter = l /\ IsAt(w, y)' => CameFrom(pipes, h, w, y)
    BY <1>1, <1>4, <1>5 DEF RoutedTo
  <2>3. sent'[l.from] \in Nat /\ sent[l.from] <= sent'[l.from]
    BY <1>0, <1>1, LetterFields
  <2>4. OnePlaceOf(l)
    BY DEF OnePlace
  <2>5. \A k \in Router, w \in Carried : w.letter = l /\ w \in due'[k] => w \in due[k]
    BY <1>2
  <2>. QED
    BY <2>1, <2>2, <2>3, <2>4, <2>5, Moved
<1>6. OnePlaceOf(old)'
  <2>a. PICK src : src = AtDue(r, v)
    OBVIOUS
  <2>1. src \in Due /\ src \in Place /\ src.at = "due" /\ src.r = r /\ src.w = v
    BY <1>1, <2>a, Places DEF AtDue, Place
  <2>2. Carries(old, src)
    <3>1. IsIn(pipes, v, src)
      BY <2>1, Presence
    <3>. QED
      BY <1>1, <1>b, <3>1 DEF Carries, IsAt
  <2>3. /\ \A x \in Place : Carries(old, x) => x = src
        /\ ~(old.n > sent[old.from]) /\ answered[old] = 0 /\ arrived[old] <= 1
    BY <1>1, <2>1, <2>2 DEF OnePlace, OnePlaceOf
  <2>4. \A x \in Spot, w \in Carried : w.letter = old => ~IsIn(pipes, w, x)
    <3>1. src \notin Spot
      BY <2>1, Places DEF Spot
    <3>. QED
      BY <2>3, <3>1 DEF Carries, IsAt, Place
  <2>5. ASSUME NEW k \in Router, NEW w \in Carried, w.letter = old, w \in due'[k] PROVE FALSE
    <3>a. PICK x : x = AtDue(k, w)
      OBVIOUS
    <3>1. x \in Due /\ x.r = k /\ x.w = w
      BY <3>a, Places DEF AtDue
    <3>2. IsIn(pipes, w, x)
      BY <1>2, <2>5, <3>1, Presence
    <3>3. Carries(old, x) /\ x \in Place
      BY <2>5, <3>1, <3>2 DEF Carries, IsAt, Place
    <3>4. k = r /\ w = v
      BY <2>1, <2>3, <3>1, <3>3
    <3>. QED
      BY <1>2, <2>5, <3>4
  <2>6. ~(old.n > sent'[old.from])
    BY <1>1, <2>3
  <2>7. ~(m.kind = "letter")
    BY <1>1
  <2>. QED
    BY <1>0, <1>1, <1>3, <2>3, <2>4, <2>5, <2>6, <2>7, RoutedLetter
<1>. QED
  BY <1>5, <1>6 DEF OnePlace

LEMMA ReceiveOnePlace ==
    ASSUME TypeOK, OnePlace, NEW r \in Router, NEW p \in DOMAIN pipes, Receive(r, p)
    PROVE  OnePlace'
<1>a. PICK v : v = First(r, p)
  OBVIOUS
<1>b. PICK m : m = Addressed(First(r, p), Local(r, p))
  OBVIOUS
<1>c. PICK ps : ps = Received(r, p)
  OBVIOUS
<1>d. PICK src : src = AtWire(r, p, 1)
  OBVIOUS
<1>e. PICK f : f = Forward(r, p)
  OBVIOUS
<1>f. PICK old : old = v.letter
  OBVIOUS
<1>0. /\ pipes \in Seq(Pipe) /\ sent \in [Router -> Nat] /\ due \in [Router -> SUBSET Answerable]
  BY DEF TypeOK
<1>1. /\ pipes[p].wire[r] # <<>> /\ First(r, p) # Announcement /\ Route(ps, r, m)
      /\ due' = IF m.kind = "letter" /\ m.to \in nEps[r]
                THEN [due EXCEPT ![r] = @ \cup {m}] ELSE due
      /\ sent' = sent
  BY <1>b, <1>c DEF Receive, Receives
<1>2. ps \in Seq(Pipe) /\ DOMAIN ps = DOMAIN pipes /\ Len(ps) = Len(pipes)
  BY <1>1, <1>c, ReceivedEffect
<1>3. /\ v \in Carried /\ v = pipes[p].wire[r][1] /\ 1 \in DOMAIN pipes[p].wire[r]
      /\ m \in Carried /\ m.letter = old /\ m.kind = v.kind /\ old \in Letter
  BY <1>1, <1>a, <1>b, <1>f, FirstFields, MessageFields
<1>4. DOMAIN pipes' = DOMAIN pipes
  BY <1>1, <1>2, <1>3, RouteTypes
<1>5. \A k \in Router, w \in Carried : w \in due'[k] =>
        w \in due[k] \/ (k = r /\ w = m /\ m.kind = "letter" /\ m.to \in nEps[r])
  BY <1>0, <1>1
<1>6. ASSUME NEW w \in Carried, NEW y \in Spot, IsIn(ps, w, y)
      PROVE  \E x \in Spot : IsIn(pipes, w, x) /\ y = f[x] /\ x # src
  BY <1>1, <1>6, <1>c, <1>d, <1>e, ReceivedFrom
<1>7. PICK h, t : RoutedTo(ps, r, m, h, t)
  BY <1>1, <1>2, <1>3, <1>4, RouteMoves
<1>g. PICK g : g = [x \in Spot |-> h[f[x]]]
  OBVIOUS
<1>8. ASSUME NEW l \in Letter, l # old PROVE OnePlaceOf(l)'
  <2>1. arrived'[l] = arrived[l] /\ answered'[l] = answered[l]
    BY <1>1, <1>3, <1>8, OtherLetters
  <2>2. ASSUME NEW y \in Spot, NEW w \in Carried, w.letter = l, IsAt(w, y)'
        PROVE  CameFrom(pipes, g, w, y)
    <3>1. CameFrom(ps, h, w, y)
      BY <1>3, <1>7, <1>8, <2>2 DEF RoutedTo
    <3>2. PICK z \in Spot, u \in Carried :
            IsIn(ps, u, z) /\ y = h[z] /\ u.letter = w.letter /\ u.kind = w.kind
      BY <3>1 DEF CameFrom
    <3>3. PICK x \in Spot : IsIn(pipes, u, x) /\ z = f[x]
      BY <1>6, <3>2
    <3>4. g[x] = y
      BY <1>g, <3>2, <3>3
    <3>. QED
      BY <3>2, <3>3, <3>4 DEF CameFrom
  <2>3. sent'[l.from] \in Nat /\ sent[l.from] <= sent'[l.from]
    BY <1>0, <1>1, LetterFields
  <2>4. OnePlaceOf(l)
    BY DEF OnePlace
  <2>5. \A k \in Router, w \in Carried : w.letter = l /\ w \in due'[k] => w \in due[k]
    BY <1>3, <1>5, <1>8
  <2>. QED
    BY <2>1, <2>2, <2>3, <2>4, <2>5, Moved
<1>9. OnePlaceOf(old)'
  <2>1. /\ src \in Wire /\ src \in Spot /\ src \in Place
        /\ src.at = "wire" /\ src.r = r /\ src.p = p /\ src.i = 1
    <3>1. p \in Nat
      BY <1>0, PipeFields
    <3>. QED
      BY <1>d, <3>1, Places DEF AtWire, Place, Spot
  <2>2. IsIn(pipes, v, src)
    <3>1. OnWire(pipes, v, r, p, 1)
      BY <1>3 DEF OnWire
    <3>. QED
      BY <2>1, <3>1, Presence
  <2>3. Carries(old, src)
    BY <1>3, <1>f, <2>2 DEF Carries, IsAt
  <2>4. /\ \A x \in Place : Carries(old, x) => x = src
        /\ ~(old.n > sent[old.from]) /\ answered[old] = 0 /\ arrived[old] <= 1
        /\ m.kind = "letter" => arrived[old] = 0
    <3>1. OnePlaceOf(old)
      BY <1>3 DEF OnePlace
    <3>2. v.kind = "letter" => arrived[old] = 0
      BY <1>3, <1>f, <2>1, <2>2, <3>1 DEF OnePlaceOf, IsAt
    <3>. QED
      BY <1>3, <2>1, <2>3, <3>1, <3>2 DEF OnePlaceOf
  <2>5. ASSUME NEW y \in Spot, NEW w \in Carried, w.letter = old, IsIn(ps, w, y) PROVE FALSE
    <3>1. PICK x \in Spot : IsIn(pipes, w, x) /\ x # src
      BY <1>6, <2>5
    <3>2. x \in Place /\ Carries(old, x)
      BY <2>5, <3>1 DEF Carries, IsAt, Place
    <3>. QED
      BY <2>4, <3>1, <3>2
  <2>6. ASSUME NEW k \in Router, NEW w \in Carried, w.letter = old, w \in due[k] PROVE FALSE
    <3>a. PICK x : x = AtDue(k, w)
      OBVIOUS
    <3>1. x \in Due /\ x.r = k /\ x.w = w
      BY <3>a, Places DEF AtDue
    <3>2. IsIn(pipes, w, x)
      BY <2>6, <3>1, Presence
    <3>3. Carries(old, x) /\ x \in Place
      BY <2>6, <3>1, <3>2 DEF Carries, IsAt, Place
    <3>. QED
      BY <2>1, <2>4, <3>1, <3>3, Places
  <2>7. \A k \in Router, w \in Carried : w.letter = old /\ w \in due'[k] =>
            k = r /\ w = m /\ m.kind = "letter" /\ m.to \in nEps[r]
    BY <1>5, <2>6
  <2>8. ~(old.n > sent'[old.from])
    BY <1>1, <2>4
  <2>. QED
    BY <1>1, <1>2, <1>3, <1>4, <2>4, <2>5, <2>7, <2>8, RoutedLetter
<1>. QED
  BY <1>8, <1>9 DEF OnePlace

\* A step that sends and delivers nothing.
LEMMA MovedOnePlace ==
    ASSUME TypeOK, OnePlace, NEW h,
           \A y \in Spot, w \in Carried : IsAt(w, y)' => CameFrom(pipes, h, w, y),
           UNCHANGED <<sent, due, arrived, answered>>
    PROVE  OnePlace'
<1>1. ASSUME NEW l \in Letter PROVE OnePlaceOf(l)'
  <2>1. OnePlaceOf(l)
    BY DEF OnePlace
  <2>2. sent'[l.from] \in Nat /\ sent[l.from] <= sent'[l.from]
    BY LetterFields DEF TypeOK
  <2>. QED
    BY <2>1, <2>2, Moved
<1>. QED
  BY <1>1 DEF OnePlace

\* One that neither writes nor reads.
LEMMA StillOnePlace ==
    ASSUME TypeOK, OnePlace,
           \A k \in Router, w \in Carried : \A q, i :
                OnWire(pipes, w, k, q, i)' => OnWire(pipes, w, k, q, i),
           UNCHANGED <<sent, waiting, due, arrived, answered>>
    PROVE  OnePlace'
<1>1. ASSUME NEW y \in Spot, NEW w \in Carried, IsAt(w, y)' PROVE CameFrom(pipes, Unmoved, w, y)
  <2>1. CASE y \in Box
    BY <1>1, <2>1, Presence DEF InBox, CameFrom, Unmoved
  <2>2. CASE y \in Wire
    <3>1. IsIn(pipes, w, y)
      BY <1>1, <2>2, Presence, Places
    <3>. QED
      BY <3>1 DEF CameFrom, Unmoved
  <2>. QED
    BY <2>1, <2>2 DEF Spot
<1>. QED
  BY <1>1, MovedOnePlace

LEMMA OnePlaceInv ==
    ASSUME TypeOK, Routes, OnePlace, Next
    PROVE  OnePlace'
<1>. USE DEF traffic, outcomeVars
<1>0. pipes \in Seq(Pipe)
  BY DEF TypeOK
<1>1. ASSUME NEW r \in Router, Listen(r) \/ ListenHangs(r) PROVE OnePlace'
  <2>1. UNCHANGED <<pipes, sent, waiting, due, arrived, answered>>
    BY <1>1 DEF Listen, ListenHangs
  <2>. QED
    BY <2>1, StillOnePlace DEF OnWire
<1>2. ASSUME NEW r \in Router, NEW dial \in DOMAIN dials[r], Connect(r, dial) PROVE OnePlace'
  <2>a. PICK p : p = Len(pipes) + 1
    OBVIOUS
  <2>1. /\ DOMAIN pipes' = DOMAIN pipes \cup {p} /\ \A q \in DOMAIN pipes : pipes'[q] = pipes[q]
        /\ \A k \in Router : pipes'[p].wire[k] = <<>>
    BY <1>2, <2>a, ConnectEffect
  <2>2. UNCHANGED <<sent, waiting, due, arrived, answered>>
    BY <1>2 DEF Connect
  <2>3. \A k \in Router, w \in Carried : \A q, i :
            OnWire(pipes, w, k, q, i)' => OnWire(pipes, w, k, q, i)
    <3>1. \A i : i \notin DOMAIN <<>>
      OBVIOUS
    <3>. QED
      BY <2>1, <3>1 DEF OnWire
  <2>. QED
    BY <2>2, <2>3, StillOnePlace
<1>3. ASSUME NEW p \in DOMAIN pipes, Cut(p) PROVE OnePlace'
  <2>1. /\ DOMAIN pipes' = DOMAIN pipes /\ \A q \in DOMAIN pipes : q # p => pipes'[q] = pipes[q]
        /\ Unstaged(pipes'[p], pipes[p])
    BY <1>3, CutEffect
  <2>2. UNCHANGED <<sent, waiting, due, arrived, answered>>
    BY <1>3 DEF Cut
  <2>3. \A k \in Router, w \in Carried : \A q, i :
            OnWire(pipes, w, k, q, i)' => OnWire(pipes, w, k, q, i)
    BY <2>1 DEF OnWire, Unstaged
  <2>. QED
    BY <2>2, <2>3, StillOnePlace
<1>4. ASSUME NEW r \in Router, NEW p \in DOMAIN pipes, Add(r, p) \/ Learn(r, p) \/ Name(r, p) \/ Forget(r, p)
      PROVE  OnePlace'
  <2>1. \E from : \E to \in Stage : Step(r, p, from, to)
    BY <1>4 DEF Add, Learn, Name, Forget, Stage
  <2>2. /\ DOMAIN pipes' = DOMAIN pipes /\ \A q \in DOMAIN pipes : q # p => pipes'[q] = pipes[q]
        /\ Unstaged(pipes'[p], pipes[p])
    BY <2>1, StepEffect
  <2>3. UNCHANGED <<sent, waiting, due, arrived, answered>>
    BY <1>4 DEF Add, Learn, Name, Forget
  <2>4. \A k \in Router, w \in Carried : \A q, i :
            OnWire(pipes, w, k, q, i)' => OnWire(pipes, w, k, q, i)
    BY <2>2 DEF OnWire, Unstaged
  <2>. QED
    BY <2>3, <2>4, StillOnePlace
<1>5. ASSUME NEW r \in Router, NEW p \in DOMAIN pipes,
             RegisterRouteBack(r, p) \/ ReceiveFails(r, p)
      PROVE  OnePlace'
  <2>1. /\ pipes[p].wire[r] # <<>> /\ pipes' = Received(r, p)
        /\ UNCHANGED <<sent, waiting, due, arrived, answered>>
    BY <1>5 DEF RegisterRouteBack, ReceiveFails, Receives
  <2>2. ASSUME NEW y \in Spot, NEW w \in Carried, IsAt(w, y)'
        PROVE  CameFrom(pipes, Forward(r, p), w, y)
    <3>1. IsIn(Received(r, p), w, y)
      <4>1. CASE y \in Box
        BY <2>1, <2>2, <4>1, Presence DEF InBox
      <4>2. CASE y \in Wire
        BY <2>1, <2>2, <4>2, Presence DEF OnWire
      <4>. QED
        BY <4>1, <4>2 DEF Spot
    <3>2. \E x \in Spot : IsIn(pipes, w, x) /\ y = Forward(r, p)[x]
      BY <2>1, <3>1, ReceivedFrom
    <3>. QED
      BY <3>2 DEF CameFrom
  <2>. QED
    BY <2>1, <2>2, MovedOnePlace
<1>6. ASSUME NEW r \in Router, NEW p \in DOMAIN pipes, Announce(r, p) PROVE OnePlace'
  <2>1. PICK h : \A y \in Spot, w \in Carried : IsAt(w, y)' => CameFrom(pipes, h, w, y)
    BY <1>6, AnnounceMoves
  <2>2. UNCHANGED <<sent, due, arrived, answered>>
    BY <1>6 DEF Announce, Write
  <2>. QED
    BY <2>1, <2>2, MovedOnePlace
<1>7. ASSUME NEW r \in Router, Send(r) PROVE OnePlace'
  BY <1>7, SendOnePlace
<1>8. ASSUME NEW r \in Router, NEW v \in due[r], Answer(r, v) PROVE OnePlace'
  BY <1>8, AnswerOnePlace
<1>9. ASSUME NEW r \in Router, NEW p \in DOMAIN pipes, Receive(r, p) PROVE OnePlace'
  BY <1>9, ReceiveOnePlace
<1>. QED
  BY <1>1, <1>2, <1>3, <1>4, <1>5, <1>6, <1>7, <1>8, <1>9 DEF Next, Agents, SockRecv, Callback

(***************************************************************************)
(* The theorems                                                            *)
(***************************************************************************)

LEMMA InitInv ==
    ASSUME Init
    PROVE  NetworkInv
<1>0. /\ pipes = <<>> /\ DOMAIN pipes = {} /\ Len(pipes) = 0
      /\ \A r \in Router : due[r] = {} /\ nEps[r] = {} /\ sent[r] = 0
      /\ \A r \in Router, a \in Addr : waiting[r][a] = <<>> /\ routes[r][a] = <<>>
      /\ \A l \in Letter : arrived[l] = 0 /\ answered[l] = 0
  BY DEF Init
<1>1. TypeOK
  <2>1. <<>> \in Seq(Carried) /\ <<>> \in Seq(Pipe) /\ <<>> \in Seq(DOMAIN pipes) /\ <<>> \in Seq(Addr)
    OBVIOUS
  <2>2. routes \in [Router -> [Addr -> Seq(DOMAIN pipes)]] /\ waiting \in [Router -> [Addr -> Seq(Carried)]]
    BY <2>1 DEF Init
  <2>3. dials \in [Router -> Seq(Addr)] /\ pipes \in Seq(Pipe) /\ Len(pipes) <= MaxPipes
    BY <1>0, <2>1, BoundsAssumption DEF Init
  <2>4. sent \in [Router -> Nat] /\ \A r \in Router : sent[r] <= MaxSends[r]
    <3>1. \A r \in Router : MaxSends[r] \in Nat
      BY BoundsAssumption
    <3>. QED
      BY <1>0, <3>1 DEF Init
  <2>5. /\ life \in [Router -> {"up", "deaf", "stuck"}]
        /\ nEps \in [Router -> SUBSET Addr] /\ \A r \in Router : \A a \in nEps[r] : a.of = r
        /\ known \in [Router -> SUBSET DOMAIN pipes] /\ due \in [Router -> SUBSET Answerable]
        /\ arrived \in [Letter -> Nat] /\ answered \in [Letter -> Nat]
        /\ bare \subseteq Letter /\ early \subseteq Letter /\ late \subseteq Letter
    BY <1>0 DEF Init
  <2>. QED
    BY <2>2, <2>3, <2>4, <2>5 DEF TypeOK
<1>2. Stages /\ DialersAnnounce
  BY <1>0 DEF Stages, DialersAnnounce
<1>e. \A i : i \notin DOMAIN <<>>
  OBVIOUS
<1>3. Routes
  BY <1>0, <1>e DEF Routes, NoneTwice
<1>4. Backs
  BY <1>0, <1>e DEF Backs, GoodBoxes, GoodWires, GoodDues, InBox, OnWire
<1>5. ASSUME NEW w, NEW x \in Place PROVE ~IsAt(w, x)
  <2>1. CASE x \in Box
    <3>1. ~InBox(w, x.r, x.a, x.i)
      BY <1>0, <1>e, <2>1, Places DEF InBox
    <3>. QED
      BY <2>1, <3>1, Presence DEF IsAt
  <2>2. CASE x \in Wire
    BY <1>0, <2>2, Presence DEF IsAt, OnWire
  <2>3. CASE x \in Due
    BY <1>0, <2>3, Presence, Places DEF IsAt
  <2>. QED
    BY <2>1, <2>2, <2>3 DEF Place, Spot
<1>6. OnePlace
  <2>1. ASSUME NEW l \in Letter PROVE OnePlaceOf(l)
    <3>1. \A x \in Place : ~Carries(l, x)
      BY <1>5 DEF Carries
    <3>2. \A x \in Spot, w \in Carried : ~IsAt(w, x)
      BY <1>5 DEF Place
    <3>. QED
      BY <1>0, <3>1, <3>2 DEF OnePlaceOf
  <2>. QED
    BY <2>1 DEF OnePlace
<1>. QED
  BY <1>1, <1>2, <1>3, <1>4, <1>6 DEF NetworkInv

LEMMA StutterInv ==
    ASSUME NetworkInv, UNCHANGED vars
    PROVE  NetworkInv'
<1>. USE DEF vars, outcomeVars
<1>1. TypeOK'
  BY DEF NetworkInv, TypeOK
<1>2. Stages' /\ DialersAnnounce' /\ Routes'
  BY DEF NetworkInv, Stages, StagesOf, Local, DialersAnnounce, Routes
<1>3. Backs'
  BY DEF NetworkInv, Backs, GoodBoxes, GoodWires, GoodDues, GoodBox, GoodWire, Good, IsSenders,
         InBox, OnWire, Local
<1>4. OnePlace'
  BY StillOnePlace DEF NetworkInv, OnWire
<1>. QED
  BY <1>1, <1>2, <1>3, <1>4 DEF NetworkInv

\* The inductive invariant holds of every behaviour: in the order of its parts,
\* types, the progress of the callbacks of nng, who announces itself, the routes,
\* where answers go, and where every letter is.
THEOREM NetworkInvariant == Spec => []NetworkInv
<1>1. Init => NetworkInv
  BY InitInv
<1>2. NetworkInv /\ [Next]_vars => NetworkInv'
  <2>1. ASSUME NetworkInv, Next PROVE NetworkInv'
    BY <2>1, TypeOKInv, StagesInv, DialersAnnounceInv, RoutesInv, BacksInv, OnePlaceInv
       DEF NetworkInv
  <2>. QED
    BY <2>1, StutterInv
<1>. QED
  BY <1>1, <1>2, PTL DEF Spec

\* Every variable has its type; a router takes only addresses of its own for its
\* own, whatever its callbacks name (_core.py: _onOutGoingTcpConnect).
THEOREM NetworkTypeOK == Spec => []TypeOK
<1>1. NetworkInv => TypeOK
  BY DEF NetworkInv
<1>. QED
  BY <1>1, NetworkInvariant, PTL

\* No letter is handed to an agent twice, and no answer to the sender, for any
\* number of letters, connections and cuts (_core.py: _nRoute and the callbacks,
\* which both empty _msgAccumulatorByEp).
THEOREM MailArrivesAtMostOnce == Spec => []AtMostOnce
<1>1. NetworkInv => AtMostOnce
  BY DEF NetworkInv, OnePlace, OnePlaceOf, AtMostOnce
<1>. QED
  BY <1>1, NetworkInvariant, PTL

\* An agent answers to an address of the sender, unless the letter was written
\* without one (_core.py: _nRoute, _onOutGoingTcpConnect).
THEOREM RepliesGoToSenders == Spec => []ReplyAddressIsTheSenders
<1>1. NetworkInv => ReplyAddressIsTheSenders
  BY DEF NetworkInv, Backs, GoodDues, Good, IsSenders, ReplyAddressIsTheSenders
<1>. QED
  BY <1>1, NetworkInvariant, PTL

=============================================================================
