----------------------- MODULE MMFileTransportProofs -----------------------
(***************************************************************************)
(* Proofs about the two ends of a memory mapped file connection: the       *)
(* handshake that protects the mapped files, for any messages, any number  *)
(* of sends, and handlers that run inside each other; and that each        *)
(* direction implements Channel when no handler runs inside another.       *)
(***************************************************************************)
EXTENDS MMFileTransportProperties, TLAPS

(***************************************************************************)
(* Positions of a window message in a queue of them                        *)
(***************************************************************************)

Quiet(queue, message) == Positions(queue, message) = {}
Once(queue, message) == \A i, j \in Positions(queue, message) : i = j

\* A queue without the message is one that has it once.
LEMMA QuietIsOnce ==
    ASSUME NEW q, NEW m, Quiet(q, m) PROVE Once(q, m)
  BY DEF Quiet, Once

LEMMA QuietTail ==
    ASSUME NEW S, NEW q \in Seq(S), q # <<>>, NEW m, Quiet(q, m) PROVE Quiet(Tail(q), m)
  BY DEF Quiet, Positions

\* Handling a message leaves at most what was there before, and none of a message
\* that was there once and has been handled.
LEMMA OnceTail ==
    ASSUME NEW S, NEW q \in Seq(S), q # <<>>, NEW m, Once(q, m)
    PROVE  /\ Once(Tail(q), m)
           /\ Head(q) = m => Quiet(Tail(q), m)
  <1>1. Len(Tail(q)) = Len(q) - 1 /\ \A i \in 1..Len(Tail(q)) : Tail(q)[i] = q[i + 1]
    OBVIOUS
  <1>2. ASSUME NEW i \in Positions(Tail(q), m)
        PROVE  i \in Int /\ i >= 1 /\ i + 1 \in Positions(q, m)
    BY <1>1, <1>2 DEF Positions
  <1>3. Once(Tail(q), m)
    BY <1>2 DEF Once
  <1>4. ASSUME Head(q) = m PROVE Quiet(Tail(q), m)
    <2>1. 1 \in Positions(q, m)
      BY <1>4 DEF Positions
    <2>. QED
      BY <1>2, <2>1 DEF Quiet, Once
  <1>. QED
    BY <1>3, <1>4

\* What is posted behind a queue.
LEMMA Concatenated ==
    ASSUME NEW S, NEW q \in Seq(S), NEW s \in Seq(S), NEW m
    PROVE  /\ Quiet(q, m) /\ Quiet(s, m) => Quiet(q \o s, m)
           /\ Once(q, m) /\ Quiet(s, m) => Once(q \o s, m)
           /\ Quiet(q, m) /\ Once(s, m) => Once(q \o s, m)
  <1>1. /\ Len(q \o s) = Len(q) + Len(s)
        /\ \A i \in 1..Len(q \o s) : (q \o s)[i] = IF i <= Len(q) THEN q[i] ELSE s[i - Len(q)]
    OBVIOUS
  <1>2. Len(q) \in Nat /\ Len(s) \in Nat
    OBVIOUS
  <1>3. ASSUME NEW i \in Positions(q \o s, m)
        PROVE  /\ i \in Int
               /\ i \in Positions(q, m) \/ i - Len(q) \in Positions(s, m)
    BY <1>1, <1>2, <1>3 DEF Positions
  <1>4. Quiet(q, m) /\ Quiet(s, m) => Quiet(q \o s, m)
    BY <1>3 DEF Quiet
  <1>5. Once(q, m) /\ Quiet(s, m) => Once(q \o s, m)
    BY <1>3 DEF Quiet, Once
  <1>6. Quiet(q, m) /\ Once(s, m) => Once(q \o s, m)
    BY <1>2, <1>3 DEF Quiet, Once
  <1>. QED
    BY <1>4, <1>5, <1>6

LEMMA OfOne ==
    ASSUME NEW a, NEW m PROVE /\ Quiet(<<>>, m) /\ Once(<<a>>, m)
                              /\ a # m => Quiet(<<a>>, m)
  BY DEF Quiet, Once, Positions

\* A change of a queue that adds no such message.
Calmer(q, r, m) == (Quiet(q, m) => Quiet(r, m)) /\ (Once(q, m) => Once(r, m))

LEMMA HandledIsCalmer ==
    ASSUME NEW S, NEW q \in Seq(S), q # <<>>, NEW m
    PROVE  Calmer(q, Tail(q), m) /\ Calmer(q, <<>>, m) /\ Calmer(q, q, m)
  BY QuietTail, OnceTail, OfOne, QuietIsOnce DEF Calmer

LEMMA PostedIsCalmer ==
    ASSUME NEW S, NEW q \in Seq(S), NEW s \in Seq(S), NEW m, Quiet(s, m)
    PROVE  Calmer(q, q \o s, m)
  BY Concatenated DEF Calmer

(***************************************************************************)
(* The handshake of one direction: out are the window messages posted to   *)
(* the receiver, back those posted to the sender.                          *)
(***************************************************************************)

Held(out, back, sending) ==
    /\ Quiet(out, "InTransit") \/ Quiet(back, "Received")
    /\ Once(out, "InTransit") /\ Once(back, "Received")
    /\ ~sending => Quiet(out, "InTransit") /\ Quiet(back, "Received")

LEMMA CalmerHolds ==
    ASSUME NEW out, NEW back, NEW sending, Held(out, back, sending),
           NEW out2, Calmer(out, out2, "InTransit"),
           NEW back2, Calmer(back, back2, "Received")
    PROVE  Held(out2, back2, sending)
  BY DEF Held, Calmer

\* The sender writes its file when nothing is under way.
LEMMA SendingHolds ==
    ASSUME NEW out \in Seq(WindowMessage), NEW back, Held(out, back, FALSE),
           NEW s \in Seq(WindowMessage), Once(s, "InTransit")
    PROVE  Held(out, back, TRUE) /\ Held(out \o s, back, TRUE)
  BY Concatenated, QuietIsOnce DEF Held

\* The receiver reads the file and answers.
LEMMA ReadingHolds ==
    ASSUME NEW out \in Seq(WindowMessage), NEW back \in Seq(WindowMessage),
           NEW sending, Held(out, back, sending),
           out # <<>>, Head(out) = "InTransit",
           NEW back2, back2 = back \/ back2 = back \o <<"Received">>
    PROVE  Held(Tail(out), back2, sending)
  <1>1. ~Quiet(out, "InTransit")
    BY DEF Quiet, Positions
  <1>2. Quiet(Tail(out), "InTransit") /\ Once(Tail(out), "InTransit")
    BY OnceTail, QuietIsOnce DEF Held
  <1>3. Quiet(back, "Received") /\ Once(back, "Received")
    BY <1>1 DEF Held
  <1>4. <<"Received">> \in Seq(WindowMessage) /\ Once(<<"Received">>, "Received")
    BY OfOne DEF WindowMessage
  <1>5. Once(back \o <<"Received">>, "Received")
    BY <1>3, <1>4, Concatenated
  <1>6. Once(back2, "Received") /\ sending
    BY <1>1, <1>3, <1>5 DEF Held
  <1>. QED
    BY <1>2, <1>6 DEF Held

\* The sender learns of it: nothing is under way any more.
LEMMA AnsweredHolds ==
    ASSUME NEW out, NEW back \in Seq(WindowMessage),
           NEW sending, Held(out, back, sending), back # <<>>, Head(back) = "Received"
    PROVE  Held(out, Tail(back), FALSE)
  <1>1. ~Quiet(back, "Received")
    BY DEF Quiet, Positions
  <1>2. Quiet(Tail(back), "Received")
    BY OnceTail DEF Held
  <1>. QED
    BY <1>1, <1>2, QuietIsOnce DEF Held

(***************************************************************************)
(* The handshake of both directions is kept by every step.                 *)
(***************************************************************************)

Handshake == \A e \in End : Held(posted[Peer(e)], posted[e], isSending[e])
\* A file is written before it is announced: what is read from it is a message.
Written == \A e \in End : file[e] \in Data \/ Quiet(posted[Peer(e)], "InTransit")
HandshakeInv == TypeOK /\ Handshake /\ Written

LEMMA Ends ==
    ASSUME NEW e \in End
    PROVE  /\ Peer(e) \in End /\ Peer(e) # e /\ Peer(Peer(e)) = e
           /\ \A g \in End : g = e \/ g = Peer(e)
  BY DEF End, Peer

LEMMA BothHold ==
    ASSUME NEW e \in End,
           Held(posted'[Peer(e)], posted'[e], isSending'[e]),
           Held(posted'[e], posted'[Peer(e)], isSending'[Peer(e)])
    PROVE  Handshake'
  BY Ends DEF Handshake

\* A step that posts nothing of the handshake.
LEMMA NeutralStep ==
    ASSUME Handshake, isSending' = isSending,
           \A g \in End : \A m \in {"InTransit", "Received"} : Calmer(posted[g], posted'[g], m)
    PROVE  Handshake'
  <1>. SUFFICES ASSUME NEW e \in End PROVE Held(posted'[Peer(e)], posted'[e], isSending[e])
    BY DEF Handshake
  <1>1. Held(posted[Peer(e)], posted[e], isSending[e])
    BY DEF Handshake
  <1>2. /\ Calmer(posted[Peer(e)], posted'[Peer(e)], "InTransit")
        /\ Calmer(posted[e], posted'[e], "Received")
    BY Ends
  <1>. QED
    BY <1>1, <1>2, CalmerHolds

LEMMA PostEffect ==
    ASSUME TypeOK, NEW e \in End, NEW s \in Seq(WindowMessage)
    PROVE  /\ Post(e, s) \in [End -> Seq(WindowMessage)]
           /\ \A g \in End : g # e => Post(e, s)[g] = posted[g]
           /\ Post(e, s)[e] \in {posted[e], posted[e] \o s}
  <1>1. posted[e] \o s \in Seq(WindowMessage)
    BY DEF TypeOK
  <1>. QED
    BY <1>1 DEF Post, TypeOK

LEMMA HandleEffect ==
    ASSUME TypeOK, NEW e \in End, NEW s \in Seq(WindowMessage),
           posted[e] # <<>>, HandleAndPost(e, s)
    PROVE  /\ posted' \in [End -> Seq(WindowMessage)]
           /\ posted'[e] = Tail(posted[e])
           /\ posted'[Peer(e)] \in {posted[Peer(e)], posted[Peer(e)] \o s}
  <1>1. posted[e] \in Seq(WindowMessage)
    BY DEF TypeOK
  <1>2. Tail(posted[e]) \in Seq(WindowMessage)
    BY <1>1
  <1>3. /\ Post(Peer(e), s) \in [End -> Seq(WindowMessage)]
        /\ Post(Peer(e), s)[e] = posted[e]
        /\ Post(Peer(e), s)[Peer(e)] \in {posted[Peer(e)], posted[Peer(e)] \o s}
    <2>1. Peer(e) \in End /\ Peer(e) # e
      BY Ends
    <2>2. /\ Post(Peer(e), s) \in [End -> Seq(WindowMessage)]
          /\ \A g \in End : g # Peer(e) => Post(Peer(e), s)[g] = posted[g]
          /\ Post(Peer(e), s)[Peer(e)] \in {posted[Peer(e)], posted[Peer(e)] \o s}
      BY <2>1, PostEffect
    <2>. QED
      BY <2>1, <2>2
  <1>. QED
    BY <1>2, <1>3, Ends DEF HandleAndPost

LEMMA WrittenKept ==
    ASSUME Written, file' = file,
           \A g \in End : Calmer(posted[g], posted'[g], "InTransit")
    PROVE  Written'
  BY Ends DEF Written, Calmer

LEMMA WrittenBySend ==
    ASSUME HandshakeInv, NEW e \in End, NEW queue \in Seq(Data), queue # <<>>,
           PrivateSend(e, queue),
           NEW s \in Seq(WindowMessage), Head(queue) \in Big => Quiet(s, "InTransit"),
           posted'[Peer(e)] \in {posted[Peer(e)], posted[Peer(e)] \o s},
           Calmer(posted[e], posted'[e], "InTransit")
    PROVE  Written'
  <1>1. Peer(e) \in End /\ Peer(Peer(e)) = e /\ Peer(e) # e /\ \A g \in End : g = e \/ g = Peer(e)
    BY Ends
  <1>2. posted[Peer(e)] \in Seq(WindowMessage) /\ Head(queue) \in Data
    BY <1>1 DEF HandshakeInv, TypeOK
  <1>3. CASE Head(queue) \in Big
    <2>1. Calmer(posted[Peer(e)], posted'[Peer(e)], "InTransit")
      BY <1>2, <1>3, PostedIsCalmer DEF Calmer
    <2>2. file' = file
      BY <1>3 DEF PrivateSend, WriteFile
    <2>. QED
      BY <1>1, <2>1, <2>2, WrittenKept DEF HandshakeInv
  <1>4. CASE Head(queue) \notin Big
    <2>1. file'[e] \in Data /\ file'[Peer(e)] = file[Peer(e)]
      BY <1>1, <1>2, <1>4 DEF PrivateSend, WriteFile, HandshakeInv, TypeOK
    <2>2. file[Peer(e)] \in Data \/ Quiet(posted[e], "InTransit")
      BY <1>1 DEF HandshakeInv, Written
    <2>3. file'[Peer(e)] \in Data \/ Quiet(posted'[e], "InTransit")
      BY <2>1, <2>2 DEF Calmer
    <2>. QED
      BY <1>1, <2>1, <2>3 DEF Written
  <1>. QED
    BY <1>3, <1>4

LEMMA Transit ==
    ASSUME NEW queue
    PROVE  /\ InTransit(queue) \in Seq(WindowMessage)
           /\ Once(InTransit(queue), "InTransit") /\ Quiet(InTransit(queue), "Received")
           /\ Head(queue) \in Big => Quiet(InTransit(queue), "InTransit")
  <1>1. <<>> \in Seq(WindowMessage) /\ <<"InTransit">> \in Seq(WindowMessage)
    BY DEF WindowMessage
  <1>. QED
    BY <1>1, OfOne, QuietIsOnce DEF InTransit

LEMMA PrivateSendEffect ==
    ASSUME TypeOK, NEW e \in End, NEW queue \in Seq(Data), queue # <<>>,
           PrivateSend(e, queue)
    PROVE  /\ sendQueue' \in [End -> Seq(Data)]
           /\ file' \in [End -> Data \cup {Nothing}]
           /\ isSending' \in [End -> BOOLEAN]
           /\ tooBig' \subseteq End
           /\ isSending'[e] = TRUE /\ isSending'[Peer(e)] = isSending[Peer(e)]
  <1>1. Tail(queue) \in Seq(Data) /\ Head(queue) \in Data
    OBVIOUS
  <1>. QED
    BY <1>1, Ends DEF PrivateSend, WriteFile, TypeOK

\* What is sent is behind whatever else is posted.
LEMMA SendingBothHold ==
    ASSUME HandshakeInv, NEW e \in End,
           NEW back, Calmer(posted[e], back, "InTransit"),
           Held(posted[Peer(e)], back, FALSE), posted'[e] = back,
           NEW s \in Seq(WindowMessage), Once(s, "InTransit"), Quiet(s, "Received"),
           posted'[Peer(e)] \in {posted[Peer(e)], posted[Peer(e)] \o s},
           isSending'[e] = TRUE, isSending'[Peer(e)] = isSending[Peer(e)]
    PROVE  Handshake'
  <1>1. Peer(e) \in End /\ Peer(Peer(e)) = e
    BY Ends
  <1>2. posted[e] \in Seq(WindowMessage) /\ posted[Peer(e)] \in Seq(WindowMessage)
    BY <1>1 DEF HandshakeInv, TypeOK
  <1>3. Held(posted'[Peer(e)], posted'[e], isSending'[e])
    <2>1. Held(posted[Peer(e)], back, TRUE) /\ Held(posted[Peer(e)] \o s, back, TRUE)
      BY <1>2, SendingHolds
    <2>. QED
      BY <2>1
  <1>4. Held(posted'[e], posted'[Peer(e)], isSending'[Peer(e)])
    <2>1. Held(posted[e], posted[Peer(e)], isSending[Peer(e)])
      BY <1>1 DEF HandshakeInv, Handshake
    <2>2. Calmer(posted[Peer(e)], posted'[Peer(e)], "Received")
      BY <1>2, PostedIsCalmer DEF Calmer
    <2>3. Held(posted'[e], posted'[Peer(e)], isSending[Peer(e)])
      BY <2>1, <2>2, CalmerHolds
    <2>. QED
      BY <2>3
  <1>. QED
    BY <1>3, <1>4, BothHold

\* privateSendMessage, called by an end that is not sending.
LEMMA PrivateSendHolds ==
    ASSUME HandshakeInv, NEW e \in End, isSending[e] = FALSE,
           NEW queue \in Seq(Data), queue # <<>>, PrivateSendAndPost(e, queue)
    PROVE  /\ Handshake' /\ Written' /\ state' = state
           /\ posted' \in [End -> Seq(WindowMessage)]
           /\ sendQueue' \in [End -> Seq(Data)]
           /\ file' \in [End -> Data \cup {Nothing}]
           /\ isSending' \in [End -> BOOLEAN] /\ tooBig' \subseteq End
  <1>1. PrivateSend(e, queue) /\ state' = state
    BY DEF PrivateSendAndPost
  <1>3. /\ sendQueue' \in [End -> Seq(Data)]
        /\ file' \in [End -> Data \cup {Nothing}]
        /\ isSending' \in [End -> BOOLEAN] /\ tooBig' \subseteq End
        /\ isSending'[e] = TRUE /\ isSending'[Peer(e)] = isSending[Peer(e)]
    BY <1>1, PrivateSendEffect DEF HandshakeInv
  <1> DEFINE s == InTransit(queue)
  <1>4. /\ s \in Seq(WindowMessage) /\ Once(s, "InTransit") /\ Quiet(s, "Received")
        /\ Head(queue) \in Big => Quiet(s, "InTransit")
    BY Transit
  <1>5. posted' = Post(Peer(e), s)
    BY DEF PrivateSendAndPost
  <1> HIDE DEF s
  <1>6. Peer(e) \in End /\ Peer(e) # e
    BY Ends
  <1>7. /\ posted' \in [End -> Seq(WindowMessage)]
        /\ posted'[e] = posted[e]
        /\ posted'[Peer(e)] \in {posted[Peer(e)], posted[Peer(e)] \o s}
    <2>1. /\ Post(Peer(e), s) \in [End -> Seq(WindowMessage)]
          /\ \A g \in End : g # Peer(e) => Post(Peer(e), s)[g] = posted[g]
          /\ Post(Peer(e), s)[Peer(e)] \in {posted[Peer(e)], posted[Peer(e)] \o s}
      BY <1>4, <1>6, PostEffect DEF HandshakeInv
    <2>. QED
      BY <1>5, <1>6, <2>1
  <1>8. Held(posted[Peer(e)], posted[e], FALSE)
    BY DEF HandshakeInv, Handshake
  <1>9. Calmer(posted[e], posted[e], "InTransit")
    BY DEF Calmer
  <1>10. Handshake'
    BY <1>3, <1>4, <1>7, <1>8, <1>9, SendingBothHold
  <1>12. Calmer(posted[e], posted'[e], "InTransit")
    BY <1>7, <1>9
  <1>13. Written'
    BY <1>1, <1>4, <1>7, <1>12, WrittenBySend
  <1>. QED
    BY <1>1, <1>3, <1>7, <1>10, <1>13

\* The other end has read the file: the next message goes.
LEMMA ReceivedKeepsHandshake ==
    ASSUME HandshakeInv, NEW e \in End, Received(e) PROVE HandshakeInv'
  <1>1. /\ posted[e] # <<>> /\ Head(posted[e]) = "Received"
        /\ posted[e] \in Seq(WindowMessage) /\ posted[Peer(e)] \in Seq(WindowMessage)
        /\ sendQueue[e] \in Seq(Data) /\ isSending[e] \in BOOLEAN /\ TypeOK
    BY Ends DEF Received, Handles, HandshakeInv, TypeOK
  <1>2. Held(posted[Peer(e)], posted[e], isSending[e])
    BY DEF HandshakeInv, Handshake
  <1>3. Held(posted[Peer(e)], Tail(posted[e]), FALSE)
    BY <1>1, <1>2, AnsweredHolds
  <1>4. Calmer(posted[e], Tail(posted[e]), "InTransit")
    BY <1>1, HandledIsCalmer
  <1>5. CASE sendQueue[e] # <<>>
    <2> DEFINE s == InTransit(sendQueue[e])
    <2>1. PrivateSend(e, sendQueue[e]) /\ HandleAndPost(e, s)
      BY <1>5 DEF Received
    <2>2. /\ s \in Seq(WindowMessage) /\ Once(s, "InTransit") /\ Quiet(s, "Received")
          /\ Head(sendQueue[e]) \in Big => Quiet(s, "InTransit")
      BY Transit
    <2>3. /\ sendQueue' \in [End -> Seq(Data)]
          /\ file' \in [End -> Data \cup {Nothing}]
          /\ isSending' \in [End -> BOOLEAN] /\ tooBig' \subseteq End
          /\ isSending'[e] = TRUE /\ isSending'[Peer(e)] = isSending[Peer(e)]
      BY <1>1, <1>5, <2>1, PrivateSendEffect
    <2> HIDE DEF s
    <2>4. /\ posted' \in [End -> Seq(WindowMessage)]
          /\ posted'[e] = Tail(posted[e])
          /\ posted'[Peer(e)] \in {posted[Peer(e)], posted[Peer(e)] \o s}
      BY <1>1, <2>1, <2>2, HandleEffect
    <2>5. Handshake'
      BY <1>3, <1>4, <2>2, <2>3, <2>4, SendingBothHold
    <2>6. Calmer(posted[e], posted'[e], "InTransit")
      BY <1>4, <2>4
    <2>7. Written'
      BY <1>1, <1>5, <2>1, <2>2, <2>4, <2>6, WrittenBySend
    <2>. QED
      BY <1>1, <2>3, <2>4, <2>5, <2>7 DEF Received, HandshakeInv, TypeOK, receiveVars
  <1>6. CASE sendQueue[e] = <<>>
    <2>1. /\ isSending' = [isSending EXCEPT ![e] = FALSE]
          /\ HandleAndPost(e, <<>>)
          /\ UNCHANGED <<file, sendQueue, tooBig>>
      BY <1>6 DEF Received
    <2>2. /\ posted' \in [End -> Seq(WindowMessage)]
          /\ posted'[e] = Tail(posted[e]) /\ posted'[Peer(e)] = posted[Peer(e)]
      <3>1. <<>> \in Seq(WindowMessage) /\ posted[Peer(e)] \o <<>> = posted[Peer(e)]
        BY <1>1
      <3>2. /\ posted' \in [End -> Seq(WindowMessage)]
            /\ posted'[e] = Tail(posted[e])
            /\ posted'[Peer(e)] \in {posted[Peer(e)], posted[Peer(e)] \o <<>>}
        BY <1>1, <2>1, <3>1, HandleEffect
      <3>. QED
        BY <3>1, <3>2
    <2>3. /\ isSending' \in [End -> BOOLEAN]
          /\ isSending'[e] = FALSE /\ isSending'[Peer(e)] = isSending[Peer(e)]
      BY <2>1, Ends DEF HandshakeInv, TypeOK
    <2>4. Held(posted'[Peer(e)], posted'[e], isSending'[e])
      BY <1>3, <2>2, <2>3
    <2>5. Held(posted'[e], posted'[Peer(e)], isSending'[Peer(e)])
      <3>1. Held(posted[e], posted[Peer(e)], isSending[Peer(e)])
        BY Ends DEF HandshakeInv, Handshake
      <3>2. Calmer(posted[Peer(e)], posted'[Peer(e)], "Received")
        BY <2>2 DEF Calmer
      <3>3. Calmer(posted[e], posted'[e], "InTransit")
        BY <1>4, <2>2
      <3>4. Held(posted'[e], posted'[Peer(e)], isSending[Peer(e)])
        BY <3>1, <3>2, <3>3, CalmerHolds
      <3>. QED
        BY <2>3, <3>4
    <2>6. Handshake'
      BY <2>4, <2>5, BothHold
    <2>7. \A g \in End : Calmer(posted[g], posted'[g], "InTransit")
      BY <1>4, <2>2, Ends DEF Calmer
    <2>8. Written'
      BY <2>1, <2>7, WrittenKept DEF HandshakeInv
    <2>. QED
      BY <1>1, <2>1, <2>2, <2>3, <2>6, <2>8 DEF Received, HandshakeInv, TypeOK, receiveVars
  <1>. QED
    BY <1>5, <1>6

LEMMA ConnectKeepsHandshake == ASSUME HandshakeInv, Connect PROVE HandshakeInv'
  <1>1. "B" \in End /\ <<"Request">> \in Seq(WindowMessage)
    BY DEF End, WindowMessage
  <1>2. TypeOK'
    BY <1>1 DEF HandshakeInv, TypeOK, Connect, States, sendVars, receiveVars
  <1>3. Quiet(<<"Request">>, "InTransit") /\ Quiet(<<"Request">>, "Received")
    BY OfOne
  <1>4. Held(posted'["B"], posted["A"], isSending["A"]) /\ Held(posted["A"], posted'["B"], isSending["B"])
    <2>1. Held(posted["B"], posted["A"], isSending["A"]) /\ Held(posted["A"], posted["B"], isSending["B"])
      BY DEF HandshakeInv, Handshake, End, Peer
    <2>2. posted'["B"] = <<"Request">>
      BY <1>1 DEF Connect, HandshakeInv, TypeOK
    <2>3. Once(<<"Request">>, "InTransit") /\ Once(<<"Request">>, "Received")
      BY OfOne
    <2>. QED
      BY <1>3, <2>1, <2>2, <2>3 DEF Held
  <1>5. Handshake'
    <2>1. posted'["A"] = posted["A"] /\ isSending' = isSending
      BY DEF Connect, sendVars, HandshakeInv, TypeOK, End
    <2>. QED
      BY <1>4, <2>1 DEF Handshake, End, Peer
  <1>6. Written'
    <2>1. posted'["A"] = posted["A"] /\ posted'["B"] = <<"Request">> /\ file' = file
      BY DEF Connect, sendVars, HandshakeInv, TypeOK, End
    <2>. QED
      BY <1>3, <2>1 DEF HandshakeInv, Written, End, Peer
  <1>. QED
    BY <1>2, <1>5, <1>6 DEF HandshakeInv

LEMMA RequestKeepsHandshake == ASSUME HandshakeInv, Request PROVE HandshakeInv'
  <1>. DEFINE s == <<"Agreed">>
  <1>1. "A" \in End /\ "B" \in End /\ s \in Seq(WindowMessage) /\ <<>> \in Seq(WindowMessage)
    BY DEF End, WindowMessage
  <1>2. \A m \in {"InTransit", "Received"} : Quiet(s, m)
    BY OfOne
  <1>. HIDE DEF s
  <1>3. /\ Post("A", s) \in [End -> Seq(WindowMessage)]
        /\ Post("A", s)["A"] \in {posted["A"], posted["A"] \o s}
    BY <1>1, PostEffect DEF HandshakeInv
  <1>4. posted' = [Post("A", s) EXCEPT !["B"] = <<>>]
    BY DEF Request, s
  <1>5. /\ posted' \in [End -> Seq(WindowMessage)]
        /\ posted'["B"] = <<>>
        /\ posted'["A"] \in {posted["A"], posted["A"] \o s}
    BY <1>1, <1>3, <1>4
  <1>6. TypeOK'
    BY <1>1, <1>5 DEF HandshakeInv, TypeOK, Request, States, sendVars, receiveVars
  <1>7. posted["A"] \in Seq(WindowMessage) /\ posted["B"] \in Seq(WindowMessage) /\ posted["B"] # <<>>
    BY <1>1 DEF HandshakeInv, TypeOK, Request
  <1>8. \A m \in {"InTransit", "Received"} : Calmer(posted["A"], posted'["A"], m)
    BY <1>1, <1>2, <1>5, <1>7, PostedIsCalmer DEF Calmer
  <1>9. \A m : Calmer(posted["B"], posted'["B"], m)
    BY <1>5, <1>7, HandledIsCalmer
  <1>10. Held(posted'["A"], posted'["B"], isSending["B"]) /\ Held(posted'["B"], posted'["A"], isSending["A"])
    <2>1. Held(posted["A"], posted["B"], isSending["B"]) /\ Held(posted["B"], posted["A"], isSending["A"])
      BY DEF HandshakeInv, Handshake, End, Peer
    <2>. QED
      BY <1>8, <1>9, <2>1, CalmerHolds
  <1>11. Handshake'
    BY <1>10 DEF Request, sendVars, Handshake, End, Peer
  <1>12. Written'
    <2>1. file' = file
      BY DEF Request, sendVars
    <2>2. \A g \in End : Calmer(posted[g], posted'[g], "InTransit")
      BY <1>8, <1>9 DEF End
    <2>. QED
      BY <2>1, <2>2, WrittenKept DEF HandshakeInv
  <1>. QED
    BY <1>6, <1>11, <1>12 DEF HandshakeInv

\* Steps that leave what the handshake is about alone.
LEMMA AsideKeepsHandshake ==
    ASSUME HandshakeInv, TypeOK', UNCHANGED <<posted, file, isSending>>
    PROVE  HandshakeInv'
  BY DEF HandshakeInv, Handshake, Written

\* Steps that post nothing of the handshake.
LEMMA NeutralKeepsHandshake ==
    ASSUME HandshakeInv, TypeOK', UNCHANGED <<file, isSending>>,
           \A g \in End : \A m \in {"InTransit", "Received"} : Calmer(posted[g], posted'[g], m)
    PROVE  HandshakeInv'
  <1>1. Handshake'
    BY NeutralStep DEF HandshakeInv
  <1>2. Written'
    BY WrittenKept DEF HandshakeInv
  <1>. QED
    BY <1>1, <1>2 DEF HandshakeInv

\* An access violation: what is posted to the window goes with it.
LEMMA CrashKeepsHandshake ==
    ASSUME HandshakeInv, TypeOK', NEW e \in End, Crash(e) PROVE HandshakeInv'
  <1>1. \A g \in End : posted'[g] \in {posted[g], <<>>}
    BY DEF Crash, HandshakeInv, TypeOK
  <1>2. \A g \in End : posted[g] \in Seq(WindowMessage)
    BY DEF HandshakeInv, TypeOK
  <1>3. \A g \in End : \A m \in {"InTransit", "Received"} : Calmer(posted[g], posted'[g], m)
    <2>1. \A g \in End : posted[g] = <<>> \/ \A m : Calmer(posted[g], <<>>, m)
      BY <1>2, HandledIsCalmer
    <2>. QED
      BY <1>1, <2>1 DEF Calmer
  <1>. QED
    BY <1>3, NeutralKeepsHandshake DEF Crash, sendVars

LEMMA SendKeepsHandshake ==
    ASSUME HandshakeInv, NEW e \in End, NEW d \in Data,
           SendLater(e, d) \/ SendNow(e, d) \/ SendCrashes(e, d)
    PROVE  HandshakeInv'
  <1>1. sendQueue[e] \in Seq(Data) /\ sends[e] \in Nat /\ posted[e] \in Seq(WindowMessage)
    BY DEF HandshakeInv, TypeOK
  <1>2. Append(sendQueue[e], d) \in Seq(Data) /\ Append(sendQueue[e], d) # <<>>
    BY <1>1
  <1>3. ASSUME CallsSend(e) PROVE sends' \in [End -> Nat]
    BY <1>1, <1>3 DEF CallsSend, HandshakeInv, TypeOK
  <1>4. CASE SendLater(e, d)
    <2>1. TypeOK'
      BY <1>2, <1>3, <1>4 DEF SendLater, HandshakeInv, TypeOK, receiveVars
    <2>2. Handshake' /\ Written'
      BY <1>4 DEF SendLater, HandshakeInv, Handshake, Written
    <2>. QED
      BY <2>1, <2>2 DEF HandshakeInv
  <1>5. CASE SendNow(e, d)
    <2> DEFINE queue == Append(sendQueue[e], d)
    <2>1. /\ CallsSend(e) /\ isSending[e] = FALSE /\ PrivateSendAndPost(e, queue)
          /\ UNCHANGED <<disconnecting, receiveVars>>
      BY <1>5 DEF SendNow, HandshakeInv, TypeOK
    <2>2. queue \in Seq(Data) /\ queue # <<>>
      BY <1>2
    <2> HIDE DEF queue
    <2>3. /\ Handshake' /\ Written' /\ state' = state
          /\ posted' \in [End -> Seq(WindowMessage)]
          /\ sendQueue' \in [End -> Seq(Data)]
          /\ file' \in [End -> Data \cup {Nothing}]
          /\ isSending' \in [End -> BOOLEAN] /\ tooBig' \subseteq End
      BY <2>1, <2>2, PrivateSendHolds
    <2>4. TypeOK'
      BY <1>3, <2>1, <2>3 DEF HandshakeInv, TypeOK, receiveVars
    <2>. QED
      BY <2>3, <2>4 DEF HandshakeInv
  <1>6. CASE SendCrashes(e, d)
    <2>1. /\ CallsSend(e) /\ Crash(e)
          /\ UNCHANGED <<disconnecting, receiveVars>>
      BY <1>6 DEF SendCrashes
    <2>2. TypeOK'
      BY <1>3, <2>1 DEF Crash, HandshakeInv, TypeOK, States, sendVars, receiveVars
    <2>. QED
      BY <2>1, <2>2, CrashKeepsHandshake
  <1>. QED
    BY <1>4, <1>5, <1>6

LEMMA OfferType ==
    ASSUME TypeOK, NEW e \in End, NEW kind \in {"arrival", "timer"},
           NEW queue \in Seq(Data), queue # <<>>, Offer(e, kind, queue)
    PROVE  frames' \in [End -> Seq(Frame)]
  <1>1. Head(queue) \in Data
    OBVIOUS
  <1>2. [kind |-> kind, offer |-> Head(queue)] \in Frame
    BY <1>1 DEF Frame
  <1>3. Append(frames[e], [kind |-> kind, offer |-> Head(queue)]) \in Seq(Frame)
    BY <1>2 DEF TypeOK
  <1>. QED
    BY <1>3 DEF Offer, TypeOK

\* An end reads the file of the other, which it could not be written before.
LEMMA ReadKeepsHandshake ==
    ASSUME HandshakeInv, NEW e \in End, MessageInTransit(e)
    PROVE  HandshakeInv'
  <1>. DEFINE f == Peer(e)
              s == <<"Received">>
              queue == Append(arrived[e], file[f])
  <1>1. f \in End /\ Peer(f) = e /\ f # e
    BY Ends
  <1>2. s \in Seq(WindowMessage) /\ Quiet(s, "InTransit")
    BY OfOne DEF WindowMessage
  <1>3. /\ posted[e] # <<>> /\ Head(posted[e]) = "InTransit"
        /\ HandleAndPost(e, s)
        /\ arrived' = [arrived EXCEPT ![e] = queue]
        /\ Offer(e, "arrival", queue)
        /\ UNCHANGED <<state, disconnecting, sendVars, timer, sends, taken>>
    BY DEF MessageInTransit, Handles
  <1>. HIDE DEF s, f
  <1>4. /\ posted[e] \in Seq(WindowMessage) /\ posted[f] \in Seq(WindowMessage)
        /\ TypeOK /\ Held(posted[e], posted[f], isSending[f])
        /\ Held(posted[f], posted[e], isSending[e])
    <2>1. TypeOK /\ Handshake
      BY DEF HandshakeInv
    <2>2. Held(posted[Peer(f)], posted[f], isSending[f])
      BY <1>1, <2>1 DEF Handshake
    <2>3. Held(posted[Peer(e)], posted[e], isSending[e])
      BY <2>1 DEF Handshake
    <2>. QED
      BY <1>1, <2>1, <2>2, <2>3 DEF TypeOK, f
  <1>5. /\ posted' \in [End -> Seq(WindowMessage)]
        /\ posted'[e] = Tail(posted[e])
        /\ posted'[f] \in {posted[f], posted[f] \o s}
    BY <1>2, <1>3, <1>4, HandleEffect DEF f
  <1>6. Held(posted'[e], posted'[f], isSending[f])
    BY <1>3, <1>4, <1>5, ReadingHolds DEF s
  <1>7. Held(posted'[f], posted'[e], isSending[e])
    <2>1. Calmer(posted[e], posted'[e], "Received")
      BY <1>3, <1>4, <1>5, HandledIsCalmer
    <2>2. Calmer(posted[f], posted'[f], "InTransit")
      BY <1>2, <1>4, <1>5, PostedIsCalmer DEF Calmer
    <2>. QED
      BY <1>4, <2>1, <2>2, CalmerHolds
  <1>8. Handshake'
    <2>1. isSending' = isSending
      BY <1>3 DEF sendVars
    <2>. QED
      BY <1>6, <1>7, <2>1, BothHold DEF f
  <1>9. TypeOK'
    <2>1. queue \in Seq(Data) /\ queue # <<>>
      <3>1. ~Quiet(posted[e], "InTransit")
        BY <1>3, <1>4 DEF Quiet, Positions
      <3>2. file[f] \in Data
        BY <1>1, <3>1, <1>4 DEF HandshakeInv, Written
      <3>3. arrived[e] \in Seq(Data)
        BY <1>4 DEF TypeOK
      <3>. QED
        BY <3>2, <3>3
    <2>2. Offer(e, "arrival", queue) /\ arrived' = [arrived EXCEPT ![e] = queue]
      BY <1>3
    <2> HIDE DEF queue
    <2>3. frames' \in [End -> Seq(Frame)]
      BY <1>4, <2>1, <2>2, OfferType
    <2>. QED
      BY <1>3, <1>4, <1>5, <2>1, <2>2, <2>3 DEF TypeOK, sendVars
  <1>10. Written'
    <2>1. Calmer(posted[e], posted'[e], "InTransit")
      BY <1>3, <1>4, <1>5, HandledIsCalmer
    <2>2. Calmer(posted[f], posted'[f], "InTransit")
      BY <1>2, <1>4, <1>5, PostedIsCalmer DEF Calmer
    <2>. QED
      BY <1>3, <2>1, <2>2, Ends, WrittenKept DEF HandshakeInv, sendVars, f
  <1>. QED
    BY <1>8, <1>9, <1>10 DEF HandshakeInv

LEMMA TimerKeepsHandshake ==
    ASSUME HandshakeInv, NEW e \in End, Timer(e) PROVE HandshakeInv'
  <1>1. arrived[e] \in Seq(Data) /\ "timer" \in {"arrival", "timer"} /\ TypeOK
    BY DEF HandshakeInv, TypeOK
  <1>2. frames' \in [End -> Seq(Frame)] /\ timer' \in [End -> BOOLEAN]
    <2>1. CASE arrived[e] = <<>>
      BY <1>1, <2>1 DEF Timer, TypeOK
    <2>2. CASE arrived[e] # <<>>
      <3>1. Offer(e, "timer", arrived[e]) /\ UNCHANGED timer
        BY <2>2 DEF Timer
      <3>2. frames' \in [End -> Seq(Frame)]
        BY <1>1, <2>2, <3>1, OfferType
      <3>. QED
        BY <1>1, <3>1, <3>2 DEF TypeOK
    <2>. QED
      BY <2>1, <2>2
  <1>3. TypeOK'
    BY <1>1, <1>2 DEF Timer, TypeOK, sendVars
  <1>. QED
    BY <1>3, AsideKeepsHandshake DEF Timer, sendVars

\* The handler that runs, and those it runs inside.
LEMMA FramesType ==
    ASSUME TypeOK, NEW e \in End, Running(e)
    PROVE  /\ Innermost(e) \in Frame /\ Outer(e) \in Seq(Frame)
           /\ Innermost(e).kind # "connected" =>
                /\ Innermost(e).kind \in {"arrival", "timer"} /\ Innermost(e).offer \in Data
  <1>1. frames[e] \in Seq(Frame) /\ frames[e] # <<>>
    BY DEF TypeOK, Running
  <1>2. Innermost(e) \in Frame /\ Outer(e) \in Seq(Frame)
    BY <1>1 DEF Innermost, Outer
  <1>. QED
    BY <1>2 DEF Frame, ConnectedFrame

LEMMA EstablishedType ==
    ASSUME TypeOK, NEW e \in End, NEW message, NEW reply \in Seq(WindowMessage),
           Established(e, message, reply)
    PROVE  /\ TypeOK'
           /\ posted[e] # <<>> /\ Head(posted[e]) = message
           /\ posted'[e] = Tail(posted[e])
           /\ posted'[Peer(e)] \in {posted[Peer(e)], posted[Peer(e)] \o reply}
  <1>1. posted[e] # <<>> /\ Head(posted[e]) = message /\ HandleAndPost(e, reply)
    BY DEF Established, Handles
  <1>2. /\ posted' \in [End -> Seq(WindowMessage)]
        /\ posted'[e] = Tail(posted[e])
        /\ posted'[Peer(e)] \in {posted[Peer(e)], posted[Peer(e)] \o reply}
    BY <1>1, HandleEffect
  <1>3. frames' \in [End -> Seq(Frame)]
    <2>1. Append(frames[e], ConnectedFrame) \in Seq(Frame)
      BY DEF TypeOK, Frame
    <2>. QED
      BY <2>1 DEF Established, TypeOK
  <1>4. TypeOK'
    BY <1>2, <1>3 DEF Established, TypeOK, States, sendVars
  <1>. QED
    BY <1>1, <1>2, <1>4

\* Agreed and Acknowledged are one action with different replies.
LEMMA EitherEstablishes ==
    ASSUME NEW e \in End, Agreed(e) \/ Acknowledged(e)
    PROVE  \E message \in {"Agreed", "Acknowledged"}, reply \in Seq(WindowMessage) :
               /\ reply = <<>> \/ reply = <<"Acknowledged">>
               /\ Established(e, message, reply)
  <1>1. <<>> \in Seq(WindowMessage)
    OBVIOUS
  <1>2. <<"Acknowledged">> \in Seq(WindowMessage)
    BY DEF WindowMessage
  <1>3. CASE Agreed(e)
    BY <1>2, <1>3 DEF Agreed
  <1>4. CASE Acknowledged(e)
    BY <1>1, <1>4 DEF Acknowledged
  <1>. QED
    BY <1>3, <1>4

LEMMA EstablishedIsCalm ==
    ASSUME HandshakeInv, NEW e \in End, Agreed(e) \/ Acknowledged(e)
    PROVE  /\ TypeOK' /\ UNCHANGED <<sendVars, arrived, taken>>
           /\ \A g \in End : \A m \in {"InTransit", "Received"} : Calmer(posted[g], posted'[g], m)
  <1>1. PICK message \in {"Agreed", "Acknowledged"}, reply \in Seq(WindowMessage) :
            /\ reply = <<>> \/ reply = <<"Acknowledged">>
            /\ Established(e, message, reply)
    BY EitherEstablishes
  <1>2. /\ TypeOK'
        /\ posted[e] # <<>> /\ posted'[e] = Tail(posted[e])
        /\ posted'[Peer(e)] \in {posted[Peer(e)], posted[Peer(e)] \o reply}
    BY <1>1, EstablishedType DEF HandshakeInv
  <1>3. ASSUME NEW g \in End, NEW m \in {"InTransit", "Received"}
        PROVE  Calmer(posted[g], posted'[g], m)
    <2>1. posted[g] \in Seq(WindowMessage) /\ Quiet(reply, m)
      BY <1>1, OfOne DEF HandshakeInv, TypeOK
    <2>2. Calmer(posted[g], posted[g] \o reply, m) /\ Calmer(posted[g], posted[g], m)
      BY <2>1, PostedIsCalmer DEF Calmer
    <2>3. posted[g] # <<>> => Calmer(posted[g], Tail(posted[g]), m)
      BY <2>1, HandledIsCalmer
    <2>4. CASE g = e
      BY <1>2, <2>3, <2>4
    <2>5. CASE g = Peer(e)
      <3>1. posted'[g] = posted[g] \/ posted'[g] = posted[g] \o reply
        BY <1>2, <2>5
      <3>2. CASE posted'[g] = posted[g]
        BY <2>2, <3>2
      <3>3. CASE posted'[g] = posted[g] \o reply
        BY <2>2, <3>3
      <3>. QED
        BY <3>1, <3>2, <3>3
    <2>. QED
      BY <2>4, <2>5, Ends
  <1>. QED
    BY <1>1, <1>2, <1>3 DEF Established

LEMMA EstablishedKeepsHandshake ==
    ASSUME HandshakeInv, NEW e \in End, Agreed(e) \/ Acknowledged(e)
    PROVE  HandshakeInv'
  BY EstablishedIsCalm, NeutralKeepsHandshake DEF sendVars

LEMMA ConnectedReturnsKeepsHandshake ==
    ASSUME HandshakeInv, NEW e \in End, ConnectedReturns(e) PROVE HandshakeInv'
  <1>1. /\ Outer(e) \in Seq(Frame) /\ sendQueue[e] \in Seq(Data) /\ TypeOK
        /\ frames' = [frames EXCEPT ![e] = Outer(e)]
        /\ UNCHANGED <<disconnecting, arrived, timer, sends, taken>>
    BY FramesType DEF HandshakeInv, ConnectedReturns, TypeOK
  <1>2. frames' \in [End -> Seq(Frame)]
    BY <1>1 DEF TypeOK
  <1>3. CASE UNCHANGED <<state, posted, sendVars>>
    <2>1. TypeOK'
      BY <1>1, <1>2, <1>3 DEF TypeOK, sendVars
    <2>. QED
      BY <1>3, <2>1, AsideKeepsHandshake DEF sendVars
  <1>4. CASE ~isSending[e] /\ sendQueue[e] # <<>> /\ PrivateSendAndPost(e, sendQueue[e])
    <2>1. isSending[e] = FALSE
      BY <1>1, <1>4 DEF TypeOK
    <2>2. /\ Handshake' /\ Written' /\ state' = state
          /\ posted' \in [End -> Seq(WindowMessage)]
          /\ sendQueue' \in [End -> Seq(Data)]
          /\ file' \in [End -> Data \cup {Nothing}]
          /\ isSending' \in [End -> BOOLEAN] /\ tooBig' \subseteq End
      BY <1>1, <1>4, <2>1, PrivateSendHolds
    <2>3. TypeOK'
      BY <1>1, <1>2, <2>2 DEF TypeOK
    <2>. QED
      BY <2>2, <2>3 DEF HandshakeInv
  <1>5. CASE Crash(e)
    <2>1. TypeOK'
      BY <1>1, <1>2, <1>5 DEF Crash, TypeOK, States, sendVars
    <2>. QED
      BY <1>5, <2>1, CrashKeepsHandshake
  <1>. QED
    BY <1>3, <1>4, <1>5 DEF ConnectedReturns

LEMMA RefusesKeepsHandshake ==
    ASSUME HandshakeInv, NEW e \in End, Refuses(e) PROVE HandshakeInv'
  <1>1. Outer(e) \in Seq(Frame)
    BY FramesType DEF HandshakeInv, Refuses, Offering
  <1>2. TypeOK'
    BY <1>1 DEF Refuses, HandshakeInv, TypeOK, sendVars
  <1>. QED
    BY <1>2, AsideKeepsHandshake DEF Refuses, sendVars

LEMMA ReceivesKeepsHandshake ==
    ASSUME HandshakeInv, NEW e \in End, Receives(e) PROVE HandshakeInv'
  <1>. DEFINE queue == IF arrived[e] = <<>> THEN <<>> ELSE Tail(arrived[e])
              frame == Innermost(e)
  <1>1. /\ taken' = [taken EXCEPT ![e] = Append(@, frame.offer)]
        /\ arrived' = [arrived EXCEPT ![e] = queue]
        /\ IF queue # <<>>
           THEN /\ frames' = [frames EXCEPT ![e] =
                        Append(Outer(e), [kind |-> frame.kind, offer |-> Head(queue)])]
                /\ UNCHANGED timer
           ELSE /\ frames' = [frames EXCEPT ![e] = Outer(e)]
                /\ timer' = IF frame.kind = "timer" /\ arrived[e] # <<>>
                            THEN [timer EXCEPT ![e] = FALSE] ELSE timer
        /\ UNCHANGED <<state, disconnecting, posted, sendVars, sends>>
    BY DEF Receives
  <1>2. /\ Outer(e) \in Seq(Frame)
        /\ frame.kind \in {"arrival", "timer"} /\ frame.offer \in Data
    BY FramesType DEF HandshakeInv, Receives, Offering
  <1>3. arrived[e] \in Seq(Data) /\ taken[e] \in Seq(Data) /\ TypeOK
    BY DEF HandshakeInv, TypeOK
  <1>4. queue \in Seq(Data)
    BY <1>3
  <1>5. Append(taken[e], frame.offer) \in Seq(Data)
    BY <1>2, <1>3
  <1>. HIDE DEF queue, frame
  <1>6. frames' \in [End -> Seq(Frame)] /\ timer' \in [End -> BOOLEAN]
    <2>1. CASE queue # <<>>
      <3>1. Head(queue) \in Data
        BY <1>4, <2>1
      <3>2. [kind |-> frame.kind, offer |-> Head(queue)] \in Frame
        BY <1>2, <3>1 DEF Frame
      <3>3. Append(Outer(e), [kind |-> frame.kind, offer |-> Head(queue)]) \in Seq(Frame)
        BY <1>2, <3>2
      <3>. QED
        BY <1>1, <1>3, <2>1, <3>3 DEF TypeOK
    <2>2. CASE queue = <<>>
      BY <1>1, <1>2, <1>3, <2>2 DEF TypeOK
    <2>. QED
      BY <2>1, <2>2
  <1>7. TypeOK'
    BY <1>1, <1>3, <1>4, <1>5, <1>6 DEF TypeOK, sendVars
  <1>. QED
    BY <1>1, <1>7, AsideKeepsHandshake DEF sendVars

\* What disconnect may do with the windows, given what the handler has left.
LEMMA DisconnectingEffect ==
    ASSUME TypeOK, NEW e \in End,
           NEW post \in [End -> Seq(WindowMessage)],
           Disconnecting(e, post) \/ Finish(e, post)
    PROVE  /\ state' \in [End -> States] /\ disconnecting' \in [End -> Disconnects]
           /\ timer' \in [End -> BOOLEAN]
           /\ posted' \in [End -> Seq(WindowMessage)]
           /\ \A g \in End : posted'[g] \in {post[g], post[g] \o <<"Disconnect">>, <<>>}
  <1>. DEFINE told == Tell(e, post)
  <1>1. "closed" \in States /\ {"no", "asking", "raised"} \subseteq Disconnects
    BY DEF States, Disconnects
  <1>2. /\ told \in [End -> Seq(WindowMessage)]
        /\ \A g \in End : told[g] \in {post[g], post[g] \o <<"Disconnect">>}
    <2>1. Peer(e) \in End
      BY Ends
    <2>2. /\ Append(post[Peer(e)], "Disconnect") \in Seq(WindowMessage)
          /\ Append(post[Peer(e)], "Disconnect") = post[Peer(e)] \o <<"Disconnect">>
      BY <2>1 DEF WindowMessage
    <2>. QED
      BY <2>1, <2>2 DEF Tell
  <1>3. ASSUME NEW p \in [End -> Seq(WindowMessage)], Finish(e, p)
        PROVE  /\ state' \in [End -> States] /\ disconnecting' \in [End -> Disconnects]
               /\ timer' \in [End -> BOOLEAN]
               /\ posted' \in [End -> Seq(WindowMessage)]
               /\ \A g \in End : posted'[g] \in {p[g], <<>>}
    BY <1>1, <1>3 DEF Finish, TypeOK
  <1>4. ASSUME NEW p \in [End -> Seq(WindowMessage)], Ask(e, p)
        PROVE  /\ state' \in [End -> States] /\ disconnecting' \in [End -> Disconnects]
               /\ timer' \in [End -> BOOLEAN]
               /\ posted' = p
    BY <1>1, <1>4 DEF Ask, TypeOK
  <1>5. CASE Finish(e, post)
    BY <1>3, <1>5
  <1>6. CASE Disconnecting(e, post) /\ state[e] = "connecting" /\ e = "B"
    <2>1. /\ disconnecting' = [disconnecting EXCEPT ![e] = "raised"]
          /\ posted' = post
          /\ UNCHANGED <<state, timer>>
      BY <1>6 DEF Disconnecting
    <2>2. disconnecting' \in [End -> Disconnects]
      BY <1>1, <2>1 DEF TypeOK
    <2>. QED
      BY <2>1, <2>2 DEF TypeOK
  <1>7. CASE Disconnecting(e, post) /\ ~(state[e] = "connecting" /\ e = "B")
    <2>1. Ask(e, told) \/ Finish(e, told)
      BY <1>7 DEF Disconnecting
    <2>. HIDE DEF told
    <2>2. CASE Ask(e, told)
      BY <1>2, <1>4, <2>2
    <2>3. CASE Finish(e, told)
      <3>1. /\ state' \in [End -> States] /\ disconnecting' \in [End -> Disconnects]
            /\ timer' \in [End -> BOOLEAN]
            /\ posted' \in [End -> Seq(WindowMessage)]
            /\ \A g \in End : posted'[g] \in {told[g], <<>>}
        BY <1>2, <1>3, <2>3
      <3>. QED
        BY <1>2, <3>1
    <2>. QED
      BY <2>1, <2>2, <2>3
  <1>. QED
    BY <1>5, <1>6, <1>7

LEMMA DisconnectIsCalm ==
    ASSUME HandshakeInv, NEW e \in End,
           Disconnect(e) \/ Disconnected(e) \/ DisconnectTimer(e) \/ Ignore(e)
    PROVE  /\ TypeOK' /\ UNCHANGED <<sendVars, arrived, taken>>
           /\ \A g \in End : \A m \in {"InTransit", "Received"} : Calmer(posted[g], posted'[g], m)
  <1>1. TypeOK /\ \A g \in End : posted[g] \in Seq(WindowMessage)
    BY DEF HandshakeInv, TypeOK
  <1>2. PICK post \in [End -> Seq(WindowMessage)] :
            /\ \A g \in End : post[g] \in {posted[g], Tail(posted[g])}
            /\ \A g \in End : posted[g] = <<>> => post[g] = <<>>
            /\ \/ Disconnecting(e, post) \/ Finish(e, post)
               \/ posted' = post /\ UNCHANGED <<state, disconnecting, timer>>
    <2>1. ASSUME posted[e] # <<>>
          PROVE  /\ [posted EXCEPT ![e] = Tail(@)] \in [End -> Seq(WindowMessage)]
                 /\ \A g \in End : [posted EXCEPT ![e] = Tail(@)][g] \in {posted[g], Tail(posted[g])}
                 /\ \A g \in End : posted[g] = <<>> => [posted EXCEPT ![e] = Tail(@)][g] = <<>>
      <3>1. Tail(posted[e]) \in Seq(WindowMessage)
        BY <1>1, <2>1
      <3>. QED
        BY <1>1, <2>1, <3>1 DEF TypeOK
    <2>2. posted \in [End -> Seq(WindowMessage)]
      BY <1>1 DEF TypeOK
    <2>3. CASE Disconnect(e)
      BY <2>2, <2>3 DEF Disconnect
    <2>4. CASE DisconnectTimer(e)
      BY <2>2, <2>4 DEF DisconnectTimer
    <2>5. CASE Disconnected(e)
      <3>1. posted[e] # <<>> /\ Disconnecting(e, [posted EXCEPT ![e] = Tail(@)])
        BY <2>5 DEF Disconnected, Handles
      <3>. QED
        BY <2>1, <3>1
    <2>6. CASE Ignore(e)
      <3>1. /\ posted[e] # <<>> /\ posted' = [posted EXCEPT ![e] = Tail(@)]
            /\ UNCHANGED <<state, disconnecting, timer>>
        BY <2>6 DEF Ignore, receiveVars
      <3>. QED
        BY <2>1, <3>1
    <2>. QED
      BY <2>3, <2>4, <2>5, <2>6
  <1>3. /\ state' \in [End -> States] /\ disconnecting' \in [End -> Disconnects]
        /\ timer' \in [End -> BOOLEAN]
        /\ posted' \in [End -> Seq(WindowMessage)]
        /\ \A g \in End : posted'[g] \in {post[g], post[g] \o <<"Disconnect">>, <<>>}
    <2>1. CASE Disconnecting(e, post) \/ Finish(e, post)
      BY <1>1, <2>1, DisconnectingEffect
    <2>2. CASE posted' = post /\ UNCHANGED <<state, disconnecting, timer>>
      BY <1>1, <2>2 DEF TypeOK
    <2>. QED
      BY <1>2, <2>1, <2>2
  <1>4. UNCHANGED <<sendVars, arrived, frames, sends, taken>>
    BY DEF Disconnect, Disconnected, DisconnectTimer, Ignore, receiveVars
  <1>5. TypeOK'
    BY <1>1, <1>3, <1>4 DEF TypeOK, sendVars
  <1>6. ASSUME NEW g \in End, NEW m \in {"InTransit", "Received"}
        PROVE  Calmer(posted[g], posted'[g], m)
    <2>1. Calmer(posted[g], post[g], m) /\ Calmer(posted[g], <<>>, m)
      <3>1. CASE posted[g] = <<>>
        BY <1>2, <3>1 DEF Calmer
      <3>2. CASE posted[g] # <<>>
        <4>1. Calmer(posted[g], Tail(posted[g]), m) /\ Calmer(posted[g], <<>>, m) /\ Calmer(posted[g], posted[g], m)
          BY <1>1, <3>2, HandledIsCalmer
        <4>. QED
          BY <1>2, <4>1
      <3>. QED
        BY <3>1, <3>2
    <2>2. Calmer(post[g], post[g] \o <<"Disconnect">>, m)
      <3>1. <<"Disconnect">> \in Seq(WindowMessage) /\ post[g] \in Seq(WindowMessage)
        BY DEF WindowMessage
      <3>2. Quiet(<<"Disconnect">>, m)
        BY OfOne
      <3>. QED
        BY <3>1, <3>2, PostedIsCalmer
    <2>. QED
      BY <1>3, <2>1, <2>2 DEF Calmer
  <1>. QED
    BY <1>4, <1>5, <1>6

LEMMA DisconnectKeepsHandshake ==
    ASSUME HandshakeInv, NEW e \in End,
           Disconnect(e) \/ Disconnected(e) \/ DisconnectTimer(e) \/ Ignore(e)
    PROVE  HandshakeInv'
  BY DisconnectIsCalm, NeutralKeepsHandshake DEF sendVars

LEMMA HandshakeStep == HandshakeInv /\ [Next]_vars => HandshakeInv'
  <1>. SUFFICES ASSUME HandshakeInv, [Next]_vars PROVE HandshakeInv'
    OBVIOUS
  <1>1. CASE Connect
    BY <1>1, ConnectKeepsHandshake
  <1>2. CASE Request
    BY <1>2, RequestKeepsHandshake
  <1>3. ASSUME NEW e \in End, Application(e) PROVE HandshakeInv'
    <2>1. ASSUME NEW d \in Data, SendLater(e, d) \/ SendNow(e, d) \/ SendCrashes(e, d)
          PROVE  HandshakeInv'
      BY <2>1, SendKeepsHandshake
    <2>2. CASE Refuses(e)
      BY <2>2, RefusesKeepsHandshake
    <2>5. CASE ConnectedReturns(e)
      BY <2>5, ConnectedReturnsKeepsHandshake
    <2>3. CASE Receives(e)
      BY <2>3, ReceivesKeepsHandshake
    <2>4. CASE Disconnect(e)
      BY <2>4, DisconnectKeepsHandshake
    <2>. QED
      BY <1>3, <2>1, <2>2, <2>3, <2>4, <2>5 DEF Application
  <1>4. ASSUME NEW e \in End, Window(e) PROVE HandshakeInv'
    <2>1. CASE Agreed(e) \/ Acknowledged(e)
      BY <2>1, EstablishedKeepsHandshake
    <2>4. CASE Received(e)
      BY <2>4, ReceivedKeepsHandshake
    <2>2. CASE MessageInTransit(e)
      BY <2>2, ReadKeepsHandshake
    <2>3. CASE Disconnected(e) \/ Ignore(e)
      BY <2>3, DisconnectKeepsHandshake
    <2>. QED
      BY <1>4, <2>1, <2>2, <2>3, <2>4 DEF Window
  <1>5. ASSUME NEW e \in End, Timer(e) PROVE HandshakeInv'
    BY <1>5, TimerKeepsHandshake
  <1>6. ASSUME NEW e \in End, DisconnectTimer(e) PROVE HandshakeInv'
    BY <1>6, DisconnectKeepsHandshake
  <1>7. CASE UNCHANGED vars
    <2>1. TypeOK'
      BY <1>7 DEF vars, sendVars, receiveVars, HandshakeInv, TypeOK
    <2>. QED
      BY <1>7, <2>1, AsideKeepsHandshake DEF vars
  <1>. QED
    BY <1>1, <1>2, <1>3, <1>4, <1>5, <1>6, <1>7 DEF Next

LEMMA HandshakeInit == Init => HandshakeInv
  <1>. SUFFICES ASSUME Init PROVE HandshakeInv
    OBVIOUS
  <1>1. TypeOK
    BY DEF Init, TypeOK, States, Disconnects
  <1>2. \A e \in End : posted[e] = <<>>
    BY DEF Init
  <1>3. \A m : Quiet(<<>>, m) /\ Once(<<>>, m)
    BY OfOne, QuietIsOnce
  <1>4. Handshake /\ Written
    BY <1>2, <1>3, Ends DEF Handshake, Written, Held
  <1>. QED
    BY <1>1, <1>4 DEF HandshakeInv

\* In every state the variables have their types, each direction has at most one
\* InTransit or Received posted, and none while its sender is not sending, and a
\* file that has been announced holds a message.
THEOREM HandshakeInvariant == Spec => []HandshakeInv
  BY HandshakeInit, HandshakeStep, PTL DEF Spec

\* Whatever is read from a mapped file is a message: everything that is queued,
\* offered and taken is one (class VLMMMFileTransport, processWinProc).
THEOREM TransportTyped == Spec => []TypeOK
  <1>1. HandshakeInv => TypeOK
    BY DEF HandshakeInv
  <1>. QED
    BY <1>1, HandshakeInvariant, PTL

\* An end is never told of a message twice, and never writes its file while the
\* other end has not read it: however sends, refusals, disconnects and handlers
\* inside handlers interleave, one message is under way per direction.
THEOREM OneAtATime == Spec => []OneMessageUnderWay
  <1>1. HandshakeInv => OneMessageUnderWay
    <2>. SUFFICES ASSUME Handshake, NEW e \in End
         PROVE  LET out == Positions(posted[Peer(e)], "InTransit")
                    back == Positions(posted[e], "Received")
                IN  /\ out = {} \/ back = {}
                    /\ \A i, j \in out \cup back : i = j
                    /\ ~isSending[e] => out \cup back = {}
      BY DEF HandshakeInv, OneMessageUnderWay
    <2>1. Held(posted[Peer(e)], posted[e], isSending[e])
      BY DEF Handshake
    <2>. QED
      BY <2>1 DEF Held, Quiet, Once
  <1>. QED
    BY <1>1, HandshakeInvariant, PTL

(***************************************************************************)
(* What is gone stays gone                                                 *)
(***************************************************************************)

\* An end that has begun to disconnect, or is no more.
Gone(f) == disconnecting[f] # "no" \/ state[f] \in {"closed", "crashed"}

\* What is gone stays gone, and has nothing posted to it when it ends.
StaysGone(f) ==
    /\ Gone(f) => Gone(f)'
    /\ disconnecting[f] # "no" => disconnecting'[f] # "no" \/ posted'[f] = <<>>

LEMMA AloneStaysGone ==
    ASSUME NEW f \in End, UNCHANGED <<state, disconnecting>> PROVE StaysGone(f)
  BY DEF StaysGone, Gone

LEMMA EstablishedStaysGone ==
    ASSUME TypeOK, NEW f \in End, NEW e \in End, Agreed(e) \/ Acknowledged(e)
    PROVE  StaysGone(f)
  <1>1. /\ HasWindow(e) /\ disconnecting[e] = "no"
        /\ state' = [state EXCEPT ![e] = "connected"] /\ UNCHANGED disconnecting
    BY DEF Agreed, Acknowledged, Established, Handles, CanHandle
  <1>. QED
    BY <1>1 DEF HasWindow, StaysGone, Gone, TypeOK

LEMMA ConnectingStaysGone ==
    ASSUME TypeOK, NEW f \in End,
           \/ Connect \/ Request
           \/ \E e \in End : Agreed(e) \/ Acknowledged(e) \/ (Crash(e) /\ UNCHANGED disconnecting)
    PROVE  StaysGone(f)
  <1>1. CASE Connect
    BY <1>1 DEF Connect, StaysGone, Gone, TypeOK
  <1>2. CASE Request
    BY <1>2 DEF Request, StaysGone, Gone, TypeOK
  <1>3. ASSUME NEW e \in End, Agreed(e) \/ Acknowledged(e) PROVE StaysGone(f)
    BY <1>3, EstablishedStaysGone
  <1>4. ASSUME NEW e \in End, Crash(e), UNCHANGED disconnecting PROVE StaysGone(f)
    BY <1>4 DEF Crash, StaysGone, Gone, TypeOK
  <1>. QED
    BY <1>1, <1>2, <1>3, <1>4

LEMMA DisconnectingStaysGone ==
    ASSUME TypeOK, NEW f \in End, NEW e \in End,
           NEW post \in [End -> Seq(WindowMessage)],
           \/ disconnecting[e] = "no" /\ HasWindow(e) /\ Disconnecting(e, post)
           \/ Finish(e, post)
    PROVE  StaysGone(f)
  <1>1. ASSUME NEW p \in [End -> Seq(WindowMessage)], Finish(e, p) PROVE StaysGone(f)
    BY <1>1 DEF Finish, StaysGone, Gone, TypeOK
  <1>2. ASSUME NEW p, Ask(e, p) PROVE StaysGone(f)
    BY <1>2 DEF Ask, StaysGone, Gone, TypeOK
  <1>3. ASSUME Disconnecting(e, post) PROVE StaysGone(f)
    <2>1. CASE state[e] = "connecting" /\ e = "B"
      BY <1>3, <2>1 DEF Disconnecting, StaysGone, Gone, TypeOK
    <2>2. CASE ~(state[e] = "connecting" /\ e = "B")
      <3>. DEFINE told == Tell(e, post)
      <3>1. Ask(e, told) \/ Finish(e, told)
        BY <1>3, <2>2 DEF Disconnecting
      <3>2. told \in [End -> Seq(WindowMessage)]
        <4>1. Append(post[Peer(e)], "Disconnect") \in Seq(WindowMessage)
          BY Ends DEF WindowMessage
        <4>. QED
          BY <4>1, Ends DEF Tell
      <3>. HIDE DEF told
      <3>. QED
        BY <1>1, <1>2, <3>1, <3>2
    <2>. QED
      BY <2>1, <2>2
  <1>. QED
    BY <1>1, <1>3

LEMMA NextStaysGone ==
    ASSUME TypeOK, [Next]_vars, NEW f \in End PROVE StaysGone(f)
  <1>1. CASE Connect \/ Request
    BY <1>1, ConnectingStaysGone
  <1>2. ASSUME NEW e \in End, Application(e) \/ Window(e) \/ Timer(e) \/ DisconnectTimer(e)
        PROVE  StaysGone(f)
    <2>1. CASE \/ \E d \in Data : SendLater(e, d) \/ SendNow(e, d)
               \/ Refuses(e) \/ Receives(e) \/ MessageInTransit(e) \/ Received(e)
               \/ Ignore(e) \/ Timer(e)
      BY <2>1, AloneStaysGone
         DEF SendLater, SendNow, PrivateSendAndPost, Refuses, Receives, MessageInTransit, Received, Ignore, Timer
    <2>2. CASE Agreed(e) \/ Acknowledged(e)
      BY <2>2, EstablishedStaysGone
    <2>3. CASE \E d \in Data : SendCrashes(e, d)
      <3>1. Crash(e) /\ UNCHANGED disconnecting
        BY <2>3 DEF SendCrashes
      <3>. QED
        BY <3>1, ConnectingStaysGone
    <2>4. CASE ConnectedReturns(e)
      <3>1. CASE PrivateSendAndPost(e, sendQueue[e]) \/ UNCHANGED <<state, posted, sendVars>>
        BY <2>4, <3>1, AloneStaysGone DEF ConnectedReturns, PrivateSendAndPost
      <3>2. CASE Crash(e)
        BY <2>4, <3>2, ConnectingStaysGone DEF ConnectedReturns
      <3>. QED
        BY <2>4, <3>1, <3>2 DEF ConnectedReturns
    <2>5. CASE Disconnect(e) \/ Disconnected(e) \/ DisconnectTimer(e)
      <3>1. posted \in [End -> Seq(WindowMessage)]
        BY DEF TypeOK
      <3>2. CASE Disconnect(e)
        BY <3>1, <3>2, DisconnectingStaysGone DEF Disconnect
      <3>3. CASE DisconnectTimer(e)
        BY <3>1, <3>3, DisconnectingStaysGone DEF DisconnectTimer
      <3>4. CASE Disconnected(e)
        <4>1. /\ disconnecting[e] = "no" /\ HasWindow(e) /\ posted[e] # <<>>
              /\ Disconnecting(e, [posted EXCEPT ![e] = Tail(@)])
          BY <3>4 DEF Disconnected, Handles, CanHandle
        <4>2. [posted EXCEPT ![e] = Tail(@)] \in [End -> Seq(WindowMessage)]
          <5>1. Tail(posted[e]) \in Seq(WindowMessage)
            BY <3>1, <4>1
          <5>. QED
            BY <3>1, <5>1
        <4>. QED
          BY <4>1, <4>2, DisconnectingStaysGone
      <3>. QED
        BY <2>5, <3>2, <3>3, <3>4
    <2>. QED
      BY <1>2, <2>1, <2>2, <2>3, <2>4, <2>5 DEF Application, Window
  <1>3. CASE UNCHANGED vars
    BY <1>3, AloneStaysGone DEF vars
  <1>. QED
    BY <1>1, <1>2, <1>3 DEF Next

(***************************************************************************)
(* Before the listener has made "B" nothing is sent, posted to "A", or run *)
(***************************************************************************)

Unmade == state["B"] = "none"
Made == state["A"] # "none" /\ state["B"] # "none"

Stages ==
    /\ state["A"] = "none" => Unmade /\ posted["B"] = <<>>
    /\ Unmade =>
        /\ posted["A"] = <<>>
        /\ \A e \in End : /\ frames[e] = <<>> /\ ~timer[e] /\ ~isSending[e]
                          /\ state[e] # "connected"

LEMMA StagesInit == Init => Stages
  BY DEF Init, Stages, Unmade, End

\* An end that is connected, sends or runs a handler has met the other.
LEMMA HasMet ==
    ASSUME Stages, NEW e \in End,
           state[e] = "connected" \/ isSending[e] \/ frames[e] # <<>>
    PROVE  state[Peer(e)] # "none" /\ state[e] # "none"
  BY DEF Stages, Unmade, End, Peer

LEMMA ConnectKeepsStages == ASSUME TypeOK, Stages, Connect \/ Request PROVE Stages'
  <1>1. CASE Connect
    BY <1>1 DEF Connect, Stages, Unmade, TypeOK, sendVars, receiveVars, End
  <1>2. CASE Request
    BY <1>2 DEF Request, Stages, Unmade, TypeOK, End
  <1>. QED
    BY <1>1, <1>2

\* No end is unmade.
LEMMA MadeStays ==
    ASSUME TypeOK, Made, NEW e \in End,
           Application(e) \/ Window(e) \/ Timer(e) \/ DisconnectTimer(e)
    PROVE  Made'
  <1>1. ASSUME NEW x, x # "none", state' = [state EXCEPT ![e] = x] PROVE Made'
    BY <1>1 DEF Made, TypeOK, End
  <1>2. ASSUME state' = state PROVE Made'
    BY <1>2 DEF Made
  <1>3. ASSUME NEW post, Disconnecting(e, post) \/ Finish(e, post) PROVE Made'
    <2>1. state' = state \/ state' = [state EXCEPT ![e] = "closed"]
      BY <1>3 DEF Disconnecting, Ask, Finish
    <2>. QED
      BY <1>1, <1>2, <2>1
  <1>4. CASE Application(e)
    <2>1. CASE Disconnect(e)
      BY <1>3, <2>1 DEF Disconnect
    <2>2. CASE \E d \in Data : SendLater(e, d) \/ SendNow(e, d)
      BY <1>2, <2>2 DEF SendLater, SendNow, PrivateSendAndPost
    <2>3. CASE \E d \in Data : SendCrashes(e, d)
      BY <1>1, <2>3 DEF SendCrashes, Crash
    <2>4. CASE ConnectedReturns(e)
      BY <1>1, <1>2, <2>4 DEF ConnectedReturns, PrivateSendAndPost, Crash
    <2>5. CASE Refuses(e) \/ Receives(e)
      BY <1>2, <2>5 DEF Refuses, Receives
    <2>. QED
      BY <1>4, <2>1, <2>2, <2>3, <2>4, <2>5 DEF Application
  <1>5. CASE Window(e)
    <2>1. CASE Agreed(e) \/ Acknowledged(e)
      BY <1>1, <2>1 DEF Agreed, Acknowledged, Established
    <2>2. CASE MessageInTransit(e) \/ Received(e) \/ Ignore(e)
      BY <1>2, <2>2 DEF MessageInTransit, Received, Ignore
    <2>3. CASE Disconnected(e)
      BY <1>3, <2>3 DEF Disconnected
    <2>. QED
      BY <1>5, <2>1, <2>2, <2>3 DEF Window
  <1>6. CASE Timer(e)
    BY <1>2, <1>6 DEF Timer
  <1>7. CASE DisconnectTimer(e)
    BY <1>3, <1>7 DEF DisconnectTimer
  <1>. QED
    BY <1>4, <1>5, <1>6, <1>7

\* What can happen before "B" is made.
LEMMA OnlyEarly ==
    ASSUME Stages, Unmade, NEW e \in End,
           Application(e) \/ Window(e) \/ Timer(e) \/ DisconnectTimer(e)
    PROVE  /\ e = "A" /\ HasWindow(e)
           /\ (\E d \in Data : SendLater(e, d)) \/ Disconnect(e) \/ DisconnectTimer(e)
  <1>1. /\ posted["A"] = <<>> /\ ~HasWindow("B")
        /\ frames[e] = <<>> /\ ~timer[e] /\ state[e] # "connected"
    BY DEF Stages, Unmade, HasWindow
  <1>2. ~Running(e) /\ ~Timer(e)
    BY <1>1 DEF Running, Timer
  <1>3. HasWindow(e) => e = "A"
    BY <1>1 DEF End
  <1>4. ~Window(e)
    BY <1>1, <1>3 DEF Window, Agreed, Acknowledged, Established, MessageInTransit, Received,
                      Disconnected, Ignore, Handles, CanHandle
  <1>5. CASE Application(e)
    <2>1. ~ConnectedReturns(e) /\ ~Refuses(e) /\ ~Receives(e)
      BY <1>2 DEF ConnectedReturns, Refuses, Receives, Offering
    <2>2. \A d \in Data : ~SendNow(e, d) /\ ~SendCrashes(e, d)
      BY <1>1 DEF SendNow, SendCrashes
    <2>. QED
      BY <1>3, <1>5, <2>1, <2>2 DEF Application, SendLater, CallsSend, Disconnect
  <1>6. CASE DisconnectTimer(e)
    BY <1>3, <1>6 DEF DisconnectTimer, CanHandle
  <1>. QED
    BY <1>2, <1>4, <1>5, <1>6

LEMMA EarlyKeepsStages ==
    ASSUME TypeOK, Stages, Unmade, HasWindow("A"),
           (\E d \in Data : SendLater("A", d)) \/ Disconnect("A") \/ DisconnectTimer("A")
    PROVE  Stages'
  <1>1. "A" \in End /\ state["A"] # "connected" /\ posted["A"] = <<>>
    BY DEF Stages, Unmade, End
  <1>2. /\ frames' = frames /\ isSending' = isSending
        /\ state' = state \/ state' = [state EXCEPT !["A"] = "closed"]
        /\ posted' = posted \/ posted' = [posted EXCEPT !["A"] = <<>>]
        /\ timer' = timer \/ timer' = [timer EXCEPT !["A"] = FALSE]
    <2>1. CASE \E d \in Data : SendLater("A", d)
      BY <2>1 DEF SendLater, receiveVars
    <2>2. CASE Disconnect("A")
      <3>1. Tell("A", posted) = posted
        BY <1>1 DEF Tell
      <3>2. Disconnecting("A", posted)
        BY <2>2 DEF Disconnect
      <3>3. Ask("A", posted) \/ Finish("A", posted)
        BY <3>1, <3>2 DEF Disconnecting
      <3>. QED
        BY <2>2, <3>3 DEF Disconnect, Ask, Finish, sendVars
    <2>3. CASE DisconnectTimer("A")
      BY <2>3 DEF DisconnectTimer, Finish, sendVars
    <2>. QED
      BY <2>1, <2>2, <2>3
  <1>3. state'["A"] # "none" /\ state'["B"] = "none"
    BY <1>1, <1>2 DEF HasWindow, Unmade, TypeOK, End
  <1>4. posted'["A"] = <<>>
    BY <1>1, <1>2 DEF TypeOK
  <1>5. ASSUME NEW g \in End
        PROVE  frames'[g] = <<>> /\ ~timer'[g] /\ ~isSending'[g] /\ state'[g] # "connected"
    <2>1. frames[g] = <<>> /\ ~timer[g] /\ ~isSending[g] /\ state[g] # "connected"
      BY DEF Stages, Unmade
    <2>2. ~timer'[g]
      BY <1>2, <2>1 DEF TypeOK
    <2>3. state'[g] # "connected"
      BY <1>2, <2>1 DEF TypeOK
    <2>. QED
      BY <1>2, <2>1, <2>2, <2>3
  <1>. QED
    BY <1>3, <1>4, <1>5 DEF Stages, Unmade

LEMMA StagesStep ==
    ASSUME TypeOK, Stages, [Next]_vars PROVE Stages'
  <1>1. ASSUME NEW e \in End, Application(e) \/ Window(e) \/ Timer(e) \/ DisconnectTimer(e)
        PROVE  Stages'
    <2>1. CASE Unmade
      BY <1>1, <2>1, OnlyEarly, EarlyKeepsStages
    <2>2. CASE ~Unmade
      <3>1. Made'
        BY <1>1, <2>2, MadeStays DEF Made, Stages, Unmade
      <3>. QED
        BY <3>1 DEF Made, Stages, Unmade
    <2>. QED
      BY <2>1, <2>2
  <1>2. CASE UNCHANGED vars
    BY <1>2 DEF vars, Stages, Unmade
  <1>. QED
    BY <1>1, <1>2, ConnectKeepsStages DEF Next

(***************************************************************************)
(* Why a sender waits for ever                                             *)
(***************************************************************************)

\* e waits for a Received that will not come
Blocked(e) ==
    /\ isSending[e]
    /\ Quiet(posted[Peer(e)], "InTransit")
    /\ Quiet(posted[e], "Received")

\* It does so when its message was too big, and otherwise only when an end has
\* begun to disconnect or is no more.
Stalls(e) ==
    /\ e \in tooBig => Blocked(e)
    /\ Blocked(e) => Gone(e) \/ Gone(Peer(e)) \/ e \in tooBig
Stalled == \A e \in End : Stalls(e)

\* A change of a queue that takes no such message away.
Kept(q, r, m) == Quiet(r, m) => Quiet(q, m)

LEMMA HandledIsKept ==
    ASSUME NEW S, NEW q \in Seq(S), q # <<>>, NEW m, Head(q) # m PROVE Kept(q, Tail(q), m)
  <1>1. ASSUME NEW i \in Positions(q, m) PROVE i - 1 \in Positions(Tail(q), m)
    <2>1. i \in 1..Len(q) /\ q[i] = m /\ i # 1
      BY <1>1 DEF Positions
    <2>2. i - 1 \in 1..Len(Tail(q)) /\ Tail(q)[i - 1] = q[i]
      BY <2>1
    <2>. QED
      BY <2>1, <2>2 DEF Positions
  <1>. QED
    BY <1>1 DEF Kept, Quiet

LEMMA PostedIsKept ==
    ASSUME NEW S, NEW q \in Seq(S), NEW s \in Seq(S), NEW m
    PROVE  Kept(q, q \o s, m) /\ Kept(s, q \o s, m)
  <1>1. /\ Len(q \o s) = Len(q) + Len(s)
        /\ \A i \in 1..Len(q) : (q \o s)[i] = q[i]
        /\ \A i \in 1..Len(s) : (q \o s)[i + Len(q)] = s[i]
    OBVIOUS
  <1>2. \A i \in Positions(q, m) : i \in Positions(q \o s, m)
    BY <1>1 DEF Positions
  <1>3. \A i \in Positions(s, m) : i + Len(q) \in Positions(q \o s, m)
    BY <1>1 DEF Positions
  <1>. QED
    BY <1>2, <1>3 DEF Kept, Quiet

\* A step that sends nothing in a direction and loses nothing of its handshake,
\* or ends it.
LEMMA NeutralStalls ==
    ASSUME NEW e \in End, Stalls(e),
           isSending'[e] = isSending[e], tooBig' \ {Peer(e)} = tooBig \ {Peer(e)},
           Calmer(posted[Peer(e)], posted'[Peer(e)], "InTransit"),
           Calmer(posted[e], posted'[e], "Received"),
           \/ Gone(e)' \/ Gone(Peer(e))'
           \/ /\ Kept(posted[Peer(e)], posted'[Peer(e)], "InTransit")
              /\ Kept(posted[e], posted'[e], "Received")
              /\ StaysGone(e) /\ StaysGone(Peer(e))
    PROVE  Stalls(e)'
  <1>1. e \in tooBig' <=> e \in tooBig
    BY Ends
  <1>2. /\ Quiet(posted[Peer(e)], "InTransit") => Quiet(posted'[Peer(e)], "InTransit")
        /\ Quiet(posted[e], "Received") => Quiet(posted'[e], "Received")
    BY DEF Calmer
  <1>3. Blocked(e)' <=> /\ isSending'[e]
                        /\ Quiet(posted'[Peer(e)], "InTransit") /\ Quiet(posted'[e], "Received")
    BY DEF Blocked, Quiet
  <1>4. e \in tooBig' => Blocked(e)'
    BY <1>1, <1>2, <1>3 DEF Stalls, Blocked
  <1>5. Blocked(e)' => Gone(e)' \/ Gone(Peer(e))' \/ e \in tooBig'
    <2>1. CASE Gone(e)' \/ Gone(Peer(e))'
      BY <2>1
    <2>2. CASE /\ Kept(posted[Peer(e)], posted'[Peer(e)], "InTransit")
               /\ Kept(posted[e], posted'[e], "Received")
               /\ StaysGone(e) /\ StaysGone(Peer(e))
      <3>1. Blocked(e)' => Blocked(e)
        BY <1>3, <2>2 DEF Kept, Blocked
      <3>2. Gone(e) \/ Gone(Peer(e)) => Gone(e)' \/ Gone(Peer(e))'
        BY <2>2 DEF StaysGone
      <3>. QED
        BY <1>1, <3>1, <3>2 DEF Stalls
    <2>. QED
      BY <2>1, <2>2
  <1>. QED
    BY <1>4, <1>5 DEF Stalls

\* A step that leaves the sending of both ends alone.
LEMMA NeutralStalled ==
    ASSUME Stalled, UNCHANGED <<isSending, tooBig>>,
           \A g \in End : StaysGone(g),
           \A g \in End : \A m \in {"InTransit", "Received"} : Calmer(posted[g], posted'[g], m),
           \/ \E g \in End : Gone(g)'
           \/ \A g \in End : \A m \in {"InTransit", "Received"} : Kept(posted[g], posted'[g], m)
    PROVE  Stalled'
  <1>. SUFFICES ASSUME NEW e \in End PROVE Stalls(e)'
    BY DEF Stalled
  <1>1. Peer(e) \in End /\ \A g \in End : g = e \/ g = Peer(e)
    BY Ends
  <1>2. /\ Stalls(e) /\ isSending'[e] = isSending[e] /\ tooBig' \ {Peer(e)} = tooBig \ {Peer(e)}
        /\ Calmer(posted[Peer(e)], posted'[Peer(e)], "InTransit")
        /\ Calmer(posted[e], posted'[e], "Received")
        /\ StaysGone(e) /\ StaysGone(Peer(e))
    BY <1>1 DEF Stalled
  <1>3. CASE \E g \in End : Gone(g)'
    <2>1. PICK g \in End : Gone(g)'
      BY <1>3
    <2>2. CASE g = e
      BY <1>2, <2>1, <2>2, NeutralStalls
    <2>3. CASE g = Peer(e)
      BY <1>2, <2>1, <2>3, NeutralStalls
    <2>. QED
      BY <1>1, <2>2, <2>3
  <1>4. CASE \A g \in End : \A m \in {"InTransit", "Received"} : Kept(posted[g], posted'[g], m)
    BY <1>1, <1>2, <1>4, NeutralStalls
  <1>. QED
    BY <1>3, <1>4

\* privateSendMessage in the direction it sends.
LEMMA SendingStalls ==
    ASSUME HandshakeInv, NEW e \in End, Stalls(e), ~Blocked(e),
           NEW queue \in Seq(Data), queue # <<>>, PrivateSend(e, queue),
           Quiet(posted[Peer(e)], "InTransit"), Quiet(posted'[e], "Received"),
           posted'[Peer(e)] = IF HasWindow(Peer(e)) THEN posted[Peer(e)] \o InTransit(queue)
                              ELSE posted[Peer(e)],
           state[Peer(e)] # "none", StaysGone(Peer(e))
    PROVE  Stalls(e)'
  <1>1. /\ Peer(e) \in End /\ isSending'[e]
        /\ posted[Peer(e)] \in Seq(WindowMessage) /\ state[Peer(e)] \in States
    BY Ends, PrivateSendEffect DEF HandshakeInv, TypeOK
  <1>2. Blocked(e)' <=> Quiet(posted'[Peer(e)], "InTransit")
    BY <1>1 DEF Blocked, Quiet
  <1>3. e \notin tooBig
    BY DEF Stalls
  <1>4. CASE Head(queue) \in Big
    <2>1. e \in tooBig' /\ InTransit(queue) = <<>>
      BY <1>4 DEF PrivateSend, WriteFile, InTransit
    <2>2. posted[Peer(e)] \o <<>> = posted[Peer(e)]
      BY <1>1
    <2>3. posted'[Peer(e)] = posted[Peer(e)]
      BY <2>1, <2>2
    <2>4. Blocked(e)'
      BY <1>2, <2>3
    <2>. QED
      BY <2>1, <2>4 DEF Stalls
  <1>5. CASE Head(queue) \notin Big /\ HasWindow(Peer(e))
    <2>1. e \notin tooBig' /\ InTransit(queue) = <<"InTransit">>
      BY <1>3, <1>5 DEF PrivateSend, WriteFile, InTransit
    <2>2. Kept(<<"InTransit">>, posted[Peer(e)] \o <<"InTransit">>, "InTransit")
      <3>1. <<"InTransit">> \in Seq(WindowMessage)
        BY DEF WindowMessage
      <3>. QED
        BY <1>1, <3>1, PostedIsKept
    <2>3. ~Quiet(<<"InTransit">>, "InTransit")
      <3>1. 1 \in Positions(<<"InTransit">>, "InTransit")
        BY DEF Positions
      <3>. QED
        BY <3>1 DEF Quiet
    <2>4. ~Blocked(e)'
      BY <1>2, <1>5, <2>1, <2>2, <2>3 DEF Kept
    <2>. QED
      BY <2>1, <2>4 DEF Stalls
  <1>6. CASE Head(queue) \notin Big /\ ~HasWindow(Peer(e))
    <2>1. e \notin tooBig'
      BY <1>3, <1>6 DEF PrivateSend, WriteFile
    <2>2. Gone(Peer(e))
      BY <1>1, <1>6 DEF Gone, HasWindow, States
    <2>3. Gone(Peer(e))'
      BY <2>2 DEF StaysGone
    <2>. QED
      BY <2>1, <2>3 DEF Stalls
  <1>. QED
    BY <1>4, <1>5, <1>6

\* The other direction, when an end sends: its own queue may lose a Received.
LEMMA SendingStallsOther ==
    ASSUME HandshakeInv, NEW f \in End, Stalls(Peer(f)),
           NEW queue \in Seq(Data), queue # <<>>, PrivateSend(f, queue),
           posted'[Peer(f)] = IF HasWindow(Peer(f)) THEN posted[Peer(f)] \o InTransit(queue)
                              ELSE posted[Peer(f)],
           Calmer(posted[f], posted'[f], "InTransit"), Kept(posted[f], posted'[f], "InTransit"),
           StaysGone(f), StaysGone(Peer(f))
    PROVE  Stalls(Peer(f))'
  <1>1. /\ Peer(f) \in End /\ Peer(Peer(f)) = f /\ Peer(f) # f
        /\ posted[Peer(f)] \in Seq(WindowMessage)
    BY Ends DEF HandshakeInv, TypeOK
  <1>2. InTransit(queue) \in Seq(WindowMessage) /\ Quiet(InTransit(queue), "Received")
    BY Transit
  <1>3. /\ Calmer(posted[Peer(f)], posted[Peer(f)] \o InTransit(queue), "Received")
        /\ Kept(posted[Peer(f)], posted[Peer(f)] \o InTransit(queue), "Received")
    BY <1>1, <1>2, PostedIsCalmer, PostedIsKept
  <1>4. /\ Calmer(posted[Peer(f)], posted'[Peer(f)], "Received")
        /\ Kept(posted[Peer(f)], posted'[Peer(f)], "Received")
    BY <1>3 DEF Calmer, Kept
  <1>5. /\ isSending'[Peer(f)] = isSending[Peer(f)]
        /\ tooBig' \ {f} = tooBig \ {f}
    BY <1>1 DEF PrivateSend, WriteFile, HandshakeInv, TypeOK
  <1>. QED
    BY <1>1, <1>4, <1>5, NeutralStalls

\* privateSendMessage, called by an end that is not sending.
LEMMA PrivateSendStalled ==
    ASSUME HandshakeInv, Stalled, NEW f \in End, ~isSending[f], state[Peer(f)] # "none",
           NEW queue \in Seq(Data), queue # <<>>, PrivateSendAndPost(f, queue),
           \A g \in End : StaysGone(g)
    PROVE  Stalled'
  <1>1. /\ PrivateSend(f, queue) /\ Peer(f) \in End /\ Peer(f) # f
        /\ posted \in [End -> Seq(WindowMessage)]
    BY Ends DEF PrivateSendAndPost, HandshakeInv, TypeOK
  <1>2. /\ posted'[f] = posted[f]
        /\ posted'[Peer(f)] = IF HasWindow(Peer(f)) THEN posted[Peer(f)] \o InTransit(queue)
                              ELSE posted[Peer(f)]
    BY <1>1 DEF PrivateSendAndPost, Post
  <1>3. Held(posted[Peer(f)], posted[f], isSending[f])
    BY DEF HandshakeInv, Handshake
  <1>4. Quiet(posted[Peer(f)], "InTransit") /\ Quiet(posted'[f], "Received") /\ ~Blocked(f)
    BY <1>2, <1>3 DEF Held, Blocked
  <1>5. Stalls(f)'
    BY <1>1, <1>2, <1>4, SendingStalls DEF Stalled
  <1>6. Calmer(posted[f], posted'[f], "InTransit") /\ Kept(posted[f], posted'[f], "InTransit")
    BY <1>2 DEF Calmer, Kept
  <1>7. Stalls(Peer(f))'
    BY <1>1, <1>2, <1>6, SendingStallsOther DEF Stalled
  <1>. QED
    BY <1>5, <1>7, Ends DEF Stalled

LEMMA ReceivedStalled ==
    ASSUME HandshakeInv, Stages, Stalled, NEW f \in End, Received(f),
           \A g \in End : StaysGone(g)
    PROVE  Stalled'
  <1>1. /\ Peer(f) \in End /\ Peer(f) # f /\ TypeOK
        /\ posted[f] # <<>> /\ Head(posted[f]) = "Received"
        /\ posted \in [End -> Seq(WindowMessage)] /\ sendQueue[f] \in Seq(Data)
    BY Ends DEF Received, Handles, HandshakeInv, TypeOK
  <1>2. Held(posted[Peer(f)], posted[f], isSending[f])
    BY DEF HandshakeInv, Handshake
  <1>3. ~Quiet(posted[f], "Received")
    <2>1. 1 \in Positions(posted[f], "Received")
      BY <1>1 DEF Positions
    <2>. QED
      BY <2>1 DEF Quiet
  <1>4. /\ isSending[f] /\ ~Blocked(f) /\ Quiet(posted[Peer(f)], "InTransit")
        /\ Quiet(Tail(posted[f]), "Received")
    BY <1>1, <1>2, <1>3, OnceTail DEF Held, Blocked
  <1>5. /\ Calmer(posted[f], Tail(posted[f]), "InTransit")
        /\ Kept(posted[f], Tail(posted[f]), "InTransit")
    BY <1>1, HandledIsCalmer, HandledIsKept
  <1>6. CASE sendQueue[f] # <<>>
    <2>1. PrivateSend(f, sendQueue[f]) /\ HandleAndPost(f, InTransit(sendQueue[f]))
      BY <1>6 DEF Received
    <2>2. /\ posted'[f] = Tail(posted[f])
          /\ posted'[Peer(f)] = IF HasWindow(Peer(f)) THEN posted[Peer(f)] \o InTransit(sendQueue[f])
                                ELSE posted[Peer(f)]
      BY <1>1, <2>1 DEF HandleAndPost, Post
    <2>3. state[Peer(f)] # "none"
      BY <1>4, HasMet
    <2>4. Stalls(f)'
      BY <1>1, <1>4, <1>6, <2>1, <2>2, <2>3, SendingStalls DEF Stalled
    <2>5. Stalls(Peer(f))'
      BY <1>1, <1>5, <1>6, <2>1, <2>2, SendingStallsOther DEF Stalled
    <2>. QED
      BY <2>4, <2>5, Ends DEF Stalled
  <1>7. CASE sendQueue[f] = <<>>
    <2>1. /\ isSending' = [isSending EXCEPT ![f] = FALSE]
          /\ HandleAndPost(f, <<>>) /\ tooBig' = tooBig
      BY <1>7 DEF Received
    <2>2. posted'[f] = Tail(posted[f]) /\ posted'[Peer(f)] = posted[Peer(f)]
      <3>1. posted[Peer(f)] \o <<>> = posted[Peer(f)]
        BY <1>1
      <3>. QED
        BY <1>1, <2>1, <3>1 DEF HandleAndPost, Post
    <2>3. Stalls(f)'
      <3>1. ~isSending'[f]
        BY <1>1, <2>1 DEF TypeOK
      <3>2. ~Blocked(f)'
        BY <3>1 DEF Blocked
      <3>. QED
        BY <1>4, <2>1, <3>2 DEF Stalls, Stalled
    <2>4. Stalls(Peer(f))'
      <3>1. Peer(Peer(f)) = f /\ isSending'[Peer(f)] = isSending[Peer(f)]
        BY <1>1, <2>1, Ends DEF TypeOK
      <3>2. /\ Calmer(posted[Peer(f)], posted'[Peer(f)], "Received")
            /\ Kept(posted[Peer(f)], posted'[Peer(f)], "Received")
        BY <2>2 DEF Calmer, Kept
      <3>. QED
        BY <1>1, <1>5, <2>1, <2>2, <3>1, <3>2, NeutralStalls DEF Stalled
    <2>. QED
      BY <2>3, <2>4, Ends DEF Stalled
  <1>. QED
    BY <1>6, <1>7

LEMMA ReadStalled ==
    ASSUME HandshakeInv, Stages, Stalled, NEW f \in End, MessageInTransit(f),
           \A g \in End : StaysGone(g)
    PROVE  Stalled'
  <1>. DEFINE e == Peer(f)
  <1>1. /\ e \in End /\ e # f /\ Peer(e) = f /\ TypeOK
        /\ posted \in [End -> Seq(WindowMessage)]
        /\ <<"Received">> \in Seq(WindowMessage)
    BY Ends DEF HandshakeInv, TypeOK, WindowMessage
  <1>2. /\ posted[f] # <<>> /\ Head(posted[f]) = "InTransit"
        /\ HandleAndPost(f, <<"Received">>)
        /\ UNCHANGED <<isSending, tooBig, state>>
    BY DEF MessageInTransit, Handles, sendVars
  <1>3. /\ posted'[f] = Tail(posted[f])
        /\ posted'[e] = IF HasWindow(e) THEN posted[e] \o <<"Received">> ELSE posted[e]
    BY <1>1, <1>2 DEF HandleAndPost, Post
  <1>4. Held(posted[f], posted[e], isSending[e])
    BY <1>1 DEF HandshakeInv, Handshake
  <1>5. ~Quiet(posted[f], "InTransit")
    <2>1. 1 \in Positions(posted[f], "InTransit")
      BY <1>1, <1>2 DEF Positions
    <2>. QED
      BY <2>1 DEF Quiet
  <1>6. isSending[e] /\ ~Blocked(e)
    BY <1>1, <1>4, <1>5 DEF Held, Blocked
  <1>7. Stalls(e)'
    <2>1. e \notin tooBig'
      BY <1>1, <1>2, <1>6 DEF Stalled, Stalls
    <2>2. CASE HasWindow(e)
      <3>1. Kept(<<"Received">>, posted[e] \o <<"Received">>, "Received")
        BY <1>1, PostedIsKept
      <3>2. 1 \in Positions(<<"Received">>, "Received")
        BY DEF Positions
      <3>3. ~Quiet(posted'[e], "Received")
        BY <1>3, <2>2, <3>1, <3>2 DEF Kept, Quiet
      <3>4. ~Blocked(e)'
        BY <3>3 DEF Blocked, Quiet
      <3>. QED
        BY <2>1, <3>4 DEF Stalls
    <2>3. CASE ~HasWindow(e)
      <3>1. state[e] # "none" /\ state[e] \in States
        BY <1>1, <1>6, HasMet DEF TypeOK
      <3>2. Gone(e)
        BY <2>3, <3>1 DEF Gone, HasWindow, States
      <3>3. Gone(e)'
        BY <1>1, <3>2 DEF StaysGone
      <3>. QED
        BY <2>1, <3>3 DEF Stalls
    <2>. QED
      BY <2>2, <2>3
  <1>8. Stalls(f)'
    <2>1. /\ Calmer(posted[f], posted'[f], "Received") /\ Kept(posted[f], posted'[f], "Received")
      BY <1>1, <1>2, <1>3, HandledIsCalmer, HandledIsKept
    <2>2. Quiet(<<"Received">>, "InTransit")
      BY OfOne
    <2>3. /\ Calmer(posted[e], posted[e] \o <<"Received">>, "InTransit")
          /\ Kept(posted[e], posted[e] \o <<"Received">>, "InTransit")
      BY <1>1, <2>2, PostedIsCalmer, PostedIsKept
    <2>4. /\ Calmer(posted[e], posted'[e], "InTransit") /\ Kept(posted[e], posted'[e], "InTransit")
      BY <1>3, <2>3 DEF Calmer, Kept
    <2>. QED
      BY <1>1, <1>2, <2>1, <2>4, NeutralStalls DEF Stalled
  <1>. QED
    BY <1>7, <1>8, Ends DEF Stalled

\* A message is put behind the others.
LEMMA Longer ==
    ASSUME NEW S, NEW c \in Seq(S), NEW d \in S
    PROVE  Append(c, d) \in Seq(S) /\ Append(c, d) # <<>>
  <1>1. Append(c, d) \in Seq(S)
    OBVIOUS
  <1>2. Len(Append(c, d)) = Len(c) + 1 /\ Len(c) \in Nat
    OBVIOUS
  <1>3. Len(<<>>) = 0
    OBVIOUS
  <1>. QED
    BY <1>1, <1>2, <1>3

LEMMA EstablishedStalled ==
    ASSUME HandshakeInv, Stalled, NEW f \in End, Agreed(f) \/ Acknowledged(f),
           \A g \in End : StaysGone(g)
    PROVE  Stalled'
  <1>1. PICK message \in {"Agreed", "Acknowledged"}, reply \in Seq(WindowMessage) :
            Established(f, message, reply)
    BY EitherEstablishes
  <1>2. /\ posted[f] # <<>> /\ Head(posted[f]) = message /\ posted'[f] = Tail(posted[f])
        /\ posted'[Peer(f)] \in {posted[Peer(f)], posted[Peer(f)] \o reply}
    BY <1>1, EstablishedType DEF HandshakeInv
  <1>3. ASSUME NEW g \in End, NEW m \in {"InTransit", "Received"}
        PROVE  Kept(posted[g], posted'[g], m)
    <2>1. posted[g] \in Seq(WindowMessage)
      BY DEF HandshakeInv, TypeOK
    <2>2. CASE g = f
      BY <1>2, <2>1, <2>2, HandledIsKept
    <2>3. CASE g = Peer(f)
      <3>1. Kept(posted[g], posted[g] \o reply, m)
        BY <2>1, PostedIsKept
      <3>. QED
        BY <1>2, <2>3, <3>1 DEF Kept
    <2>. QED
      BY <2>2, <2>3, Ends
  <1>4. /\ UNCHANGED <<isSending, tooBig>>
        /\ \A g \in End : \A m \in {"InTransit", "Received"} : Calmer(posted[g], posted'[g], m)
    BY EstablishedIsCalm DEF sendVars
  <1>. QED
    BY <1>3, <1>4, NeutralStalled

LEMMA AsideStalled ==
    ASSUME Stalled, UNCHANGED <<posted, isSending, tooBig>>, \A g \in End : StaysGone(g)
    PROVE  Stalled'
  BY NeutralStalled DEF Calmer, Kept

LEMMA CrashStalled ==
    ASSUME HandshakeInv, Stalled, NEW f \in End, Crash(f), \A g \in End : StaysGone(g)
    PROVE  Stalled'
  <1>1. \A g \in End : posted'[g] \in {posted[g], <<>>}
    BY DEF Crash, HandshakeInv, TypeOK
  <1>2. \A g \in End : \A m \in {"InTransit", "Received"} : Calmer(posted[g], posted'[g], m)
    BY <1>1, OfOne, QuietIsOnce DEF Calmer
  <1>3. Gone(f)'
    BY DEF Gone, Crash, HandshakeInv, TypeOK
  <1>. QED
    BY <1>2, <1>3, NeutralStalled DEF Crash, sendVars

LEMMA ConnectStalled ==
    ASSUME HandshakeInv, Stages, Stalled, Connect \/ Request, \A g \in End : StaysGone(g)
    PROVE  Stalled'
  <1>1. TypeOK /\ UNCHANGED <<isSending, tooBig>>
    BY DEF HandshakeInv, Connect, Request, sendVars
  <1>2. \A g \in End : ~isSending[g]
    BY DEF Stages, Unmade, Connect, Request
  <1>3. ASSUME NEW g \in End PROVE Stalls(g)'
    <2>1. ~Blocked(g) /\ ~isSending'[g]
      BY <1>1, <1>2 DEF Blocked
    <2>2. ~Blocked(g)'
      BY <2>1 DEF Blocked
    <2>. QED
      BY <1>1, <2>1, <2>2 DEF Stalls, Stalled
  <1>. QED
    BY <1>3 DEF Stalled

LEMMA DisconnectStalled ==
    ASSUME HandshakeInv, Stalled, NEW f \in End,
           Disconnect(f) \/ Disconnected(f) \/ DisconnectTimer(f) \/ Ignore(f),
           \A g \in End : StaysGone(g)
    PROVE  Stalled'
  <1>1. /\ UNCHANGED <<isSending, tooBig>>
        /\ \A g \in End : \A m \in {"InTransit", "Received"} : Calmer(posted[g], posted'[g], m)
    BY DisconnectIsCalm DEF sendVars
  <1>2. ASSUME NEW post, Finish(f, post) PROVE Gone(f)'
    BY <1>2 DEF Finish, Gone, HandshakeInv, TypeOK
  <1>3. ASSUME NEW post, Disconnecting(f, post) PROVE Gone(f)'
    <2>1. ASSUME Ask(f, Tell(f, post)) PROVE Gone(f)'
      BY <2>1 DEF Ask, Gone, HandshakeInv, TypeOK
    <2>2. ASSUME disconnecting' = [disconnecting EXCEPT ![f] = "raised"] PROVE Gone(f)'
      BY <2>2 DEF Gone, HandshakeInv, TypeOK
    <2>. QED
      BY <1>2, <1>3, <2>1, <2>2 DEF Disconnecting
  <1>4. Gone(f)'
    <2>1. CASE Disconnect(f)
      BY <1>3, <2>1 DEF Disconnect
    <2>2. CASE Disconnected(f)
      BY <1>3, <2>2 DEF Disconnected
    <2>3. CASE DisconnectTimer(f)
      BY <1>2, <2>3 DEF DisconnectTimer
    <2>4. CASE Ignore(f)
      BY <2>4 DEF Ignore, Gone
    <2>. QED
      BY <2>1, <2>2, <2>3, <2>4
  <1>. QED
    BY <1>1, <1>4, NeutralStalled

LEMMA StalledStep ==
    ASSUME HandshakeInv, Stages, Stalled, [Next]_vars PROVE Stalled'
  <1>1. \A g \in End : StaysGone(g)
    BY NextStaysGone DEF HandshakeInv
  <1>2. ASSUME NEW f \in End, Application(f) PROVE Stalled'
    <2>1. CASE \E d \in Data : SendLater(f, d)
      BY <1>1, <2>1, AsideStalled DEF SendLater
    <2>2. ASSUME NEW d \in Data, SendNow(f, d) PROVE Stalled'
      <3>. DEFINE queue == Append(sendQueue[f], d)
      <3>1. ~isSending[f] /\ state[f] = "connected" /\ PrivateSendAndPost(f, queue)
        BY <2>2 DEF SendNow
      <3>2. queue \in Seq(Data) /\ queue # <<>>
        <4>1. sendQueue[f] \in Seq(Data)
          BY DEF HandshakeInv, TypeOK
        <4>. QED
          BY <4>1, Longer
      <3>. HIDE DEF queue
      <3>3. state[Peer(f)] # "none"
        BY <3>1, HasMet
      <3>. QED
        BY <1>1, <3>1, <3>2, <3>3, PrivateSendStalled
    <2>3. CASE Refuses(f) \/ Receives(f)
      BY <1>1, <2>3, AsideStalled DEF Refuses, Receives, sendVars
    <2>4. CASE \E d \in Data : SendCrashes(f, d)
      BY <1>1, <2>4, CrashStalled DEF SendCrashes
    <2>5. CASE ConnectedReturns(f)
      <3>1. CASE UNCHANGED <<state, posted, sendVars>>
        BY <1>1, <3>1, AsideStalled DEF sendVars
      <3>2. CASE ~isSending[f] /\ sendQueue[f] # <<>> /\ PrivateSendAndPost(f, sendQueue[f])
        <4>1. state[Peer(f)] # "none"
          BY <2>5, HasMet DEF ConnectedReturns, Running
        <4>2. sendQueue[f] \in Seq(Data)
          BY DEF HandshakeInv, TypeOK
        <4>. QED
          BY <1>1, <3>2, <4>1, <4>2, PrivateSendStalled
      <3>3. CASE Crash(f)
        BY <1>1, <3>3, CrashStalled
      <3>. QED
        BY <2>5, <3>1, <3>2, <3>3 DEF ConnectedReturns
    <2>6. CASE Disconnect(f)
      BY <1>1, <2>6, DisconnectStalled
    <2>. QED
      BY <1>2, <2>1, <2>2, <2>3, <2>4, <2>5, <2>6 DEF Application
  <1>3. ASSUME NEW f \in End, Window(f) PROVE Stalled'
    <2>1. CASE Agreed(f) \/ Acknowledged(f)
      BY <1>1, <2>1, EstablishedStalled
    <2>2. CASE MessageInTransit(f)
      BY <1>1, <2>2, ReadStalled
    <2>3. CASE Received(f)
      BY <1>1, <2>3, ReceivedStalled
    <2>4. CASE Disconnected(f) \/ Ignore(f)
      BY <1>1, <2>4, DisconnectStalled
    <2>. QED
      BY <1>3, <2>1, <2>2, <2>3, <2>4 DEF Window
  <1>4. ASSUME NEW f \in End, Timer(f) PROVE Stalled'
    BY <1>1, <1>4, AsideStalled DEF Timer, sendVars
  <1>5. ASSUME NEW f \in End, DisconnectTimer(f) PROVE Stalled'
    BY <1>1, <1>5, DisconnectStalled
  <1>6. CASE Connect \/ Request
    BY <1>1, <1>6, ConnectStalled
  <1>7. CASE UNCHANGED vars
    BY <1>1, <1>7, AsideStalled DEF vars
  <1>. QED
    BY <1>2, <1>3, <1>4, <1>5, <1>6, <1>7 DEF Next

LEMMA StalledInit == Init => Stalled
  BY DEF Init, Stalled, Stalls, Blocked

(***************************************************************************)
(* Each direction implements Channel, when no handler runs inside another  *)
(***************************************************************************)

Queued(e) == IF Cut(e) THEN <<>> ELSE sendQueue[e]

Shortens(s, t) == \E n \in 0..Len(t) : s = SubSeq(t, 1, n)

\* What a step does to the direction of e, in the terms of Channel.
Stays(e) ==
    /\ Pipe(e)' = Pipe(e) /\ taken'[Peer(e)] = taken[Peer(e)] /\ Cut(e)' = Cut(e)
Puts(e) ==
    /\ ~Cut(e) /\ Cut(e)' = Cut(e)
    /\ \E d \in Data : Pipe(e)' = Append(Pipe(e), d)
    /\ taken'[Peer(e)] = taken[Peer(e)]
Takes(e) ==
    /\ Pipe(e) # <<>> /\ Pipe(e)' = Tail(Pipe(e))
    /\ taken'[Peer(e)] = Append(taken[Peer(e)], Head(Pipe(e)))
    /\ Cut(e)' = Cut(e)
Loses(e) ==
    /\ Cut(e)' = TRUE
    /\ Shortens(Pipe(e)', Pipe(e))
    /\ taken'[Peer(e)] = taken[Peer(e)]

Moves(e) == Stays(e) \/ Puts(e) \/ Takes(e) \/ Loses(e)

LEMMA MovesAreSteps ==
    /\ Moves("A") => [FromA!Next]_<<Pipe("A"), taken["B"], Cut("A")>>
    /\ Moves("B") => [FromB!Next]_<<Pipe("B"), taken["A"], Cut("B")>>
  <1>a. Peer("A") = "B" /\ Peer("B") = "A"
    BY DEF Peer
  <1>1. ASSUME Moves("A") PROVE [FromA!Next]_<<Pipe("A"), taken["B"], Cut("A")>>
    <2>1. CASE Stays("A")
      BY <1>a, <2>1, ZenonT(20) DEF Stays
    <2>2. CASE Puts("A")
      BY <1>a, <2>2, ZenonT(20) DEF Puts, FromA!Next, FromA!Put
    <2>3. CASE Takes("A")
      BY <1>a, <2>3, ZenonT(20) DEF Takes, FromA!Next, FromA!Take
    <2>4. CASE Loses("A")
      BY <1>a, <2>4, ZenonT(20) DEF Loses, Shortens, FromA!Next, FromA!Cut
    <2>. QED
      BY <1>1, <2>1, <2>2, <2>3, <2>4 DEF Moves
  <1>2. ASSUME Moves("B") PROVE [FromB!Next]_<<Pipe("B"), taken["A"], Cut("B")>>
    <2>1. CASE Stays("B")
      BY <1>a, <2>1, ZenonT(20) DEF Stays
    <2>2. CASE Puts("B")
      BY <1>a, <2>2, ZenonT(20) DEF Puts, FromB!Next, FromB!Put
    <2>3. CASE Takes("B")
      BY <1>a, <2>3, ZenonT(20) DEF Takes, FromB!Next, FromB!Take
    <2>4. CASE Loses("B")
      BY <1>a, <2>4, ZenonT(20) DEF Loses, Shortens, FromB!Next, FromB!Cut
    <2>. QED
      BY <1>2, <2>1, <2>2, <2>3, <2>4 DEF Moves
  <1>. QED
    BY <1>1, <1>2

(***************************************************************************)
(* The parts of a direction                                                *)
(***************************************************************************)

LEMMA PartsOf ==
    ASSUME HandshakeInv, NEW e \in End
    PROVE  /\ arrived[Peer(e)] \in Seq(Data)
           /\ UnderWay(e) \in Seq(Data) /\ Queued(e) \in Seq(Data)
           /\ sendQueue[e] \in Seq(Data)
           /\ Pipe(e) = arrived[Peer(e)] \o UnderWay(e) \o Queued(e)
           /\ Pipe(e) \in Seq(Data)
           /\ Cut(e) \in BOOLEAN
  <1>1. Peer(e) \in End
    BY Ends
  <1>2. arrived[Peer(e)] \in Seq(Data) /\ sendQueue[e] \in Seq(Data)
    BY <1>1 DEF HandshakeInv, TypeOK
  <1>3. UnderWay(e) \in Seq(Data)
    BY DEF UnderWay, HandshakeInv, Written, Quiet
  <1>4. Queued(e) \in Seq(Data)
    BY <1>2 DEF Queued
  <1>5. Pipe(e) = arrived[Peer(e)] \o UnderWay(e) \o Queued(e)
    BY DEF Pipe, Queued
  <1>6. Pipe(e) \in Seq(Data)
    BY <1>2, <1>3, <1>4, <1>5
  <1>7. Cut(e) \in BOOLEAN
    BY DEF Cut
  <1>. QED
    BY <1>2, <1>3, <1>4, <1>5, <1>6, <1>7

\* What a cut is, said of the window messages.
Accounted(e) == Stalls(e) /\ Stalls(e)'

LEMMA WhenCut ==
    ASSUME NEW e \in End, Accounted(e)
    PROVE  /\ Cut(e) <=> Gone(e) \/ Gone(Peer(e)) \/ Blocked(e)
           /\ Blocked(e) <=> /\ isSending[e]
                             /\ Quiet(posted[Peer(e)], "InTransit") /\ Quiet(posted[e], "Received")
           /\ ~Quiet(posted[Peer(e)], "InTransit") /\ disconnecting[Peer(e)] = "no"
                => UnderWay(e) = <<file[e]>>
           /\ Quiet(posted[Peer(e)], "InTransit") \/ disconnecting[Peer(e)] # "no"
                => UnderWay(e) = <<>>
  <1>1. Cut(e) <=> Gone(e) \/ Gone(Peer(e)) \/ Blocked(e)
    BY Ends DEF Cut, Gone, Accounted, Stalls
  <1>. QED
    BY <1>1 DEF Blocked, UnderWay, Quiet

LEMMA WhenCutNext ==
    ASSUME NEW e \in End, Accounted(e)
    PROVE  /\ Cut(e)' <=> Gone(e)' \/ Gone(Peer(e))' \/ Blocked(e)'
           /\ Blocked(e)' <=> /\ isSending'[e]
                              /\ Quiet(posted'[Peer(e)], "InTransit") /\ Quiet(posted'[e], "Received")
           /\ ~Quiet(posted'[Peer(e)], "InTransit") /\ disconnecting'[Peer(e)] = "no"
                => UnderWay(e)' = <<file'[e]>>
           /\ Quiet(posted'[Peer(e)], "InTransit") \/ disconnecting'[Peer(e)] # "no"
                => UnderWay(e)' = <<>>
           /\ Cut(e)' \in BOOLEAN
           /\ Pipe(e)' = arrived'[Peer(e)] \o UnderWay(e)' \o (IF Cut(e)' THEN <<>> ELSE sendQueue'[e])
  <1>1. Cut(e)' \in BOOLEAN
    BY DEF Cut
  <1>2. Pipe(e)' = arrived'[Peer(e)] \o UnderWay(e)' \o (IF Cut(e)' THEN <<>> ELSE sendQueue'[e])
    BY DEF Pipe
  <1>3. Cut(e)' <=> Gone(e)' \/ Gone(Peer(e))' \/ Blocked(e)'
    BY Ends DEF Cut, Gone, Accounted, Stalls
  <1>. QED
    BY <1>1, <1>2, <1>3 DEF Blocked, UnderWay, Quiet

\* The oldest messages of a queue are a prefix of it.
LEMMA Prefixes ==
    ASSUME NEW S, NEW a \in Seq(S), NEW b \in Seq(S), NEW c \in Seq(S)
    PROVE  /\ Shortens(a, a \o b \o c) /\ Shortens(a \o b, a \o b \o c)
           /\ a \o <<>> \o <<>> = a /\ a \o b \o <<>> = a \o b /\ a \o <<>> \o c = a \o c
  <1>1. a = SubSeq(a \o b \o c, 1, Len(a)) /\ Len(a) \in 0..Len(a \o b \o c)
    OBVIOUS
  <1>2. a \o b = SubSeq(a \o b \o c, 1, Len(a \o b)) /\ Len(a \o b) \in 0..Len(a \o b \o c)
    OBVIOUS
  <1>3. a \o <<>> \o <<>> = a /\ a \o b \o <<>> = a \o b /\ a \o <<>> \o c = a \o c
    OBVIOUS
  <1>. QED
    BY <1>1, <1>2, <1>3 DEF Shortens

LEMMA PutBehind ==
    ASSUME NEW S, NEW a \in Seq(S), NEW b \in Seq(S), NEW c \in Seq(S), NEW d \in S
    PROVE  /\ a \o b \o Append(c, d) = Append(a \o b \o c, d)
           /\ a \o Append(c, d) = Append(a \o <<>> \o c, d)
           /\ Append(c, d) \in Seq(S) /\ Append(c, d) # <<>>
  <1>1. a \o b \o Append(c, d) = Append(a \o b \o c, d)
    OBVIOUS
  <1>2. a \o Append(c, d) = Append(a \o c, d) /\ a \o <<>> = a
    OBVIOUS
  <1>3. Append(c, d) \in Seq(S) /\ Append(c, d) # <<>>
    OBVIOUS
  <1>. QED
    BY <1>1, <1>2, <1>3

LEMMA HeadIsThere ==
    ASSUME NEW S, NEW q \in Seq(S), q # <<>> PROVE ~Quiet(q, Head(q))
  <1>1. 1 \in Positions(q, Head(q))
    BY DEF Positions
  <1>. QED
    BY <1>1 DEF Quiet

\* A step that cuts a direction, or finds it cut, and leaves what has arrived
\* alone, may lose what is under way and what is queued.
LEMMA CutLoses ==
    ASSUME HandshakeInv, NEW e \in End, Accounted(e),
           arrived'[Peer(e)] = arrived[Peer(e)], taken'[Peer(e)] = taken[Peer(e)],
           Cut(e)', UnderWay(e)' \in {<<>>, UnderWay(e)}
    PROVE  Loses(e)
  <1>1. /\ arrived[Peer(e)] \in Seq(Data) /\ UnderWay(e) \in Seq(Data) /\ Queued(e) \in Seq(Data)
        /\ Pipe(e) = arrived[Peer(e)] \o UnderWay(e) \o Queued(e)
    BY PartsOf
  <1>2. Pipe(e)' = arrived[Peer(e)] \o UnderWay(e)' \o <<>> /\ Cut(e)' = TRUE
    BY WhenCutNext
  <1>3. Pipe(e)' \in {arrived[Peer(e)], arrived[Peer(e)] \o UnderWay(e)}
    <2>1. /\ arrived[Peer(e)] \o <<>> \o <<>> = arrived[Peer(e)]
          /\ arrived[Peer(e)] \o UnderWay(e) \o <<>> = arrived[Peer(e)] \o UnderWay(e)
      BY <1>1
    <2>. QED
      BY <1>2, <2>1
  <1>4. /\ Shortens(arrived[Peer(e)], Pipe(e))
        /\ Shortens(arrived[Peer(e)] \o UnderWay(e), Pipe(e))
    BY <1>1, Prefixes
  <1>. QED
    BY <1>2, <1>3, <1>4 DEF Loses

\* A step that changes nothing of a direction but window messages that it handles
\* or loses: the direction stays as it is, or is cut.
LEMMA QuietMoves ==
    ASSUME HandshakeInv, NEW e \in End, Accounted(e),
           arrived'[Peer(e)] = arrived[Peer(e)], taken'[Peer(e)] = taken[Peer(e)],
           sendQueue'[e] = sendQueue[e], file'[e] = file[e], isSending'[e] = isSending[e],
           Calmer(posted[Peer(e)], posted'[Peer(e)], "InTransit"),
           Calmer(posted[e], posted'[e], "Received"),
           Gone(e) => Gone(e)', Gone(Peer(e)) => Gone(Peer(e))',
           disconnecting[Peer(e)] # "no" =>
               disconnecting'[Peer(e)] # "no" \/ Quiet(posted'[Peer(e)], "InTransit")
    PROVE  Moves(e)
  <1>1. UnderWay(e)' \in {<<>>, UnderWay(e)}
    BY WhenCut, WhenCutNext DEF Calmer
  <1>2. CASE Cut(e)'
    BY <1>1, <1>2, CutLoses DEF Moves
  <1>3. CASE ~Cut(e)'
    <2>1. ~Gone(e)' /\ ~Gone(Peer(e))' /\ ~Blocked(e)'
      BY <1>3, WhenCutNext
    <2>2. ~Gone(e) /\ ~Gone(Peer(e))
      BY <2>1
    <2>3. Held(posted[Peer(e)], posted[e], isSending[e])
      BY DEF HandshakeInv, Handshake
    <2>4. Quiet(posted'[Peer(e)], "InTransit") <=> Quiet(posted[Peer(e)], "InTransit")
      BY <2>1, <2>3, WhenCutNext DEF Calmer, Held
    <2>5. ~Blocked(e)
      BY <2>1, <2>4, WhenCut, WhenCutNext DEF Calmer
    <2>6. ~Cut(e)
      BY <2>2, <2>5, WhenCut
    <2>7. disconnecting[Peer(e)] = "no" /\ disconnecting'[Peer(e)] = "no"
      BY <2>1, <2>2 DEF Gone
    <2>8. UnderWay(e)' = UnderWay(e)
      BY <2>4, <2>7, WhenCut, WhenCutNext
    <2>9. Cut(e)' = Cut(e)
      BY <1>3, <2>6, PartsOf, WhenCutNext
    <2>10. Pipe(e)' = Pipe(e)
      BY <1>3, <2>6, <2>8, WhenCutNext DEF Pipe
    <2>. QED
      BY <2>9, <2>10 DEF Moves, Stays
  <1>. QED
    BY <1>2, <1>3

\* A call of send that queues the message puts it into the direction, or does
\* nothing when that is cut.
LEMMA SendLaterMoves ==
    ASSUME HandshakeInv, NEW e \in End, Accounted(e), NEW d \in Data, SendLater(e, d)
    PROVE  Moves(e)
  <1>1. /\ arrived[Peer(e)] \in Seq(Data) /\ UnderWay(e) \in Seq(Data)
        /\ sendQueue[e] \in Seq(Data) /\ Cut(e) \in BOOLEAN
    BY PartsOf
  <1>2. /\ sendQueue'[e] = Append(sendQueue[e], d)
        /\ UNCHANGED <<state, disconnecting, posted, file, isSending, tooBig, receiveVars>>
    BY DEF SendLater, HandshakeInv, TypeOK
  <1>3. Cut(e)' = Cut(e) /\ UnderWay(e)' = UnderWay(e)
    BY <1>2 DEF Cut, UnderWay
  <1>4. taken'[Peer(e)] = taken[Peer(e)] /\ arrived'[Peer(e)] = arrived[Peer(e)]
    BY <1>2 DEF receiveVars
  <1>5. CASE Cut(e)
    <2>1. Pipe(e)' = Pipe(e)
      BY <1>3, <1>4, <1>5 DEF Pipe
    <2>. QED
      BY <1>3, <1>4, <2>1 DEF Moves, Stays
  <1>6. CASE ~Cut(e)
    <2>1. /\ Pipe(e)' = arrived[Peer(e)] \o UnderWay(e) \o Append(sendQueue[e], d)
          /\ Pipe(e) = arrived[Peer(e)] \o UnderWay(e) \o sendQueue[e]
      BY <1>2, <1>3, <1>4, <1>6 DEF Pipe
    <2>2. arrived[Peer(e)] \o UnderWay(e) \o Append(sendQueue[e], d)
              = Append(arrived[Peer(e)] \o UnderWay(e) \o sendQueue[e], d)
      <3>1. PICK a \in Seq(Data), b \in Seq(Data), c \in Seq(Data) :
                a = arrived[Peer(e)] /\ b = UnderWay(e) /\ c = sendQueue[e]
        BY <1>1
      <3>2. a \o b \o Append(c, d) = Append(a \o b \o c, d)
        BY PutBehind
      <3>. QED
        BY <3>1, <3>2
    <2>3. Pipe(e)' = Append(Pipe(e), d)
      BY <2>1, <2>2
    <2>. QED
      BY <1>3, <1>4, <1>6, <2>3 DEF Moves, Puts
  <1>. QED
    BY <1>5, <1>6

\* Writing the file: the message that goes first is under way, unless it is too
\* big or the other end is no more.
LEMMA PrivateSendMoves ==
    ASSUME HandshakeInv, NEW e \in End, Accounted(e), NEW queue \in Seq(Data), queue # <<>>,
           Gone(e) => Head(queue) \in Big, PrivateSend(e, queue),
           arrived'[Peer(e)] = arrived[Peer(e)],
           Quiet(posted[Peer(e)], "InTransit"), Quiet(posted'[e], "Received"),
           isSending[e] => ~Quiet(posted[e], "Received"),
           posted'[Peer(e)] = IF HasWindow(Peer(e)) THEN posted[Peer(e)] \o InTransit(queue)
                              ELSE posted[Peer(e)],
           disconnecting' = disconnecting,
           Gone(e)' <=> Gone(e), Gone(Peer(e))' <=> Gone(Peer(e))
    PROVE  /\ UnderWay(e) = <<>>
           /\ Cut(e) => Cut(e)'
           /\ Cut(e)' => UnderWay(e)' = <<>>
           /\ ~Cut(e)' => Pipe(e)' = arrived[Peer(e)] \o queue
  <1>1. Peer(e) \in End /\ posted[Peer(e)] \in Seq(WindowMessage)
    BY Ends DEF HandshakeInv, TypeOK
  <1>2. UnderWay(e) = <<>> /\ ~Blocked(e) /\ isSending'[e]
    <2>1. isSending'[e]
      BY PrivateSendEffect DEF HandshakeInv
    <2>. QED
      BY <2>1, WhenCut
  <1>3. Cut(e) => Cut(e)'
    BY <1>2, WhenCut, WhenCutNext
  <1>4. CASE Head(queue) \in Big \/ ~HasWindow(Peer(e))
    <2>1. Quiet(posted'[Peer(e)], "InTransit")
      <3>1. CASE ~HasWindow(Peer(e))
        BY <3>1
      <3>2. CASE Head(queue) \in Big
        <4>1. InTransit(queue) \in Seq(WindowMessage) /\ Quiet(InTransit(queue), "InTransit")
          BY <3>2, Transit
        <4>2. Quiet(posted[Peer(e)] \o InTransit(queue), "InTransit")
          BY <1>1, <4>1, Concatenated
        <4>. QED
          BY <4>2
      <3>. QED
        BY <1>4, <3>1, <3>2
    <2>2. Cut(e)' /\ UnderWay(e)' = <<>>
      BY <1>2, <2>1, WhenCutNext
    <2>. QED
      BY <1>2, <1>3, <2>2
  <1>5. CASE Head(queue) \notin Big /\ HasWindow(Peer(e))
    <2>1. InTransit(queue) = <<"InTransit">>
      BY <1>5 DEF InTransit
    <2>2. ~Quiet(posted'[Peer(e)], "InTransit")
      <3>1. posted'[Peer(e)] = posted[Peer(e)] \o <<"InTransit">>
        BY <1>5, <2>1
      <3>2. ASSUME NEW p \in Seq(WindowMessage) PROVE ~Quiet(p \o <<"InTransit">>, "InTransit")
        <4>1. /\ Len(p) + 1 \in 1..Len(p \o <<"InTransit">>)
              /\ (p \o <<"InTransit">>)[Len(p) + 1] = "InTransit"
          OBVIOUS
        <4>. QED
          BY <4>1 DEF Quiet, Positions
      <3>. QED
        BY <1>1, <3>1, <3>2
    <2>3. ~Gone(e) /\ ~Blocked(e)'
      BY <1>5, <2>2, WhenCutNext
    <2>4. CASE Gone(Peer(e))
      <3>1. disconnecting'[Peer(e)] # "no"
        BY <1>5, <2>4 DEF Gone, HasWindow
      <3>2. Cut(e)' /\ UnderWay(e)' = <<>>
        BY <2>4, <3>1, WhenCutNext
      <3>. QED
        BY <1>2, <1>3, <3>2
    <2>5. CASE ~Gone(Peer(e))
      <3>1. ~Cut(e)'
        BY <2>3, <2>5, WhenCutNext
      <3>2. disconnecting'[Peer(e)] = "no"
        BY <2>5 DEF Gone
      <3>3. file'[e] = Head(queue) /\ sendQueue'[e] = Tail(queue)
        BY <1>5 DEF PrivateSend, WriteFile, HandshakeInv, TypeOK
      <3>4. UnderWay(e)' = <<Head(queue)>>
        BY <2>2, <3>2, <3>3, WhenCutNext
      <3>5. Pipe(e)' = arrived[Peer(e)] \o <<Head(queue)>> \o Tail(queue)
        BY <3>1, <3>3, <3>4, WhenCutNext
      <3>6. ASSUME NEW a \in Seq(Data) PROVE a \o <<Head(queue)>> \o Tail(queue) = a \o queue
        OBVIOUS
      <3>7. Pipe(e)' = arrived[Peer(e)] \o queue
        BY <3>5, <3>6, PartsOf
      <3>. QED
        BY <1>2, <1>3, <3>1, <3>7
    <2>. QED
      BY <2>4, <2>5
  <1>. QED
    BY <1>4, <1>5

\* A call of send that goes on at once.
LEMMA SendNowMoves ==
    ASSUME HandshakeInv, NEW e \in End, Accounted(e), NEW d \in Data, SendNow(e, d)
    PROVE  Moves(e)
  <1>. DEFINE queue == Append(sendQueue[e], d)
  <1>1. /\ ~isSending[e] /\ state[e] = "connected"
        /\ disconnecting[e] = "no" \/ Head(queue) \in Big
        /\ PrivateSend(e, queue) /\ posted' = Post(Peer(e), InTransit(queue))
        /\ UNCHANGED <<state, disconnecting, receiveVars>>
    BY DEF SendNow, Crashes, PrivateSendAndPost
  <1>2. /\ arrived[Peer(e)] \in Seq(Data) /\ sendQueue[e] \in Seq(Data) /\ Peer(e) \in End
        /\ posted \in [End -> Seq(WindowMessage)] /\ Peer(e) # e
    BY PartsOf, Ends DEF HandshakeInv, TypeOK
  <1>3. /\ queue \in Seq(Data) /\ queue # <<>>
        /\ arrived[Peer(e)] \o queue = Append(arrived[Peer(e)] \o <<>> \o sendQueue[e], d)
    <2>1. PICK a \in Seq(Data), c \in Seq(Data) : a = arrived[Peer(e)] /\ c = sendQueue[e]
      BY <1>2
    <2>2. /\ a \o Append(c, d) = Append(a \o <<>> \o c, d)
          /\ Append(c, d) \in Seq(Data) /\ Append(c, d) # <<>>
      BY PutBehind
    <2>3. Append(c, d) = queue
      BY <2>1
    <2>. HIDE DEF queue
    <2>. QED
      BY <2>1, <2>2, <2>3
  <1>4. Held(posted[Peer(e)], posted[e], isSending[e])
    BY DEF HandshakeInv, Handshake
  <1>5. Quiet(posted[Peer(e)], "InTransit") /\ Quiet(posted[e], "Received")
    BY <1>1, <1>4 DEF Held
  <1>6. /\ posted'[e] = posted[e]
        /\ posted'[Peer(e)] = IF HasWindow(Peer(e)) THEN posted[Peer(e)] \o InTransit(queue)
                              ELSE posted[Peer(e)]
    BY <1>1, <1>2 DEF Post
  <1>8. Gone(e) => Head(queue) \in Big
    BY <1>1 DEF Gone
  <1>9. /\ Gone(e)' <=> Gone(e)
        /\ Gone(Peer(e))' <=> Gone(Peer(e))
    BY <1>1 DEF Gone
  <1>10. arrived'[Peer(e)] = arrived[Peer(e)] /\ taken'[Peer(e)] = taken[Peer(e)]
    BY <1>1 DEF receiveVars
  <1>. HIDE DEF queue
  <1>12. Quiet(posted'[e], "Received")
    BY <1>5, <1>6
  <1>13. /\ UnderWay(e) = <<>>
         /\ Cut(e) => Cut(e)'
         /\ Cut(e)' => UnderWay(e)' = <<>>
         /\ ~Cut(e)' => Pipe(e)' = arrived[Peer(e)] \o queue
    BY <1>1, <1>3, <1>5, <1>6, <1>8, <1>9, <1>10, <1>12, PrivateSendMoves
  <1>14. CASE Cut(e)'
    BY <1>10, <1>13, <1>14, CutLoses DEF Moves
  <1>15. CASE ~Cut(e)'
    <2>1. Pipe(e) = arrived[Peer(e)] \o <<>> \o sendQueue[e] /\ ~Cut(e)
      BY <1>13, <1>15 DEF Pipe
    <2>2. Pipe(e)' = Append(Pipe(e), d)
      BY <1>3, <1>13, <1>15, <2>1
    <2>3. Cut(e)' = Cut(e)
      BY <1>15, <2>1, PartsOf, WhenCutNext
    <2>. QED
      BY <1>10, <2>1, <2>2, <2>3 DEF Moves, Puts
  <1>. QED
    BY <1>14, <1>15

\* What is queued goes: the direction stays as it is, unless it is or gets cut.
LEMMA FlushMoves ==
    ASSUME HandshakeInv, NEW e \in End, Accounted(e), sendQueue[e] # <<>>,
           Gone(e) => Head(sendQueue[e]) \in Big, PrivateSend(e, sendQueue[e]),
           arrived'[Peer(e)] = arrived[Peer(e)], taken'[Peer(e)] = taken[Peer(e)],
           Quiet(posted[Peer(e)], "InTransit"), Quiet(posted'[e], "Received"),
           isSending[e] => ~Quiet(posted[e], "Received"),
           posted'[Peer(e)] = IF HasWindow(Peer(e)) THEN posted[Peer(e)] \o InTransit(sendQueue[e])
                              ELSE posted[Peer(e)],
           UNCHANGED <<state, disconnecting>>
    PROVE  Moves(e)
  <1>1. /\ sendQueue[e] \in Seq(Data) /\ arrived[Peer(e)] \in Seq(Data)
        /\ Gone(e)' <=> Gone(e)
        /\ Gone(Peer(e))' <=> Gone(Peer(e))
    BY Ends DEF HandshakeInv, TypeOK, Gone
  <1>2. /\ UnderWay(e) = <<>>
        /\ Cut(e) => Cut(e)'
        /\ Cut(e)' => UnderWay(e)' = <<>>
        /\ ~Cut(e)' => Pipe(e)' = arrived[Peer(e)] \o sendQueue[e]
    BY <1>1, PrivateSendMoves
  <1>3. CASE Cut(e)'
    BY <1>2, <1>3, CutLoses DEF Moves
  <1>4. CASE ~Cut(e)'
    <2>1. Pipe(e) = arrived[Peer(e)] \o <<>> \o sendQueue[e] /\ ~Cut(e)
      BY <1>2, <1>4 DEF Pipe
    <2>2. arrived[Peer(e)] \o <<>> \o sendQueue[e] = arrived[Peer(e)] \o sendQueue[e]
      BY <1>1
    <2>3. Pipe(e)' = Pipe(e)
      BY <1>2, <1>4, <2>1, <2>2
    <2>4. Cut(e)' = Cut(e)
      BY <1>4, <2>1, PartsOf, WhenCutNext
    <2>. QED
      BY <2>3, <2>4 DEF Moves, Stays
  <1>. QED
    BY <1>3, <1>4

\* The sender learns that its message has been read.
LEMMA ReceivedMoves ==
    ASSUME HandshakeInv, NEW e \in End, Accounted(e), Received(e)
    PROVE  Moves(e)
  <1>1. /\ posted[e] # <<>> /\ Head(posted[e]) = "Received"
        /\ disconnecting[e] = "no" /\ HasWindow(e)
        /\ UNCHANGED <<state, disconnecting, receiveVars>>
    BY DEF Received, Handles, CanHandle
  <1>2. /\ posted \in [End -> Seq(WindowMessage)] /\ Peer(e) \in End /\ Peer(e) # e
        /\ posted[e] \in Seq(WindowMessage) /\ posted[Peer(e)] \in Seq(WindowMessage)
    BY Ends DEF HandshakeInv, TypeOK
  <1>3. Held(posted[Peer(e)], posted[e], isSending[e])
    BY DEF HandshakeInv, Handshake
  <1>4. /\ ~Quiet(posted[e], "Received") /\ Quiet(posted[Peer(e)], "InTransit")
        /\ Quiet(Tail(posted[e]), "Received") /\ ~Gone(e)
    BY <1>1, <1>2, <1>3, HeadIsThere, OnceTail DEF Held, Gone, HasWindow
  <1>5. arrived'[Peer(e)] = arrived[Peer(e)] /\ taken'[Peer(e)] = taken[Peer(e)]
    BY <1>1 DEF receiveVars
  <1>6. CASE sendQueue[e] # <<>>
    <2>1. PrivateSend(e, sendQueue[e]) /\ HandleAndPost(e, InTransit(sendQueue[e]))
      BY <1>6 DEF Received
    <2>2. /\ posted'[e] = Tail(posted[e])
          /\ posted'[Peer(e)] = IF HasWindow(Peer(e)) THEN posted[Peer(e)] \o InTransit(sendQueue[e])
                                ELSE posted[Peer(e)]
      BY <1>2, <2>1 DEF HandleAndPost, Post
    <2>. QED
      BY <1>1, <1>4, <1>5, <1>6, <2>1, <2>2, FlushMoves
  <1>7. CASE sendQueue[e] = <<>>
    <2>1. /\ isSending' = [isSending EXCEPT ![e] = FALSE]
          /\ HandleAndPost(e, <<>>) /\ UNCHANGED <<file, sendQueue>>
      BY <1>7 DEF Received
    <2>2. posted'[Peer(e)] = posted[Peer(e)]
      <3>1. posted[Peer(e)] \o <<>> = posted[Peer(e)]
        BY <1>2
      <3>. QED
        BY <1>2, <2>1, <3>1 DEF HandleAndPost, Post
    <2>3. UnderWay(e) = <<>> /\ UnderWay(e)' = <<>>
      BY <1>4, <2>2, WhenCut, WhenCutNext
    <2>4. ~isSending'[e]
      BY <2>1 DEF HandshakeInv, TypeOK
    <2>5. ~Blocked(e) /\ ~Blocked(e)'
      BY <1>4, <2>4, WhenCut, WhenCutNext
    <2>6. /\ Gone(e)' <=> Gone(e)
          /\ Gone(Peer(e))' <=> Gone(Peer(e))
      BY <1>1 DEF Gone
    <2>7. Cut(e)' = Cut(e)
      BY <2>5, <2>6, PartsOf, WhenCut, WhenCutNext
    <2>8. Pipe(e)' = Pipe(e)
      BY <1>5, <1>7, <2>1, <2>3, <2>7 DEF Pipe
    <2>. QED
      BY <1>5, <2>7, <2>8 DEF Moves, Stays
  <1>. QED
    BY <1>6, <1>7

\* The receiver reads the file: the message moves from the file to the queue.
LEMMA ReadMoves ==
    ASSUME HandshakeInv, NEW e \in End, Accounted(e), MessageInTransit(Peer(e)),
           Gone(e) => Gone(e)', Gone(Peer(e)) => Gone(Peer(e))'
    PROVE  Moves(e)
  <1>. DEFINE f == Peer(e)
  <1>1. /\ f \in End /\ Peer(f) = e /\ f # e
        /\ posted[f] \in Seq(WindowMessage) /\ posted[e] \in Seq(WindowMessage)
    BY Ends DEF HandshakeInv, TypeOK
  <1>2. /\ posted[f] # <<>> /\ Head(posted[f]) = "InTransit" /\ disconnecting[f] = "no"
        /\ HandleAndPost(f, <<"Received">>)
        /\ arrived'[f] = Append(arrived[f], file[e])
        /\ UNCHANGED <<state, disconnecting, file, isSending, sendQueue, taken>>
    BY <1>1 DEF MessageInTransit, Handles, sendVars, HandshakeInv, TypeOK
  <1>3. posted'[f] = Tail(posted[f])
    <2>1. <<"Received">> \in Seq(WindowMessage)
      BY DEF WindowMessage
    <2>. QED
      BY <1>1, <1>2, <2>1, HandleEffect DEF HandshakeInv
  <1>4. Held(posted[f], posted[e], isSending[e])
    BY DEF HandshakeInv, Handshake
  <1>5. ~Quiet(posted[f], "InTransit") /\ Quiet(posted'[f], "InTransit")
    BY <1>1, <1>2, <1>3, <1>4, HeadIsThere, OnceTail DEF Held
  <1>6. UnderWay(e) = <<file[e]>> /\ UnderWay(e)' = <<>> /\ ~Blocked(e)
    BY <1>2, <1>5, WhenCut, WhenCutNext
  <1>7. Cut(e) => Cut(e)'
    BY <1>6, WhenCut, WhenCutNext
  <1>8. PICK a \in Seq(Data), q \in Seq(Data), m \in Data :
            a = arrived[f] /\ q = sendQueue[e] /\ m = file[e]
    <2>1. UnderWay(e) \in Seq(Data) /\ arrived[f] \in Seq(Data) /\ sendQueue[e] \in Seq(Data)
      BY PartsOf
    <2>2. file[e] \in Data
      BY <1>5 DEF HandshakeInv, Written
    <2>. QED
      BY <2>1, <2>2
  <1>9. /\ <<m>> \in Seq(Data) /\ <<>> \in Seq(Data)
        /\ Append(a, m) \o <<>> \o <<>> = a \o <<m>> \o <<>>
        /\ Append(a, m) \o <<>> \o q = a \o <<m>> \o q
    OBVIOUS
  <1>10. taken'[f] = taken[f]
    BY <1>2
  <1>11. CASE Cut(e)' /\ ~Cut(e)
    <2>1. Pipe(e)' = a \o <<m>> \o <<>> /\ Pipe(e) = a \o <<m>> \o q
      BY <1>2, <1>6, <1>8, <1>9, <1>11, WhenCutNext DEF Pipe
    <2>2. Shortens(Pipe(e)', Pipe(e))
      <3>1. Shortens(a \o <<m>>, a \o <<m>> \o q) /\ a \o <<m>> \o <<>> = a \o <<m>>
        BY <1>9, Prefixes
      <3>. QED
        BY <2>1, <3>1
    <2>3. Cut(e)' = TRUE
      BY <1>11, WhenCutNext
    <2>. QED
      BY <1>10, <2>2, <2>3 DEF Moves, Loses
  <1>12. CASE Cut(e)' <=> Cut(e)
    <2>1. Pipe(e)' = Pipe(e)
      BY <1>2, <1>6, <1>8, <1>9, <1>12, WhenCutNext DEF Pipe
    <2>2. Cut(e)' = Cut(e)
      BY <1>12, PartsOf, WhenCutNext
    <2>. QED
      BY <1>10, <2>1, <2>2 DEF Moves, Stays
  <1>. QED
    BY <1>7, <1>11, <1>12

\* There is one handler of an end that waits for the application, and what it
\* offers, if anything, is the oldest message: whoever receives it, that is what
\* the queue loses.
Offered(waiting, queue) ==
    waiting # <<>> =>
        /\ Len(waiting) = 1
        /\ \/ waiting[1].kind = "connected"
           \/ queue # <<>> /\ waiting[1].offer = Head(queue)
Offers == \A e \in End : Offered(frames[e], arrived[e])

LEMMA ReceiveMoves ==
    ASSUME HandshakeInv, Offers, NEW e \in End, Receives(Peer(e))
    PROVE  Moves(e)
  <1>. DEFINE f == Peer(e)
  <1>1. f \in End
    BY Ends
  <1>2. frames[f] # <<>> /\ Len(frames[f]) = 1
    BY <1>1 DEF Receives, Offering, Running, Offers, Offered
  <1>3. arrived[f] # <<>> /\ Innermost(f).offer = Head(arrived[f])
    BY <1>1, <1>2 DEF Offers, Offered, Innermost, Receives, Offering
  <1>4. /\ taken' = [taken EXCEPT ![f] = Append(@, Innermost(f).offer)]
        /\ arrived' = [arrived EXCEPT ![f] = Tail(arrived[f])]
        /\ UNCHANGED <<state, disconnecting, posted, file, isSending, sendQueue, tooBig>>
    BY <1>3 DEF Receives, sendVars
  <1>5. taken'[f] = Append(taken[f], Head(arrived[f])) /\ arrived'[f] = Tail(arrived[f])
    BY <1>1, <1>3, <1>4 DEF HandshakeInv, TypeOK
  <1>6. UnderWay(e)' = UnderWay(e) /\ Queued(e)' = Queued(e) /\ Cut(e)' = Cut(e)
    BY <1>4 DEF UnderWay, Queued, Cut
  <1>7. PICK a \in Seq(Data), u \in Seq(Data), q \in Seq(Data) :
            a = arrived[f] /\ u = UnderWay(e) /\ q = Queued(e)
    BY PartsOf
  <1>8. Pipe(e) = a \o u \o q /\ Pipe(e)' = Tail(a) \o u \o q
    BY <1>5, <1>6, <1>7 DEF Pipe, Queued
  <1>9. a # <<>>
    BY <1>3, <1>7
  <1>10. a \o u \o q # <<>> /\ Head(a \o u \o q) = Head(a) /\ Tail(a \o u \o q) = Tail(a) \o u \o q
    BY <1>9
  <1>11. /\ Pipe(e) # <<>> /\ Pipe(e)' = Tail(Pipe(e))
         /\ taken'[f] = Append(taken[f], Head(Pipe(e)))
    BY <1>5, <1>7, <1>8, <1>10
  <1>. QED
    BY <1>6, <1>11 DEF Moves, Takes

(***************************************************************************)
(* Without DoEvents a handler that waits for the application is the only   *)
(* one of its end.                                                         *)
(***************************************************************************)

LEMMA OffersInit == Init => Offers
  BY DEF Init, Offers, Offered

LEMMA OffersElsewhere ==
    ASSUME Offers, NEW e \in End, Offered(frames'[e], arrived'[e]),
           \A g \in End : g # e => frames'[g] = frames[g] /\ arrived'[g] = arrived[g]
    PROVE  Offers'
  <1>. SUFFICES ASSUME NEW g \in End PROVE Offered(frames'[g], arrived'[g])
    BY DEF Offers
  <1>. QED
    BY DEF Offers

LEMMA OffersStep ==
    ASSUME MaxNesting = 1, HandshakeInv, Offers, [Next]_vars PROVE Offers'
  <1>. TypeOK
    BY DEF HandshakeInv
  <1>1. ASSUME UNCHANGED <<frames, arrived>> PROVE Offers'
    BY <1>1 DEF Offers
  <1>2. ASSUME NEW e \in End, CanHandle(e) PROVE frames[e] = <<>>
    <2>1. Len(frames[e]) < 1 /\ frames[e] \in Seq(Frame)
      BY <1>2 DEF CanHandle, TypeOK
    <2>. QED
      BY <2>1
  <1>3. ASSUME NEW e \in End, frames[e] = <<>>, NEW kind, NEW queue, queue # <<>>,
               Offer(e, kind, queue), arrived' = [arrived EXCEPT ![e] = queue]
        PROVE  Offers'
    <2>1. /\ frames'[e] = <<[kind |-> kind, offer |-> Head(queue)]>> /\ arrived'[e] = queue
          /\ \A g \in End : g # e => frames'[g] = frames[g] /\ arrived'[g] = arrived[g]
      BY <1>3 DEF Offer, TypeOK
    <2>2. Offered(frames'[e], arrived'[e])
      <3>1. PICK r : r = [kind |-> kind, offer |-> Head(queue)]
        OBVIOUS
      <3>2. r.offer = Head(queue)
        BY <3>1
      <3>3. Len(<<r>>) = 1 /\ <<r>>[1] = r
        OBVIOUS
      <3>. QED
        BY <1>3, <2>1, <3>1, <3>2, <3>3 DEF Offered
    <2>. QED
      BY <2>1, <2>2, OffersElsewhere
  <1>4. ASSUME NEW e \in End, MessageInTransit(e) PROVE Offers'
    <2>. DEFINE queue == Append(arrived[e], file[Peer(e)])
    <2>1. /\ Offer(e, "arrival", queue) /\ arrived' = [arrived EXCEPT ![e] = queue]
          /\ CanHandle(e)
      BY <1>4 DEF MessageInTransit, Handles
    <2>2. queue # <<>>
      <3>1. ASSUME NEW S, NEW a \in Seq(S), NEW m \in S PROVE Append(a, m) # <<>>
        BY PutBehind
      <3>2. arrived[e] \in Seq(Data \cup {Nothing}) /\ file[Peer(e)] \in Data \cup {Nothing}
        BY Ends DEF TypeOK
      <3>. QED
        BY <3>1, <3>2
    <2>. HIDE DEF queue
    <2>. QED
      BY <1>2, <1>3, <2>1, <2>2
  <1>5. ASSUME NEW e \in End, Timer(e) PROVE Offers'
    <2>1. CASE arrived[e] = <<>>
      BY <1>1, <1>5, <2>1 DEF Timer
    <2>2. CASE arrived[e] # <<>>
      <3>1. Offer(e, "timer", arrived[e]) /\ CanHandle(e) /\ arrived' = arrived
        BY <1>5, <2>2 DEF Timer
      <3>2. arrived' = [arrived EXCEPT ![e] = arrived[e]]
        BY <3>1 DEF TypeOK
      <3>. QED
        BY <1>2, <1>3, <2>2, <3>1, <3>2
    <2>. QED
      BY <2>1, <2>2
  <1>6. ASSUME NEW e \in End, Running(e) PROVE Outer(e) = <<>>
    <2>1. frames[e] # <<>> /\ Len(frames[e]) = 1
      BY <1>6 DEF Running, Offers, Offered
    <2>. QED
      BY <2>1 DEF Outer, TypeOK
  <1>7. ASSUME NEW e \in End, Refuses(e) PROVE Offers'
    <2>1. frames' = [frames EXCEPT ![e] = <<>>] /\ arrived' = arrived
      BY <1>6, <1>7 DEF Refuses, Offering
    <2>2. Offered(frames'[e], arrived'[e])
      BY <2>1 DEF Offered, TypeOK
    <2>. QED
      BY <2>1, <2>2, OffersElsewhere
  <1>8. ASSUME NEW e \in End, Receives(e) PROVE Offers'
    <2>. DEFINE queue == IF arrived[e] = <<>> THEN <<>> ELSE Tail(arrived[e])
                offer == [kind |-> Innermost(e).kind, offer |-> Head(queue)]
    <2>1. /\ arrived' = [arrived EXCEPT ![e] = queue]
          /\ frames' = [frames EXCEPT ![e] = IF queue # <<>> THEN <<offer>> ELSE <<>>]
      <3>1. Outer(e) = <<>> /\ Append(<<>>, offer) = <<offer>>
        BY <1>6, <1>8 DEF Receives, Offering
      <3>. HIDE DEF offer
      <3>2. /\ arrived' = [arrived EXCEPT ![e] = queue]
            /\ queue # <<>> => frames' = [frames EXCEPT ![e] = Append(Outer(e), offer)]
            /\ queue = <<>> => frames' = [frames EXCEPT ![e] = Outer(e)]
        BY <1>8 DEF Receives, offer
      <3>. HIDE DEF queue
      <3>. QED
        BY <3>1, <3>2
    <2>2. offer.offer = Head(queue)
      OBVIOUS
    <2>. HIDE DEF queue, offer
    <2>3. Len(<<offer>>) = 1 /\ <<offer>>[1] = offer
      OBVIOUS
    <2>4. Offered(IF queue # <<>> THEN <<offer>> ELSE <<>>, queue)
      BY <2>2, <2>3 DEF Offered
    <2>5. /\ arrived'[e] = queue
          /\ frames'[e] = IF queue # <<>> THEN <<offer>> ELSE <<>>
          /\ \A g \in End : g # e => frames'[g] = frames[g] /\ arrived'[g] = arrived[g]
      BY <2>1 DEF TypeOK
    <2>. QED
      BY <2>4, <2>5, OffersElsewhere
  <1>9. CASE Connect \/ Request \/ UNCHANGED vars
    BY <1>1, <1>9 DEF Connect, Request, receiveVars, vars
  <1>10. ASSUME NEW e \in End,
                \/ \E d \in Data : SendLater(e, d) \/ SendNow(e, d) \/ SendCrashes(e, d)
                \/ Disconnect(e) \/ Received(e)
                \/ Disconnected(e) \/ Ignore(e) \/ DisconnectTimer(e)
         PROVE  Offers'
    BY <1>1, <1>10 DEF SendLater, SendNow, SendCrashes, Disconnect, Received, Disconnected,
                       Ignore, DisconnectTimer, receiveVars
  <1>11. ASSUME NEW e \in End, Agreed(e) \/ Acknowledged(e) PROVE Offers'
    <2>1. /\ CanHandle(e) /\ arrived' = arrived
          /\ frames' = [frames EXCEPT ![e] = Append(@, ConnectedFrame)]
      BY <1>11 DEF Agreed, Acknowledged, Established, Handles
    <2>2. /\ frames'[e] = <<ConnectedFrame>>
          /\ \A g \in End : g # e => frames'[g] = frames[g] /\ arrived'[g] = arrived[g]
      <3>1. frames[e] = <<>>
        BY <1>2, <2>1
      <3>. QED
        BY <2>1, <3>1 DEF TypeOK
    <2>3. Offered(frames'[e], arrived'[e])
      BY <2>2 DEF Offered, ConnectedFrame
    <2>. QED
      BY <2>2, <2>3, OffersElsewhere
  <1>12. ASSUME NEW e \in End, ConnectedReturns(e) PROVE Offers'
    <2>1. frames' = [frames EXCEPT ![e] = <<>>] /\ arrived' = arrived
      BY <1>6, <1>12 DEF ConnectedReturns
    <2>2. Offered(frames'[e], arrived'[e])
      BY <2>1 DEF Offered, TypeOK
    <2>. QED
      BY <2>1, <2>2, OffersElsewhere
  <1>. QED
    BY <1>4, <1>5, <1>7, <1>8, <1>9, <1>10, <1>11, <1>12 DEF Next, Application, Window

(***************************************************************************)
(* Every step moves each direction as Channel says                         *)
(***************************************************************************)

\* A step that only takes window messages away, or posts others.
LEMMA NeutralMoves ==
    ASSUME HandshakeInv, \A g \in End : Accounted(g), UNCHANGED <<sendVars, arrived, taken>>,
           \A g \in End : StaysGone(g),
           \A g \in End : \A m \in {"InTransit", "Received"} : Calmer(posted[g], posted'[g], m),
           NEW e \in End
    PROVE  Moves(e)
  <1>1. Peer(e) \in End
    BY Ends
  <1>2. /\ Calmer(posted[Peer(e)], posted'[Peer(e)], "InTransit")
        /\ Calmer(posted[e], posted'[e], "Received")
    BY <1>1
  <1>3. \A m : Quiet(<<>>, m)
    BY OfOne
  <1>4. /\ Gone(e) => Gone(e)'
        /\ Gone(Peer(e)) => Gone(Peer(e))'
        /\ disconnecting[Peer(e)] # "no" =>
               disconnecting'[Peer(e)] # "no" \/ Quiet(posted'[Peer(e)], "InTransit")
    BY <1>1, <1>3 DEF StaysGone
  <1>5. /\ arrived'[Peer(e)] = arrived[Peer(e)] /\ taken'[Peer(e)] = taken[Peer(e)]
        /\ sendQueue'[e] = sendQueue[e] /\ file'[e] = file[e] /\ isSending'[e] = isSending[e]
    BY DEF sendVars
  <1>. QED
    BY <1>2, <1>4, <1>5, QuietMoves

\* What an end sends does not touch the direction towards it.
LEMMA OtherMoves ==
    ASSUME HandshakeInv, \A g \in End : Accounted(g), NEW e \in End, \A g \in End : StaysGone(g),
           UNCHANGED <<arrived, taken, disconnecting>>,
           sendQueue'[e] = sendQueue[e], file'[e] = file[e], isSending'[e] = isSending[e],
           Calmer(posted[Peer(e)], posted'[Peer(e)], "InTransit"),
           Calmer(posted[e], posted'[e], "Received")
    PROVE  Moves(e)
  <1>1. /\ Gone(e) => Gone(e)'
        /\ Gone(Peer(e)) => Gone(Peer(e))'
    BY Ends DEF StaysGone
  <1>2. /\ arrived'[Peer(e)] = arrived[Peer(e)] /\ taken'[Peer(e)] = taken[Peer(e)]
        /\ disconnecting[Peer(e)] # "no" =>
               disconnecting'[Peer(e)] # "no" \/ Quiet(posted'[Peer(e)], "InTransit")
    OBVIOUS
  <1>. QED
    BY <1>1, <1>2, QuietMoves

LEMMA SendLaterMovesBoth ==
    ASSUME HandshakeInv, \A g \in End : Accounted(g), NEW f \in End, NEW d \in Data, SendLater(f, d),
           \A g \in End : StaysGone(g), NEW e \in End
    PROVE  Moves(e)
  <1>1. CASE e = f
    BY <1>1, SendLaterMoves
  <1>2. CASE e # f
    <2>1. /\ UNCHANGED <<arrived, taken, disconnecting>>
          /\ sendQueue'[e] = sendQueue[e] /\ file'[e] = file[e] /\ isSending'[e] = isSending[e]
          /\ posted' = posted
      BY <1>2 DEF SendLater, receiveVars, HandshakeInv, TypeOK
    <2>. QED
      BY <2>1, OtherMoves DEF Calmer
  <1>. QED
    BY <1>1, <1>2

\* What the direction towards an end sees of the messages it posts.
LEMMA WritingMovesOther ==
    ASSUME HandshakeInv, \A g \in End : Accounted(g), NEW f \in End, \A g \in End : StaysGone(g),
           UNCHANGED <<arrived, taken, disconnecting>>,
           sendQueue'[Peer(f)] = sendQueue[Peer(f)], file'[Peer(f)] = file[Peer(f)],
           isSending'[Peer(f)] = isSending[Peer(f)],
           NEW s \in Seq(WindowMessage), Quiet(s, "Received"),
           posted'[Peer(f)] \in {posted[Peer(f)], posted[Peer(f)] \o s},
           Calmer(posted[f], posted'[f], "InTransit")
    PROVE  Moves(Peer(f))
  <1>1. Peer(f) \in End /\ Peer(Peer(f)) = f /\ posted[Peer(f)] \in Seq(WindowMessage)
    BY Ends DEF HandshakeInv, TypeOK
  <1>2. Calmer(posted[Peer(f)], posted[Peer(f)] \o s, "Received")
    BY <1>1, PostedIsCalmer
  <1>3. Calmer(posted[Peer(f)], posted'[Peer(f)], "Received")
    BY <1>2 DEF Calmer
  <1>. QED
    BY <1>1, <1>3, OtherMoves

LEMMA SendNowMovesBoth ==
    ASSUME HandshakeInv, \A g \in End : Accounted(g), NEW f \in End, NEW d \in Data, SendNow(f, d),
           \A g \in End : StaysGone(g), NEW e \in End
    PROVE  Moves(e)
  <1>1. CASE e = f
    BY <1>1, SendNowMoves
  <1>2. CASE e = Peer(f)
    <2>. DEFINE queue == Append(sendQueue[f], d)
    <2>1. /\ PrivateSend(f, queue) /\ posted' = Post(Peer(f), InTransit(queue))
          /\ UNCHANGED <<arrived, taken, disconnecting>>
      BY DEF SendNow, PrivateSendAndPost, receiveVars
    <2>. HIDE DEF queue
    <2>2. /\ Peer(f) \in End /\ Peer(f) # f /\ TypeOK
          /\ InTransit(queue) \in Seq(WindowMessage) /\ Quiet(InTransit(queue), "Received")
      BY Ends, Transit DEF HandshakeInv
    <2>3. /\ posted'[f] = posted[f]
          /\ posted'[Peer(f)] \in {posted[Peer(f)], posted[Peer(f)] \o InTransit(queue)}
      BY <2>1, <2>2, PostEffect
    <2>4. /\ sendQueue'[Peer(f)] = sendQueue[Peer(f)] /\ file'[Peer(f)] = file[Peer(f)]
          /\ isSending'[Peer(f)] = isSending[Peer(f)]
      BY <2>1, <2>2 DEF PrivateSend, WriteFile, TypeOK
    <2>5. Calmer(posted[f], posted'[f], "InTransit")
      BY <2>3 DEF Calmer
    <2>6. Moves(Peer(f))
      BY <2>1, <2>2, <2>3, <2>4, <2>5, WritingMovesOther
    <2>. QED
      BY <1>2, <2>6
  <1>. QED
    BY <1>1, <1>2, Ends

LEMMA ReceivedMovesBoth ==
    ASSUME HandshakeInv, \A g \in End : Accounted(g), NEW f \in End, Received(f),
           \A g \in End : StaysGone(g), NEW e \in End
    PROVE  Moves(e)
  <1>1. /\ Peer(f) \in End /\ Peer(f) # f /\ TypeOK
        /\ posted[f] \in Seq(WindowMessage) /\ posted[Peer(f)] \in Seq(WindowMessage)
    BY Ends DEF HandshakeInv, TypeOK
  <1>2. /\ posted[f] # <<>> /\ Head(posted[f]) = "Received"
        /\ UNCHANGED <<arrived, taken, disconnecting>>
    BY DEF Received, Handles, receiveVars
  <1>3. CASE e = f
    BY <1>3, ReceivedMoves
  <1>4. CASE e = Peer(f)
    <2>1. PICK s \in Seq(WindowMessage) :
              /\ Quiet(s, "Received") /\ HandleAndPost(f, s)
              /\ sendQueue'[Peer(f)] = sendQueue[Peer(f)] /\ file'[Peer(f)] = file[Peer(f)]
              /\ isSending'[Peer(f)] = isSending[Peer(f)]
      <3>1. CASE sendQueue[f] # <<>>
        <4>1. PrivateSend(f, sendQueue[f]) /\ HandleAndPost(f, InTransit(sendQueue[f]))
          BY <3>1 DEF Received
        <4>2. InTransit(sendQueue[f]) \in Seq(WindowMessage) /\ Quiet(InTransit(sendQueue[f]), "Received")
          BY Transit
        <4>3. /\ sendQueue'[Peer(f)] = sendQueue[Peer(f)] /\ file'[Peer(f)] = file[Peer(f)]
              /\ isSending'[Peer(f)] = isSending[Peer(f)]
          BY <1>1, <4>1 DEF PrivateSend, WriteFile, TypeOK
        <4>. QED
          BY <4>1, <4>2, <4>3
      <3>2. CASE sendQueue[f] = <<>>
        <4>1. /\ isSending' = [isSending EXCEPT ![f] = FALSE]
              /\ HandleAndPost(f, <<>>) /\ UNCHANGED <<file, sendQueue>>
          BY <3>2 DEF Received
        <4>2. isSending'[Peer(f)] = isSending[Peer(f)]
          BY <1>1, <4>1 DEF TypeOK
        <4>3. <<>> \in Seq(WindowMessage) /\ Quiet(<<>>, "Received")
          <5>1. <<>> \in Seq(WindowMessage)
            OBVIOUS
          <5>2. Quiet(<<>>, "Received")
            BY OfOne
          <5>. QED
            BY <5>1, <5>2
        <4>. QED
          BY <4>1, <4>2, <4>3
      <3>. QED
        BY <3>1, <3>2
    <2>2. /\ posted'[f] = Tail(posted[f])
          /\ posted'[Peer(f)] \in {posted[Peer(f)], posted[Peer(f)] \o s}
      BY <1>1, <1>2, <2>1, HandleEffect
    <2>3. Calmer(posted[f], posted'[f], "InTransit")
      BY <1>1, <1>2, <2>2, HandledIsCalmer
    <2>4. Moves(Peer(f))
      BY <1>2, <2>1, <2>2, <2>3, WritingMovesOther
    <2>. QED
      BY <1>4, <2>4
  <1>. QED
    BY <1>3, <1>4, Ends

LEMMA AsideMoves ==
    ASSUME UNCHANGED <<state, disconnecting, posted, sendVars, arrived, taken>>, NEW e \in End
    PROVE  Moves(e)
  BY DEF Moves, Stays, Pipe, UnderWay, Cut, sendVars

\* The connected event comes back.
LEMMA ConnectedReturnsMoves ==
    ASSUME HandshakeInv, \A g \in End : Accounted(g), NEW f \in End, ConnectedReturns(f),
           \A g \in End : StaysGone(g), NEW e \in End
    PROVE  Moves(e)
  <1>1. /\ Peer(f) \in End /\ Peer(f) # f /\ TypeOK
        /\ posted \in [End -> Seq(WindowMessage)] /\ sendQueue[f] \in Seq(Data)
        /\ UNCHANGED <<disconnecting, arrived, taken>>
    BY Ends DEF HandshakeInv, TypeOK, ConnectedReturns
  <1>2. CASE UNCHANGED <<state, posted, sendVars>>
    BY <1>1, <1>2, AsideMoves
  <1>3. CASE Crash(f)
    <2>1. \A g \in End : posted'[g] \in {posted[g], <<>>}
      BY <1>1, <1>3 DEF Crash
    <2>2. \A g \in End : \A m \in {"InTransit", "Received"} : Calmer(posted[g], posted'[g], m)
      BY <2>1, OfOne, QuietIsOnce DEF Calmer
    <2>. QED
      BY <1>1, <1>3, <2>2, NeutralMoves DEF Crash
  <1>4. CASE /\ ~isSending[f] /\ sendQueue[f] # <<>> /\ ~Crashes(f, sendQueue[f])
             /\ PrivateSendAndPost(f, sendQueue[f])
    <2>1. PrivateSend(f, sendQueue[f]) /\ state' = state
      BY <1>4 DEF PrivateSendAndPost
    <2>2. /\ posted'[f] = posted[f]
          /\ posted'[Peer(f)] = IF HasWindow(Peer(f)) THEN posted[Peer(f)] \o InTransit(sendQueue[f])
                                ELSE posted[Peer(f)]
      BY <1>1, <1>4 DEF PrivateSendAndPost, Post
    <2>3. Held(posted[Peer(f)], posted[f], isSending[f])
      BY DEF HandshakeInv, Handshake
    <2>4. Quiet(posted[Peer(f)], "InTransit") /\ Quiet(posted'[f], "Received")
      BY <1>4, <2>2, <2>3 DEF Held
    <2>5. Gone(f) => Head(sendQueue[f]) \in Big
      <3>1. state[f] # "crashed"
        BY DEF ConnectedReturns, Running
      <3>. QED
        BY <1>4, <3>1 DEF Gone, Crashes
    <2>6. Moves(f)
      BY <1>1, <1>4, <2>1, <2>2, <2>4, <2>5, FlushMoves
    <2>7. Moves(Peer(f))
      <3>1. InTransit(sendQueue[f]) \in Seq(WindowMessage) /\ Quiet(InTransit(sendQueue[f]), "Received")
        BY Transit
      <3>2. /\ sendQueue'[Peer(f)] = sendQueue[Peer(f)] /\ file'[Peer(f)] = file[Peer(f)]
            /\ isSending'[Peer(f)] = isSending[Peer(f)]
        BY <1>1, <2>1 DEF PrivateSend, WriteFile, TypeOK
      <3>3. Calmer(posted[f], posted'[f], "InTransit")
        BY <2>2 DEF Calmer
      <3>4. posted'[Peer(f)] \in {posted[Peer(f)], posted[Peer(f)] \o InTransit(sendQueue[f])}
        BY <2>2
      <3>. QED
        BY <1>1, <3>1, <3>2, <3>3, <3>4, WritingMovesOther
    <2>. QED
      BY <2>6, <2>7, Ends
  <1>. QED
    BY <1>2, <1>3, <1>4 DEF ConnectedReturns

LEMMA ReadMovesBoth ==
    ASSUME HandshakeInv, \A g \in End : Accounted(g), NEW f \in End, MessageInTransit(f),
           \A g \in End : StaysGone(g), NEW e \in End
    PROVE  Moves(e)
  <1>1. /\ Peer(f) \in End /\ Peer(Peer(f)) = f /\ Peer(f) # f /\ TypeOK
        /\ posted[f] \in Seq(WindowMessage) /\ posted[Peer(f)] \in Seq(WindowMessage)
    BY Ends DEF HandshakeInv, TypeOK
  <1>2. /\ Gone(f) => Gone(f)'
        /\ Gone(Peer(f)) => Gone(Peer(f))'
    BY <1>1 DEF StaysGone
  <1>3. CASE e = Peer(f)
    BY <1>1, <1>2, <1>3, ReadMoves
  <1>4. CASE e = f
    <2>1. /\ posted[f] # <<>> /\ HandleAndPost(f, <<"Received">>)
          /\ Head(posted[f]) # "Received"
          /\ arrived'[Peer(f)] = arrived[Peer(f)]
          /\ UNCHANGED <<disconnecting, file, isSending, sendQueue, taken>>
      BY <1>1 DEF MessageInTransit, Handles, sendVars, TypeOK
    <2>2. <<"Received">> \in Seq(WindowMessage) /\ Quiet(<<"Received">>, "InTransit")
      BY OfOne DEF WindowMessage
    <2>3. /\ posted'[f] = Tail(posted[f])
          /\ posted'[Peer(f)] \in {posted[Peer(f)], posted[Peer(f)] \o <<"Received">>}
      BY <1>1, <2>1, <2>2, HandleEffect
    <2>4. Calmer(posted[f], posted'[f], "Received")
      BY <1>1, <2>1, <2>3, HandledIsCalmer
    <2>5. Calmer(posted[Peer(f)], posted'[Peer(f)], "InTransit")
      <3>1. Calmer(posted[Peer(f)], posted[Peer(f)] \o <<"Received">>, "InTransit")
        BY <1>1, <2>2, PostedIsCalmer
      <3>. QED
        BY <2>3, <3>1 DEF Calmer
    <2>6. Moves(f)
      BY <1>1, <1>2, <2>1, <2>4, <2>5, QuietMoves
    <2>. QED
      BY <1>4, <2>6
  <1>. QED
    BY <1>3, <1>4, Ends

LEMMA ReceiveMovesBoth ==
    ASSUME HandshakeInv, Offers, NEW f \in End, Receives(f),
           \A g \in End : StaysGone(g), NEW e \in End
    PROVE  Moves(e)
  <1>1. Peer(f) \in End /\ Peer(Peer(f)) = f /\ Peer(f) # f
    BY Ends
  <1>2. CASE e = Peer(f)
    BY <1>1, <1>2, ReceiveMoves
  <1>3. CASE e = f
    <2>1. /\ arrived'[Peer(f)] = arrived[Peer(f)] /\ taken'[Peer(f)] = taken[Peer(f)]
          /\ UNCHANGED <<state, disconnecting, posted, file, isSending, sendQueue, tooBig>>
      BY <1>1 DEF Receives, sendVars, HandshakeInv, TypeOK
    <2>2. Pipe(f)' = Pipe(f) /\ Cut(f)' = Cut(f)
      BY <2>1 DEF Pipe, UnderWay, Cut
    <2>. QED
      BY <1>3, <2>1, <2>2 DEF Moves, Stays
  <1>. QED
    BY <1>2, <1>3, Ends

\* The window messages that connecting and disconnecting take away and post.
LEMMA ConnectIsCalm ==
    ASSUME HandshakeInv, NEW g \in End, NEW m \in {"InTransit", "Received"},
           \/ Connect \/ Request
           \/ \E f \in End : \E d \in Data : SendCrashes(f, d)
    PROVE  Calmer(posted[g], posted'[g], m)
  <1>1. TypeOK /\ posted[g] \in Seq(WindowMessage)
    BY DEF HandshakeInv, TypeOK
  <1>2. Calmer(posted[g], posted[g], m) /\ Calmer(posted[g], <<>>, m)
    BY OfOne, QuietIsOnce DEF Calmer
  <1>3. CASE Connect
    <2>1. posted'[g] \in {posted[g], <<"Request">>}
      BY <1>1, <1>3 DEF Connect, TypeOK
    <2>2. Quiet(<<"Request">>, m) /\ Once(<<"Request">>, m)
      BY OfOne
    <2>. QED
      BY <1>2, <2>1, <2>2 DEF Calmer
  <1>4. CASE Request
    <2>1. "A" \in End /\ "B" \in End
      BY DEF End
    <2>2. <<"Agreed">> \in Seq(WindowMessage) /\ Quiet(<<"Agreed">>, m)
      BY OfOne DEF WindowMessage
    <2>3. /\ Post("A", <<"Agreed">>) \in [End -> Seq(WindowMessage)]
          /\ Post("A", <<"Agreed">>)[g] \in {posted[g], posted[g] \o <<"Agreed">>}
      BY <1>1, <2>1, <2>2, PostEffect
    <2>4. posted'[g] \in {posted[g], posted[g] \o <<"Agreed">>, <<>>}
      BY <1>4, <2>3 DEF Request
    <2>5. Calmer(posted[g], posted[g] \o <<"Agreed">>, m)
      BY <1>1, <2>2, PostedIsCalmer
    <2>. QED
      BY <1>2, <2>4, <2>5
  <1>5. ASSUME NEW f \in End, NEW d \in Data, SendCrashes(f, d)
        PROVE  Calmer(posted[g], posted'[g], m)
    <2>1. posted'[g] \in {posted[g], <<>>}
      BY <1>1, <1>5 DEF SendCrashes, Crash, TypeOK
    <2>. QED
      BY <1>2, <2>1
  <1>. QED
    BY <1>3, <1>4, <1>5

LEMMA PostingsMove ==
    ASSUME HandshakeInv, \A g \in End : Accounted(g), \A g \in End : StaysGone(g),
           \/ Connect \/ Request
           \/ \E f \in End : \/ Disconnect(f) \/ Disconnected(f) \/ DisconnectTimer(f) \/ Ignore(f)
                             \/ Agreed(f) \/ Acknowledged(f)
                             \/ \E d \in Data : SendCrashes(f, d),
           NEW e \in End
    PROVE  Moves(e)
  <1>1. CASE \/ Connect \/ Request
             \/ \E f \in End : \E d \in Data : SendCrashes(f, d)
    <2>1. UNCHANGED <<sendVars, arrived, taken>>
      BY <1>1 DEF Connect, Request, SendCrashes, Crash, receiveVars
    <2>2. \A g \in End : \A m \in {"InTransit", "Received"} : Calmer(posted[g], posted'[g], m)
      BY <1>1, ConnectIsCalm
    <2>. QED
      BY <2>1, <2>2, NeutralMoves
  <1>2. ASSUME NEW f \in End,
               Disconnect(f) \/ Disconnected(f) \/ DisconnectTimer(f) \/ Ignore(f)
        PROVE  Moves(e)
    BY <1>2, DisconnectIsCalm, NeutralMoves
  <1>3. ASSUME NEW f \in End, Agreed(f) \/ Acknowledged(f) PROVE Moves(e)
    BY <1>3, EstablishedIsCalm, NeutralMoves
  <1>. QED
    BY <1>1, <1>2, <1>3

LEMMA NextMoves ==
    ASSUME HandshakeInv, Stages, Stalled, Offers, [Next]_vars, NEW e \in End PROVE Moves(e)
  <1>a. \A g \in End : Accounted(g)
    BY StalledStep DEF Accounted, Stalled
  <1>1. \A g \in End : StaysGone(g)
    BY NextStaysGone DEF HandshakeInv
  <1>2. ASSUME NEW f \in End, Application(f) PROVE Moves(e)
    <2>1. CASE \E d \in Data : SendLater(f, d)
      BY <1>a, <1>1, <2>1, SendLaterMovesBoth
    <2>2. CASE \E d \in Data : SendNow(f, d)
      BY <1>a, <1>1, <2>2, SendNowMovesBoth
    <2>3. CASE Refuses(f)
      BY <1>a, <1>1, <2>3, AsideMoves DEF Refuses
    <2>6. CASE ConnectedReturns(f)
      BY <1>a, <1>1, <2>6, ConnectedReturnsMoves
    <2>4. CASE Receives(f)
      BY <1>a, <1>1, <2>4, ReceiveMovesBoth
    <2>5. CASE Disconnect(f) \/ \E d \in Data : SendCrashes(f, d)
      BY <1>a, <1>1, <2>5, PostingsMove
    <2>. QED
      BY <1>2, <2>1, <2>2, <2>3, <2>4, <2>5, <2>6 DEF Application
  <1>3. ASSUME NEW f \in End, Window(f) PROVE Moves(e)
    <2>1. CASE Received(f)
      BY <1>a, <1>1, <2>1, ReceivedMovesBoth
    <2>2. CASE MessageInTransit(f)
      BY <1>a, <1>1, <2>2, ReadMovesBoth
    <2>3. CASE Disconnected(f) \/ Ignore(f) \/ Agreed(f) \/ Acknowledged(f)
      BY <1>a, <1>1, <2>3, PostingsMove
    <2>. QED
      BY <1>3, <2>1, <2>2, <2>3 DEF Window
  <1>4. ASSUME NEW f \in End, Timer(f) PROVE Moves(e)
    BY <1>4, AsideMoves DEF Timer
  <1>5. ASSUME NEW f \in End, DisconnectTimer(f) PROVE Moves(e)
    BY <1>a, <1>1, <1>5, PostingsMove
  <1>6. CASE Connect \/ Request
    BY <1>a, <1>1, <1>6, PostingsMove
  <1>7. CASE UNCHANGED vars
    BY <1>7, AsideMoves DEF vars, sendVars, receiveVars
  <1>. QED
    BY <1>2, <1>3, <1>4, <1>5, <1>6, <1>7 DEF Next

LEMMA ChannelInit == Init => FromA!Init /\ FromB!Init
  <1>. SUFFICES ASSUME Init PROVE FromA!Init /\ FromB!Init
    OBVIOUS
  <1>1. /\ \A e \in End : UnderWay(e) = <<>> /\ Cut(e) = FALSE /\ taken[e] = <<>>
        /\ \A e \in End : Pipe(e) = <<>>
    <2>1. \A e \in End : Peer(e) \in End
      BY Ends
    <2>2. ASSUME NEW e \in End PROVE UnderWay(e) = <<>> /\ Cut(e) = FALSE /\ taken[e] = <<>>
      BY <2>1, <2>2 DEF Init, UnderWay, Positions, Cut
    <2>3. <<>> \o <<>> \o <<>> = <<>>
      OBVIOUS
    <2>4. ASSUME NEW e \in End PROVE Pipe(e) = <<>>
      BY <2>1, <2>2, <2>3 DEF Pipe, Init
    <2>. QED
      BY <2>2, <2>4
  <1>. QED
    BY <1>1 DEF FromA!Init, FromB!Init, End

\* Messages are taken once each and in the order of the calls of send, in both
\* directions at a time, whatever is refused, repeated by the timer, or under way
\* when an end disconnects, unless the application calls DoEvents while it is
\* offered one (class VLMMMFileTransport).
THEOREM TransportImplementsChannel ==
    ASSUME MaxNesting = 1 PROVE Spec => ImplementsChannel
  <1>. DEFINE IInv == HandshakeInv /\ Stages /\ Stalled /\ Offers
  <1>1. Init => IInv
    BY HandshakeInit, StagesInit, StalledInit, OffersInit
  <1>2. IInv /\ [Next]_vars => IInv'
    <2>1. HandshakeInv => TypeOK
      BY DEF HandshakeInv
    <2>. QED
      BY <2>1, HandshakeStep, StagesStep, StalledStep, OffersStep
  <1>3. IInv /\ [Next]_vars =>
            /\ [FromA!Next]_<<Pipe("A"), taken["B"], Cut("A")>>
            /\ [FromB!Next]_<<Pipe("B"), taken["A"], Cut("B")>>
    BY NextMoves, MovesAreSteps DEF End
  <1>. QED
    BY <1>1, <1>2, <1>3, ChannelInit, PTL DEF Spec, ImplementsChannel, FromA!Spec, FromB!Spec

=============================================================================
