--------------------------- MODULE SequenceFacts ---------------------------
(***************************************************************************)
(* Facts about sequences and functions for the proofs about sockets: what  *)
(* dictionaries, lists of pipes and connections are after an update.       *)
(***************************************************************************)
EXTENDS Integers, Sequences, SequencesExt, SequenceTheorems, TLAPS

\* No element is there twice.
NoneTwice(s) == \A i, j \in DOMAIN s : s[i] = s[j] => i = j

\* A sequence with one element replaced.
LEMMA Replace ==
    ASSUME NEW S, NEW s \in Seq(S), NEW i \in DOMAIN s, NEW e \in S
    PROVE  /\ [s EXCEPT ![i] = e] \in Seq(S)
           /\ DOMAIN [s EXCEPT ![i] = e] = DOMAIN s
           /\ \A j \in DOMAIN s : [s EXCEPT ![i] = e][j] = IF j = i THEN e ELSE s[j]
<1>1. i \in 1..Len(s) /\ DOMAIN s = 1..Len(s)
  OBVIOUS
<1>. QED
  BY <1>1, ExceptSeq

\* One element more.
LEMMA Appended ==
    ASSUME NEW S, NEW s \in Seq(S), NEW e \in S
    PROVE  /\ Append(s, e) \in Seq(S)
           /\ DOMAIN Append(s, e) = DOMAIN s \cup {Len(s) + 1} /\ Len(s) + 1 \notin DOMAIN s
           /\ \A j \in DOMAIN s : Append(s, e)[j] = s[j]
           /\ Append(s, e)[Len(s) + 1] = e
<1>1. /\ Len(s) \in Nat /\ DOMAIN s = 1..Len(s) /\ Append(s, e) \in Seq(S)
      /\ Len(Append(s, e)) = Len(s) + 1 /\ DOMAIN Append(s, e) = 1..(Len(s) + 1)
      /\ \A j \in 1..Len(s) : Append(s, e)[j] = s[j]
      /\ Append(s, e)[Len(s) + 1] = e
  BY AppendProperties
<1>. QED
  BY <1>1

\* The first element taken.
LEMMA Tailed ==
    ASSUME NEW S, NEW s \in Seq(S), s # <<>>
    PROVE  /\ Tail(s) \in Seq(S) /\ Head(s) = s[1] /\ Head(s) \in S /\ 1 \in DOMAIN s
           /\ \A j \in DOMAIN Tail(s) : j \in Nat /\ j + 1 \in DOMAIN s /\ Tail(s)[j] = s[j + 1]
  OBVIOUS

\* The one occurrence of an element removed.
LEMMA RemovedOne ==
    ASSUME NEW S, NEW s \in Seq(S), NoneTwice(s), NEW e \in S
    PROVE  LET t == RemoveFirst(s, e)
           IN  /\ t \in Seq(S) /\ NoneTwice(t)
               /\ \A i \in DOMAIN t : t[i] # e /\ \E j \in DOMAIN s : t[i] = s[j]
<1>1. DOMAIN s = 1..Len(s) /\ Len(s) \in Nat
  OBVIOUS
<1>2. CASE ~\E i \in 1..Len(s) : s[i] = e
  <2>1. RemoveFirst(s, e) = s
    BY <1>2 DEF RemoveFirst
  <2>. QED
    BY <1>1, <1>2, <2>1
<1>3. CASE \E i \in 1..Len(s) : s[i] = e
  <2>1. PICK k \in 1..Len(s) : s[k] = e
    BY <1>3
  <2>2. {i \in 1..Len(s) : s[i] = e} = {k}
    BY <1>1, <2>1 DEF NoneTwice
  <2>3. Min({k}) = k
    BY <2>1 DEF Min
  <2>4. SelectInSeq(s, LAMBDA v : v = e) = k
    BY <2>2, <2>3 DEF SelectInSeq
  <2>5. RemoveFirst(s, e) = SubSeq(s, 1, k - 1) \o SubSeq(s, k + 1, Len(s))
    BY <1>3, <2>4 DEF RemoveFirst, RemoveAt
  <2>e. PICK a : a = SubSeq(s, 1, k - 1)
    OBVIOUS
  <2>f. PICK b : b = SubSeq(s, k + 1, Len(s))
    OBVIOUS
  <2>g. PICK t : t = a \o b
    OBVIOUS
  <2>6. /\ a \in Seq(S) /\ Len(a) = k - 1 /\ \A i \in 1..(k - 1) : a[i] = s[i]
    <3>1. k - 1 \in Int /\ 1 \in Int /\ \A i \in 1..(k - 1) : s[i] \in S
      BY <1>1
    <3>2. /\ SubSeq(s, 1, k - 1) \in Seq(S)
          /\ Len(SubSeq(s, 1, k - 1)) = IF 1 <= k - 1 THEN k - 1 - 1 + 1 ELSE 0
          /\ \A i \in 1..(k - 1 - 1 + 1) : SubSeq(s, 1, k - 1)[i] = s[1 + i - 1]
      BY <3>1, SubSeqProperties
    <3>. QED
      BY <3>2, <2>e
  <2>7. /\ b \in Seq(S) /\ Len(b) = Len(s) - k /\ \A i \in 1..(Len(s) - k) : b[i] = s[k + i]
    <3>1. k + 1 \in Int /\ Len(s) \in Int /\ \A i \in (k + 1)..Len(s) : s[i] \in S
      BY <1>1
    <3>2. /\ SubSeq(s, k + 1, Len(s)) \in Seq(S)
          /\ Len(SubSeq(s, k + 1, Len(s))) = IF k + 1 <= Len(s) THEN Len(s) - (k + 1) + 1 ELSE 0
          /\ \A i \in 1..(Len(s) - (k + 1) + 1) :
                SubSeq(s, k + 1, Len(s))[i] = s[k + 1 + i - 1]
      BY <3>1, SubSeqProperties
    <3>3. Len(b) = Len(s) - k /\ b \in Seq(S)
      <4>1. k \in Int /\ k <= Len(s) /\ Len(s) \in Int
        BY <1>1
      <4>2. (IF k + 1 <= Len(s) THEN Len(s) - (k + 1) + 1 ELSE 0) = Len(s) - k
        BY <4>1
      <4>. QED
        BY <3>2, <4>2, <2>f
    <3>4. ASSUME NEW i \in 1..(Len(s) - k)
          PROVE  b[i] = s[k + i]
      <4>1. i \in 1..(Len(s) - (k + 1) + 1) /\ k + 1 + i - 1 = k + i
        BY <1>1
      <4>2. SubSeq(s, k + 1, Len(s))[i] = s[k + 1 + i - 1]
        BY <4>1, <3>2
      <4>. QED
        BY <4>1, <4>2, <2>f
    <3>. QED
      BY <3>3, <3>4
  <2>8. /\ t \in Seq(S) /\ DOMAIN t = 1..(Len(s) - 1)
        /\ \A i \in 1..(Len(s) - 1) : t[i] = IF i < k THEN s[i] ELSE s[i + 1]
    <3>1. /\ a \o b \in Seq(S) /\ Len(a \o b) = Len(a) + Len(b)
          /\ \A i \in 1..(Len(a) + Len(b)) :
                (a \o b)[i] = IF i <= Len(a) THEN a[i] ELSE b[i - Len(a)]
      BY <2>6, <2>7, ConcatProperties
    <3>2. Len(t) = Len(s) - 1 /\ t \in Seq(S)
      BY <1>1, <2>6, <2>7, <2>g, <3>1
    <3>3. ASSUME NEW i \in 1..(Len(s) - 1)
          PROVE  t[i] = IF i < k THEN s[i] ELSE s[i + 1]
      BY <1>1, <2>6, <2>7, <2>g, <3>1
    <3>. QED
      BY <3>2, <3>3
  <2>h. \A i, j \in 1..Len(s) : s[i] = s[j] => i = j
    BY <1>1 DEF NoneTwice
  <2>9. NoneTwice(t)
    <3>1. SUFFICES ASSUME NEW i \in DOMAIN t, NEW j \in DOMAIN t, t[i] = t[j]
                   PROVE  i = j
      BY DEF NoneTwice
    <3>2. i \in 1..(Len(s) - 1) /\ j \in 1..(Len(s) - 1)
      BY <2>8
    <3>3. (IF i < k THEN s[i] ELSE s[i + 1]) = (IF j < k THEN s[j] ELSE s[j + 1])
      BY <2>8, <3>1, <3>2
    <3>4. i \in Int /\ j \in Int /\ i + 1 \in 1..Len(s) /\ j + 1 \in 1..Len(s)
          /\ i \in 1..Len(s) /\ j \in 1..Len(s)
      BY <1>1, <3>2
    <3>. QED
      BY <2>h, <3>3, <3>4
  <2>10. ASSUME NEW i \in DOMAIN t
         PROVE  t[i] # e /\ \E j \in DOMAIN s : t[i] = s[j]
    <3>1. i \in 1..(Len(s) - 1) /\ t[i] = IF i < k THEN s[i] ELSE s[i + 1]
      BY <2>8
    <3>2. i \in Int /\ i \in 1..Len(s) /\ i + 1 \in 1..Len(s)
      BY <1>1, <3>1
    <3>. QED
      BY <1>1, <2>1, <2>h, <3>1, <3>2
  <2>11. RemoveFirst(s, e) = t
    BY <2>5, <2>e, <2>f, <2>g
  <2>. QED
    BY <2>8, <2>9, <2>10, <2>11
<1>. QED
  BY <1>2, <1>3

\* An element put first, wherever it was.
LEMMA MovedToFront ==
    ASSUME NEW S, NEW s \in Seq(S), NoneTwice(s), NEW e \in S
    PROVE  LET t == <<e>> \o RemoveFirst(s, e)
           IN  /\ t \in Seq(S) /\ NoneTwice(t) /\ t # <<>>
               /\ \A i \in DOMAIN t : t[i] = e \/ \E j \in DOMAIN s : t[i] = s[j]
<1>. PICK u : u = RemoveFirst(s, e)
  OBVIOUS
<1>1. /\ u \in Seq(S) /\ NoneTwice(u)
      /\ \A i \in DOMAIN u : u[i] # e /\ \E j \in DOMAIN s : u[i] = s[j]
  BY RemovedOne
<1>. PICK t : t = <<e>> \o u
  OBVIOUS
<1>2. DOMAIN u = 1..Len(u) /\ Len(u) \in Nat
  BY <1>1
<1>3. /\ t \in Seq(S) /\ DOMAIN t = 1..(Len(u) + 1) /\ t # <<>>
      /\ \A i \in 1..(Len(u) + 1) : t[i] = IF i = 1 THEN e ELSE u[i - 1]
  BY <1>1, <1>2
<1>4. NoneTwice(t)
  BY <1>1, <1>2, <1>3 DEF NoneTwice
<1>5. \A i \in DOMAIN t : t[i] = e \/ \E j \in DOMAIN s : t[i] = s[j]
  BY <1>1, <1>2, <1>3
<1>. QED
  BY <1>3, <1>4, <1>5

\* An element put last that was not there.
LEMMA AddedLast ==
    ASSUME NEW S, NEW s \in Seq(S), NoneTwice(s), NEW e \in S, \A i \in DOMAIN s : s[i] # e
    PROVE  /\ Append(s, e) \in Seq(S) /\ NoneTwice(Append(s, e)) /\ Append(s, e) # <<>>
           /\ \A i \in DOMAIN Append(s, e) :
                Append(s, e)[i] = e \/ \E j \in DOMAIN s : Append(s, e)[i] = s[j]
<1>1. /\ Append(s, e) \in Seq(S)
      /\ DOMAIN Append(s, e) = DOMAIN s \cup {Len(s) + 1} /\ Len(s) + 1 \notin DOMAIN s
      /\ \A j \in DOMAIN s : Append(s, e)[j] = s[j]
      /\ Append(s, e)[Len(s) + 1] = e
  BY Appended
<1>2. Append(s, e) # <<>>
  <2>1. Len(Append(s, e)) = Len(s) + 1 /\ Len(s) \in Nat
    BY AppendProperties
  <2>. QED
    BY <2>1, EmptySeq
<1>. QED
  BY <1>1, <1>2 DEF NoneTwice

\* One sequence after another.
LEMMA Joined ==
    ASSUME NEW S, NEW s \in Seq(S), NEW t \in Seq(S)
    PROVE  /\ s \o t \in Seq(S) /\ Len(s \o t) = Len(s) + Len(t)
           /\ DOMAIN (s \o t) = 1..(Len(s) + Len(t))
           /\ \A i \in DOMAIN s : (s \o t)[i] = s[i]
           /\ \A i \in DOMAIN (s \o t) :
                (s \o t)[i] = IF i \in DOMAIN s THEN s[i] ELSE t[i - Len(s)]
           /\ \A i \in DOMAIN (s \o t) : i \notin DOMAIN s => i - Len(s) \in DOMAIN t
<1>1. /\ s \o t \in Seq(S) /\ Len(s \o t) = Len(s) + Len(t)
      /\ \A i \in 1..(Len(s) + Len(t)) :
            (s \o t)[i] = IF i <= Len(s) THEN s[i] ELSE t[i - Len(s)]
  BY ConcatProperties
<1>2. /\ DOMAIN s = 1..Len(s) /\ DOMAIN t = 1..Len(t) /\ Len(s) \in Nat /\ Len(t) \in Nat
      /\ DOMAIN (s \o t) = 1..Len(s \o t)
  BY <1>1
<1>. QED
  BY <1>1, <1>2

\* A dictionary of dictionaries with one value replaced.
LEMMA Nested ==
    ASSUME NEW A, NEW B, NEW S, NEW f \in [A -> [B -> S]], NEW x \in A, NEW y \in B, NEW e \in S
    PROVE  /\ [f EXCEPT ![x][y] = e] \in [A -> [B -> S]]
           /\ \A u \in A, v \in B :
                [f EXCEPT ![x][y] = e][u][v] = IF u = x /\ v = y THEN e ELSE f[u][v]
  OBVIOUS

=============================================================================
