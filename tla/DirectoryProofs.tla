-------------------------- MODULE DirectoryProofs --------------------------
(***************************************************************************)
(* Theorems about any number of directories, hubs and agents.              *)
(***************************************************************************)
EXTENDS DirectoryProperties, TLAPS

LEMMA MergeIsTyped ==
    ASSUME NEW known \in SUBSET Entry, NEW new \in SUBSET Entry
    PROVE  Merge(known, new) \in SUBSET Entry
BY DEF Merge

LEMMA LetterIsMail ==
    ASSUME NEW kind \in {"ask", "told", "share", "answer"}, NEW from \in Dir, NEW to \in Dir,
           NEW byNet \in BOOLEAN, NEW es \in SUBSET Entry
    PROVE  Letter(kind, from, to, byNet, es) \in Mail
BY DEF Letter, Mail

LEMMA NetEntriesAreTyped ==
    ASSUME NEW d \in Dir, NEW known \in SUBSET Entry
    PROVE  NetEntries(d, known) \in SUBSET Entry
BY DEF NetEntries, Entry, NetAddr

\* what is sent is mail
LEMMA SharesAreMail ==
    ASSUME NEW d \in Dir, entries[d] \in SUBSET Entry
    PROVE  Share(d) \cup ShareByNet(d) \in SUBSET Mail
<1>1. Share(d) \in SUBSET Mail
  <2> SUFFICES ASSUME NEW h \in Hubs[d]
               PROVE Letter("share", d, h, FALSE, {e \in entries[d] : Local \in e.vnets}) \in Mail
    BY DEF Share
  <2>1. h \in Dir
    BY DirAssumption
  <2> QED
    BY <2>1, LetterIsMail
<1>2. ShareByNet(d) \in SUBSET Mail
  <2>1. NetHub[d] # None => NetHub[d] \in Dir
    BY DirAssumption DEF NetAddr
  <2>2. NetHub[d] # None => /\ Letter("ask", d, NetHub[d], TRUE, {}) \in Mail
                            /\ Letter("share", d, NetHub[d], TRUE, {}) \in Mail
    BY <2>1, LetterIsMail
  <2> QED
    BY <2>2 DEF ShareByNet
<1> QED
  BY <1>1, <1>2

LEMMA AnswersAreMail ==
    ASSUME NEW m \in Mail, NEW known \in SUBSET Entry
    PROVE  Answers(m, known) \in SUBSET Mail
<1>1. m.to \in Dir /\ m.from \in Dir
  BY DEF Mail
<1>2. Letter("answer", m.to, m.from, TRUE, NetEntries(m.to, known)) \in Mail
  BY <1>1, LetterIsMail, NetEntriesAreTyped
<1>3. Letter("answer", m.to, m.from, FALSE, {e \in known : e.vnets # NoVnets}) \in Mail
  BY <1>1, LetterIsMail
<1> QED
  BY <1>2, <1>3 DEF Answers

\* what an answer consists of
LEMMA AnswerContents ==
    ASSUME NEW m, NEW known, NEW n \in Answers(m, known)
    PROVE  /\ n.from = m.to /\ n.to = m.from
           /\ \/ m.byNet /\ n.byNet /\ n.entries = NetEntries(m.to, known)
              \/ ~m.byNet /\ ~n.byNet /\ n.entries = {e \in known : e.vnets # NoVnets}
<1>1. CASE m.byNet
  BY <1>1 DEF Answers, Letter
<1>2. CASE ~m.byNet
  <2>1. n = Letter("answer", m.to, m.from, FALSE, {e \in known : e.vnets # NoVnets})
    BY <1>2 DEF Answers
  <2> QED
    BY <1>2, <2>1 DEF Letter
<1> QED
  BY <1>1, <1>2

LEMMA AddressIsTyped == ASSUME NEW e \in Entry PROVE AddressOf(e) \in Address
BY DEF Entry, Address, AddressOf

(***************************************************************************)
(* Types                                                                   *)
(***************************************************************************)

LEMMA TypeStep == TypeOK /\ [Next]_vars => TypeOK'
<1> SUFFICES ASSUME TypeOK, [Next]_vars PROVE TypeOK'
  OBVIOUS
<1>1. CASE \E a \in Agent : Die(a)
  BY <1>1 DEF TypeOK, Die
<1>2. ASSUME NEW a \in Agent, NEW v \in Offers[a], Register(a, v) PROVE TypeOK'
  <2>1. Home[a] \in Dir /\ v \in Vnets
    BY DirAssumption
  <2>2. [agent |-> a, net |-> None, vnets |-> v] \in Entry
    BY <2>1 DEF Entry, NetAddr
  <2>3. Merge(entries[Home[a]], {[agent |-> a, net |-> None, vnets |-> v]}) \in SUBSET Entry
    BY <2>1, <2>2, MergeIsTyped DEF TypeOK
  <2> QED
    BY <1>2, <2>1, <2>3 DEF TypeOK, Register
<1>3. ASSUME NEW a \in Agent, NEW e \in entries[Home[a]], UnregisterEntry(a, e) PROVE TypeOK'
  BY <1>3, DirAssumption DEF TypeOK, UnregisterEntry, IsUnregistered
<1>4. ASSUME NEW d \in Dir, NEW address \in Address, UnregisterAddr(d, address) PROVE TypeOK'
  BY <1>4, DirAssumption DEF TypeOK, UnregisterAddr, IsUnregistered, Address
<1>5. ASSUME NEW d \in Dir, EnsureNetwork(d) PROVE TypeOK'
  <2>1. Share(d) \cup ShareByNet(d) \in SUBSET Mail
    BY SharesAreMail DEF TypeOK
  <2> QED
    BY <1>5, <2>1 DEF TypeOK, EnsureNetwork
<1>6. ASSUME NEW d \in Dir, Heartbeat(d) PROVE TypeOK'
  <2>1. {AddressOf(e) : e \in {e \in entries[d] : AddressOf(e) \notin stale[d]}} \in SUBSET Address
    BY AddressIsTyped DEF TypeOK
  <2> QED
    BY <1>6, <2>1 DEF TypeOK, Heartbeat
<1>7. ASSUME NEW m \in mail, ShareArrives(m) PROVE TypeOK'
  <2>1. m \in Mail /\ m.to \in Dir /\ m.entries \in SUBSET Entry
    BY DEF TypeOK, Mail
  <2>2. Merge(entries[m.to], m.entries) \in SUBSET Entry
    BY <2>1, MergeIsTyped DEF TypeOK
  <2>3. Answers(m, Merge(entries[m.to], m.entries)) \in SUBSET Mail
    BY <2>1, <2>2, AnswersAreMail
  <2> QED
    BY <1>7, <2>1, <2>2, <2>3 DEF TypeOK, ShareArrives
<1>8. ASSUME NEW m \in mail, AnswerArrives(m) PROVE TypeOK'
  <2>1. m \in Mail /\ m.to \in Dir /\ m.entries \in SUBSET Entry
    BY DEF TypeOK, Mail
  <2>2. Merge(entries[m.to], m.entries) \in SUBSET Entry
    BY <2>1, MergeIsTyped DEF TypeOK
  <2> QED
    BY <1>8, <2>1, <2>2 DEF TypeOK, AnswerArrives
<1>9. ASSUME NEW m \in mail, AskArrives(m) PROVE TypeOK'
  <2>1. m.to \in Dir /\ m.from \in Dir
    BY DEF TypeOK, Mail
  <2>2. Letter("told", m.to, m.from, TRUE, {}) \in Mail
    BY <2>1, LetterIsMail
  <2> QED
    BY <1>9, <2>2 DEF TypeOK, AskArrives
<1>10. ASSUME NEW m \in mail, ToldArrives(m) PROVE TypeOK'
  BY <1>10 DEF TypeOK, ToldArrives, Mail
<1>11. CASE \E m \in mail : Lose(m)
  BY <1>11 DEF TypeOK, Lose
<1>12. CASE \E d \in Dir : \E address \in stale[d] : Hears(d, address)
  BY <1>12 DEF TypeOK, Hears
<1>13. CASE UNCHANGED vars
  BY <1>13 DEF TypeOK, vars
<1> QED
  BY <1>1, <1>2, <1>3, <1>4, <1>5, <1>6, <1>7, <1>8, <1>9, <1>10, <1>11, <1>12, <1>13
  DEF Next, MailArrives

\* Types are kept, whoever registers, shares and loses what.
THEOREM TypeCorrect == Spec => []TypeOK
<1>1. Init => TypeOK
  BY DirAssumption DEF Init, TypeOK
<1> QED
  BY <1>1, TypeStep, PTL DEF Spec

(***************************************************************************)
(* Local entries.  A share is made only by a directory without any, and an *)
(* answer leaves them out, so no message ever has one.                     *)
(***************************************************************************)

LEMMA LocalStep == TypeOK /\ LocalEntriesStay /\ [Next]_vars => LocalEntriesStay'
<1> SUFFICES ASSUME TypeOK, LocalEntriesStay, [Next]_vars PROVE LocalEntriesStay'
  OBVIOUS
<1> USE DEF LocalEntriesStay
<1>1. CASE \E a \in Agent : Die(a)
  BY <1>1 DEF Die
<1>2. ASSUME NEW a \in Agent, NEW v \in Offers[a], Register(a, v) PROVE LocalEntriesStay'
  BY <1>2 DEF TypeOK, Register, Merge
<1>3. ASSUME NEW a \in Agent, NEW e \in entries[Home[a]], UnregisterEntry(a, e)
      PROVE LocalEntriesStay'
  BY <1>3 DEF TypeOK, UnregisterEntry
<1>4. ASSUME NEW d \in Dir, NEW address \in Address, UnregisterAddr(d, address)
      PROVE LocalEntriesStay'
  BY <1>4 DEF TypeOK, UnregisterAddr
<1>5. ASSUME NEW d \in Dir, EnsureNetwork(d) PROVE LocalEntriesStay'
  <2>1. \A m \in Share(d) : \A e \in m.entries : e.vnets # NoVnets
    BY <1>5 DEF EnsureNetwork, CanShare, Share, Letter
  <2>2. \A m \in ShareByNet(d) : m.entries = {}
    BY DEF ShareByNet, Letter
  <2> QED
    BY <1>5, <2>1, <2>2 DEF EnsureNetwork
<1>6. ASSUME NEW d \in Dir, Heartbeat(d) PROVE LocalEntriesStay'
  BY <1>6 DEF TypeOK, Heartbeat
<1>7. ASSUME NEW m \in mail, ShareArrives(m) PROVE LocalEntriesStay'
  <2> DEFINE known == Merge(entries[m.to], m.entries)
  <2>1. \A e \in known : e.vnets = NoVnets => Home[e.agent] = m.to
    BY DEF TypeOK, Mail, Merge
  <2>2. \A d \in Dir : \A e \in entries'[d] : e.vnets = NoVnets => Home[e.agent] = d
    BY <1>7, <2>1 DEF TypeOK, ShareArrives
  <2>3. \A n \in Answers(m, known) : \A e \in n.entries : e.vnets # NoVnets
    <3> HIDE DEF known
    <3> QED
      BY DEF Answers, NetEntries, Letter
  <2> QED
    BY <1>7, <2>2, <2>3 DEF ShareArrives
<1>8. ASSUME NEW m \in mail, AnswerArrives(m) PROVE LocalEntriesStay'
  BY <1>8 DEF TypeOK, Mail, AnswerArrives, Merge
<1>9. ASSUME NEW m \in mail, AskArrives(m) PROVE LocalEntriesStay'
  BY <1>9 DEF AskArrives, Letter
<1>10. ASSUME NEW m \in mail, ToldArrives(m) PROVE LocalEntriesStay'
  BY <1>10 DEF ToldArrives
<1>11. CASE \E m \in mail : Lose(m)
  BY <1>11 DEF Lose
<1>12. CASE \E d \in Dir : \E address \in stale[d] : Hears(d, address)
  BY <1>12 DEF Hears
<1>13. CASE UNCHANGED vars
  BY <1>13 DEF vars
<1> QED
  BY <1>1, <1>2, <1>3, <1>4, <1>5, <1>6, <1>7, <1>8, <1>9, <1>10, <1>11, <1>12, <1>13
  DEF Next, MailArrives

\* An entry without vnets is known to the directory it was registered with only.
THEOREM LocalEntriesAreKept == Spec => []LocalEntriesStay
<1>1. Init => LocalEntriesStay
  BY DEF Init, LocalEntriesStay
<1> QED
  BY <1>1, LocalStep, TypeCorrect, PTL DEF Spec

(***************************************************************************)
(* Addresses.  That an address without a network part means the same to    *)
(* the receiver as to the sender needs that what does not travel over the  *)
(* network stays on the machine, and that what does is either rewritten or *)
(* empty.                                                                  *)
(***************************************************************************)

MailStaysOnMachine == \A m \in mail : ~m.byNet => Machine[m.from] = Machine[m.to]

AddressInv == EntriesAreReachable /\ MailStaysOnMachine

LEMMA AddressStep == TypeOK /\ AddressInv /\ [Next]_vars => AddressInv'
<1> SUFFICES ASSUME TypeOK, AddressInv, [Next]_vars PROVE AddressInv'
  OBVIOUS
<1> USE DEF AddressInv, EntriesAreReachable, MailStaysOnMachine
<1>1. CASE \E a \in Agent : Die(a)
  BY <1>1 DEF Die
<1>2. ASSUME NEW a \in Agent, NEW v \in Offers[a], Register(a, v) PROVE AddressInv'
  BY <1>2 DEF TypeOK, Register, Merge, ReachableFrom
<1>3. ASSUME NEW a \in Agent, NEW e \in entries[Home[a]], UnregisterEntry(a, e)
      PROVE AddressInv'
  BY <1>3 DEF TypeOK, UnregisterEntry
<1>4. ASSUME NEW d \in Dir, NEW address \in Address, UnregisterAddr(d, address)
      PROVE AddressInv'
  BY <1>4 DEF TypeOK, UnregisterAddr
<1>5. ASSUME NEW d \in Dir, EnsureNetwork(d) PROVE AddressInv'
  <2>1. \A m \in Share(d) :
          /\ m.from = d /\ ~m.byNet /\ Machine[m.to] = Machine[d]
          /\ m.entries \subseteq entries[d]
    BY HubAssumption DEF Share, Letter
  <2>2. \A m \in ShareByNet(d) : m.byNet /\ m.entries = {}
    BY DEF ShareByNet, Letter
  <2> QED
    BY <1>5, <2>1, <2>2 DEF EnsureNetwork
<1>6. ASSUME NEW d \in Dir, Heartbeat(d) PROVE AddressInv'
  BY <1>6 DEF TypeOK, Heartbeat
<1>7. ASSUME NEW m \in mail, ShareArrives(m) PROVE AddressInv'
  <2> DEFINE known == Merge(entries[m.to], m.entries)
  <2>1. m.to \in Dir
    BY DEF TypeOK, Mail
  <2>2. \A e \in known : ReachableFrom(e, Machine[m.to])
    BY <2>1 DEF Merge
  <2>3. \A d \in Dir : \A e \in entries'[d] : ReachableFrom(e, Machine[d])
    BY <1>7, <2>1, <2>2 DEF TypeOK, ShareArrives
  <2>4. \A e \in NetEntries(m.to, known) : ReachableFrom(e, Machine[m.from])
    <3>1. m.to # None
      BY <2>1, DirAssumption
    <3> HIDE DEF known
    <3> QED
      BY <2>2, <3>1 DEF NetEntries, ReachableFrom
  <2>5. ~m.byNet => \A e \in known : ReachableFrom(e, Machine[m.from])
    BY <2>2
  <2>6. ASSUME NEW n \in Answers(m, known)
        PROVE  /\ \A e \in n.entries : ReachableFrom(e, Machine[n.to])
               /\ ~n.byNet => Machine[n.from] = Machine[n.to]
    <3> HIDE DEF known
    <3>1. /\ n.from = m.to /\ n.to = m.from
          /\ \/ m.byNet /\ n.byNet /\ n.entries = NetEntries(m.to, known)
             \/ ~m.byNet /\ ~n.byNet /\ n.entries = {e \in known : e.vnets # NoVnets}
      BY <2>6, AnswerContents
    <3> QED
      BY <2>4, <2>5, <3>1
  <2> QED
    BY <1>7, <2>3, <2>6 DEF ShareArrives
<1>8. ASSUME NEW m \in mail, AnswerArrives(m) PROVE AddressInv'
  BY <1>8 DEF TypeOK, Mail, AnswerArrives, Merge
<1>9. ASSUME NEW m \in mail, AskArrives(m) PROVE AddressInv'
  BY <1>9 DEF AskArrives, Letter
<1>10. ASSUME NEW m \in mail, ToldArrives(m) PROVE AddressInv'
  BY <1>10 DEF ToldArrives
<1>11. CASE \E m \in mail : Lose(m)
  BY <1>11 DEF Lose
<1>12. CASE \E d \in Dir : \E address \in stale[d] : Hears(d, address)
  BY <1>12 DEF Hears
<1>13. CASE UNCHANGED vars
  BY <1>13 DEF vars
<1> QED
  BY <1>1, <1>2, <1>3, <1>4, <1>5, <1>6, <1>7, <1>8, <1>9, <1>10, <1>11, <1>12, <1>13
  DEF Next, MailArrives

\* Every entry leads to the agent that registered it, at whatever directory and in
\* whatever message it is.
THEOREM AddressesAreGood == Spec => []EntriesAreReachable
<1>1. Init => AddressInv
  BY DEF Init, AddressInv, EntriesAreReachable, MailStaysOnMachine
<1>2. AddressInv => EntriesAreReachable
  BY DEF AddressInv
<1> QED
  BY <1>1, <1>2, AddressStep, TypeCorrect, PTL DEF Spec

(***************************************************************************)
(* One entry per address.  An answer over the network gives entries new    *)
(* addresses, which differ because the entries had the same network part.  *)
(***************************************************************************)

Unique(es) == \A e, f \in es : AddressOf(e) = AddressOf(f) => e = f

UniqueInv == OneEntryPerAddress /\ \A m \in mail : Unique(m.entries)

LEMMA MergeIsUnique ==
    ASSUME NEW known, NEW new, Unique(known), Unique(new) PROVE Unique(Merge(known, new))
BY DEF Merge, Unique

LEMMA NetEntriesAreUnique ==
    ASSUME NEW d, NEW known \in SUBSET Entry, Unique(known) PROVE Unique(NetEntries(d, known))
<1> SUFFICES ASSUME NEW e \in known, NEW f \in known, e.net = None, f.net = None,
                    e.agent = f.agent
             PROVE  e = f
  BY DEF Unique, NetEntries, AddressOf
<1> QED
  BY DEF Unique, AddressOf

LEMMA UniqueStep == TypeOK /\ UniqueInv /\ [Next]_vars => UniqueInv'
<1> SUFFICES ASSUME TypeOK, UniqueInv, [Next]_vars PROVE UniqueInv'
  OBVIOUS
<1>a. /\ \A d \in Dir : Unique(entries[d])
      /\ \A m \in mail : Unique(m.entries)
  BY DEF UniqueInv, OneEntryPerAddress, Unique
<1>b. ASSUME \A d \in Dir : Unique(entries'[d]), \A m \in mail' : Unique(m.entries)
      PROVE  UniqueInv'
  BY <1>b DEF UniqueInv, OneEntryPerAddress, Unique
<1>c. \A es, fs : Unique(es) /\ fs \subseteq es => Unique(fs)
  BY DEF Unique
<1>d. Unique({})
  BY DEF Unique
<1>1. CASE \E a \in Agent : Die(a)
  BY <1>1, <1>a, <1>b DEF Die
<1>2. ASSUME NEW a \in Agent, NEW v \in Offers[a], Register(a, v) PROVE UniqueInv'
  <2>1. Unique({[agent |-> a, net |-> None, vnets |-> v]})
    BY DEF Unique
  <2>2. Home[a] \in Dir
    BY DirAssumption
  <2>3. Unique(Merge(entries[Home[a]], {[agent |-> a, net |-> None, vnets |-> v]}))
    BY <1>a, <2>1, <2>2, MergeIsUnique
  <2> QED
    BY <1>2, <1>a, <1>b, <2>3 DEF TypeOK, Register
<1>3. ASSUME NEW a \in Agent, NEW e \in entries[Home[a]], UnregisterEntry(a, e)
      PROVE UniqueInv'
  <2>1. \A d \in Dir : entries'[d] \subseteq entries[d]
    BY <1>3 DEF TypeOK, UnregisterEntry
  <2> QED
    BY <1>3, <2>1, <1>a, <1>b, <1>c DEF UnregisterEntry
<1>4. ASSUME NEW d \in Dir, NEW address \in Address, UnregisterAddr(d, address)
      PROVE UniqueInv'
  <2>1. \A c \in Dir : entries'[c] \subseteq entries[c]
    BY <1>4 DEF TypeOK, UnregisterAddr
  <2> QED
    BY <1>4, <2>1, <1>a, <1>b, <1>c DEF UnregisterAddr
<1>5. ASSUME NEW d \in Dir, EnsureNetwork(d) PROVE UniqueInv'
  <2>1. \A m \in Share(d) : m.entries \subseteq entries[d]
    BY DEF Share, Letter
  <2>2. \A m \in ShareByNet(d) : m.entries = {}
    BY DEF ShareByNet, Letter
  <2> QED
    BY <1>5, <2>1, <2>2, <1>a, <1>b, <1>c, <1>d DEF EnsureNetwork
<1>6. ASSUME NEW d \in Dir, Heartbeat(d) PROVE UniqueInv'
  <2>1. \A c \in Dir : entries'[c] \subseteq entries[c]
    BY <1>6 DEF TypeOK, Heartbeat
  <2> QED
    BY <1>6, <2>1, <1>a, <1>b, <1>c DEF Heartbeat
<1>7. ASSUME NEW m \in mail, ShareArrives(m) PROVE UniqueInv'
  <2> DEFINE known == Merge(entries[m.to], m.entries)
  <2>1. m.to \in Dir /\ m.entries \in SUBSET Entry /\ entries[m.to] \in SUBSET Entry
    BY DEF TypeOK, Mail
  <2>2. known \in SUBSET Entry /\ Unique(known)
    BY <2>1, <1>a, MergeIsTyped, MergeIsUnique
  <2>3. \A d \in Dir : Unique(entries'[d])
    BY <1>7, <2>2, <1>a DEF TypeOK, ShareArrives
  <2>4. Unique(NetEntries(m.to, known)) /\ Unique({e \in known : e.vnets # NoVnets})
    BY <2>2, <1>c, NetEntriesAreUnique
  <2>5. ASSUME NEW n \in Answers(m, known) PROVE Unique(n.entries)
    <3> HIDE DEF known
    <3>1. \/ n.entries = NetEntries(m.to, known)
          \/ n.entries = {e \in known : e.vnets # NoVnets}
      BY <2>5, AnswerContents
    <3> QED
      BY <2>4, <3>1
  <2> QED
    BY <1>7, <1>a, <1>b, <2>3, <2>5 DEF ShareArrives
<1>8. ASSUME NEW m \in mail, AnswerArrives(m) PROVE UniqueInv'
  <2>1. m.to \in Dir
    BY DEF TypeOK, Mail
  <2>2. Unique(Merge(entries[m.to], m.entries))
    BY <2>1, <1>a, MergeIsUnique
  <2> QED
    BY <1>8, <2>2, <1>a, <1>b DEF TypeOK, AnswerArrives
<1>9. ASSUME NEW m \in mail, AskArrives(m) PROVE UniqueInv'
  BY <1>9, <1>a, <1>b, <1>d DEF AskArrives, Letter
<1>10. ASSUME NEW m \in mail, ToldArrives(m) PROVE UniqueInv'
  BY <1>10, <1>a, <1>b DEF ToldArrives
<1>11. CASE \E m \in mail : Lose(m)
  BY <1>11, <1>a, <1>b DEF Lose
<1>12. CASE \E d \in Dir : \E address \in stale[d] : Hears(d, address)
  BY <1>12, <1>a, <1>b DEF Hears
<1>13. CASE UNCHANGED vars
  BY <1>13, <1>a, <1>b DEF vars
<1> QED
  BY <1>1, <1>2, <1>3, <1>4, <1>5, <1>6, <1>7, <1>8, <1>9, <1>10, <1>11, <1>12, <1>13
  DEF Next, MailArrives

\* A directory has at most one entry for an address, whatever is under way.
THEOREM AddressesAreUnique == Spec => []OneEntryPerAddress
<1>1. Init => UniqueInv
  BY DEF Init, UniqueInv, OneEntryPerAddress
<1>2. UniqueInv => OneEntryPerAddress
  BY DEF UniqueInv
<1> QED
  BY <1>1, <1>2, UniqueStep, TypeCorrect, PTL DEF Spec

=============================================================================
