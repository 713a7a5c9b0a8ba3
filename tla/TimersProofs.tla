---------------------------- MODULE TimersProofs ----------------------------
(***************************************************************************)
(* The timer loop never oversleeps and takes timers in their order, for    *)
(* any functions, any length of time and any number of them.               *)
(*                                                                         *)
(* Both rest on what _nextTime is while the loop sleeps: no later than any *)
(* time in _timerFnsByTime.  The loop makes it so, scheduleFn keeps it so, *)
(* and unscheduleFn only takes times away.  The timeout is then no longer  *)
(* than to _nextTime, as long as the loop has not been woken: scheduleFn   *)
(* lowers _nextTime and sets the event in one step.                        *)
(***************************************************************************)
EXTENDS TimersProperties, SequenceTheorems, WellFoundedInduction, TLAPS

\* while the loop sleeps, _nextTime is no later than any timer
NextIsEarliest ==
    pc = "waiting" => \A t \in Due(timers) : nextTime # Never /\ nextTime <= t

\* and unless it has been woken, it sleeps no longer than that
WaitIsShort ==
    Asleep /\ sets = 0 /\ nextTime # Never =>
        wait # Never /\ (wait = 0 \/ now + wait <= nextTime)

SleepInv == TypeOK /\ NextIsEarliest /\ WaitIsShort

----------------------------------------------------------------------------

LEMMA NeverIsNoTime == Never \notin Time /\ Time \subseteq Nat /\ Never \in Int
  BY BoundsAssumption DEF Never, Time

\* RemoveFirst returns a sequence of the same functions.
LEMMA RemoveFirstType ==
    ASSUME NEW s \in Seq(Fn), NEW f PROVE RemoveFirst(s, f) \in Seq(Fn)
  <1>1. CASE \E i \in 1..Len(s) : s[i] = f
    <2> DEFINE I == {i \in 1..Len(s) : s[i] = f}
               i == SelectInSeq(s, LAMBDA v : v = f)
    <2> HIDE DEF i
    <2>1. I \in SUBSET Nat /\ I # {}
      BY <1>1
    <2>2. \E n \in I : \A k \in I : n <= k
      <3> DEFINE Less == OpToRel(<, Nat)
      <3>1. IsWellFoundedOn(Less, Nat)
        BY NatLessThanWellFounded
      <3>2. \A k, n \in Nat : k < n => <<k, n>> \in Less
        BY DEF OpToRel
      <3> HIDE DEF Less
      <3>3. \E n \in I : \A k \in I : <<k, n>> \notin Less
        BY <2>1, <3>1, WFMin
      <3>4. PICK n \in I : \A k \in I : <<k, n>> \notin Less
        BY <3>3
      <3>5. \A k \in I : ~(k < n)
        BY <2>1, <3>2, <3>4
      <3>6. \A k \in I : n <= k
        BY <2>1, <3>5
      <3>. QED
        BY <3>6
    <2>3. i \in 1..Len(s)
      BY <2>1, <2>2 DEF i, SelectInSeq, Min
    <2>4. \A k \in 1..(i - 1) : s[k] \in Fn
      BY <2>3, LenProperties, ElementOfSeq
    <2>5. \A k \in (i + 1)..Len(s) : s[k] \in Fn
      BY <2>3, LenProperties, ElementOfSeq
    <2>6. SubSeq(s, 1, i - 1) \in Seq(Fn)
      BY <2>3, <2>4, SubSeqProperties, i - 1 \in Int
    <2>7. SubSeq(s, i + 1, Len(s)) \in Seq(Fn)
      BY <2>3, <2>5, SubSeqProperties
    <2>8. RemoveFirst(s, f) = SubSeq(s, 1, i - 1) \o SubSeq(s, i + 1, Len(s))
      BY <1>1 DEF i, RemoveFirst, RemoveAt
    <2>. QED
      BY <2>6, <2>7, <2>8, ConcatProperties
  <1>2. CASE ~\E i \in 1..Len(s) : s[i] = f
    BY <1>2 DEF RemoveFirst
  <1>. QED
    BY <1>1, <1>2

\* Nothing is removed from a time at which nothing is due.
LEMMA RemoveFirstEmpty == ASSUME NEW f PROVE RemoveFirst(<<>>, f) = <<>>
  BY DEF RemoveFirst

\* A timeout ends no later than the time it is for.
LEMMA TimeoutIsShort ==
    ASSUME now \in Time, NEW t \in Time
    PROVE  /\ Timeout(t) \in Time
           /\ Timeout(t) = 0 \/ now + Timeout(t) <= t
  BY BoundsAssumption DEF Time, Timeout

\* The top of the loop restores what is promised of its sleep.
LEMMA EnterSleeps ==
    ASSUME TypeOK, NEW ts \in [Time -> Seq(Fn)], Enter(ts),
           Due(timers') = Due(ts), now' = now
    PROVE  /\ nextTime' \in Time \cup {Never} /\ wait' \in Time \cup {Never}
           /\ batch' \in Seq(Fn) /\ pc' = "waiting"
           /\ NextIsEarliest' /\ WaitIsShort'
  <1>. USE NeverIsNoTime
  <1>1. CASE Due(ts) = {}
    BY <1>1 DEF Enter, NextIsEarliest, WaitIsShort
  <1>2. CASE Due(ts) # {}
    <2>1. nextTime' \in Due(ts) /\ \A u \in Due(ts) : nextTime' <= u
      BY <1>2 DEF Enter
    <2>2. nextTime' \in Time /\ now \in Time
      BY <2>1 DEF Due, TypeOK
    <2>3. wait' \in Time /\ (wait' = 0 \/ now + wait' <= nextTime')
      BY <1>2, <2>2, TimeoutIsShort DEF Enter
    <2>4. NextIsEarliest' /\ WaitIsShort'
      BY <2>1, <2>2, <2>3 DEF NextIsEarliest, WaitIsShort
    <2>. QED
      BY <2>2, <2>3, <2>4 DEF Enter
  <1>. QED
    BY <1>1, <1>2

LEMMA SleepInit == Init => SleepInv
  BY BoundsAssumption
  DEF Init, SleepInv, TypeOK, NextIsEarliest, WaitIsShort, Asleep, Time, Never

\* scheduleFn: _nextTime falls to the new time, and then the event is set.
LEMMA ScheduleKeepsSleep ==
    ASSUME SleepInv, NEW f \in Fn, NEW t \in Time, Schedule(f, t) PROVE SleepInv'
  <1>. USE NeverIsNoTime DEF SleepInv
  <1>1. timers' \in [Time -> Seq(Fn)]
    <2>1. Append(timers[t], f) \in Seq(Fn)
      BY AppendProperties DEF TypeOK
    <2>. QED
      BY <2>1 DEF Schedule, Insert, TypeOK
  <1>2. Due(timers') \subseteq Due(timers) \cup {t}
    BY DEF Schedule, Insert, TypeOK, Due
  <1>3. TypeOK'
    BY <1>1 DEF Schedule, Insert, clock, loop, TypeOK
  <1>4. NextIsEarliest'
    <2>. SUFFICES ASSUME pc = "waiting", NEW u \in Due(timers')
         PROVE  nextTime' # Never /\ nextTime' <= u
      BY DEF Schedule, Insert, loop, NextIsEarliest
    <2>1. u \in Due(timers) => nextTime # Never /\ nextTime <= u
      BY DEF NextIsEarliest
    <2>2. u \in Time
      BY DEF Due
    <2>3. nextTime' = IF nextTime = Never \/ t < nextTime THEN t ELSE nextTime
      BY DEF Schedule
    <2>. QED
      BY <1>2, <2>1, <2>2, <2>3 DEF TypeOK
  <1>5. WaitIsShort'
    BY DEF Schedule, Insert, clock, loop, WaitIsShort, Asleep
  <1>. QED
    BY <1>3, <1>4, <1>5

\* unscheduleFn and unscheduleFnAt: there are fewer times.
LEMMA UnscheduleKeepsSleep ==
    ASSUME SleepInv, NEW f \in Fn,
           Unschedule(f) \/ \E t \in Time : UnscheduleAt(f, t)
    PROVE  SleepInv'
  <1>. USE DEF SleepInv
  <1>1. \A u \in Time : RemoveFirst(timers[u], f) \in Seq(Fn)
    BY RemoveFirstType DEF TypeOK
  <1>2. timers' \in [Time -> Seq(Fn)]
    BY <1>1 DEF Unschedule, UnscheduleAt, TypeOK
  <1>3. Due(timers') \subseteq Due(timers)
    BY RemoveFirstEmpty DEF Unschedule, UnscheduleAt, Due, TypeOK
  <1>4. UNCHANGED <<clock, nextTime, events, loop>>
    BY DEF Unschedule, UnscheduleAt
  <1>5. TypeOK'
    BY <1>2, <1>4 DEF clock, events, loop, TypeOK
  <1>. QED
    BY <1>3, <1>4, <1>5 DEF clock, events, loop, NextIsEarliest, WaitIsShort, Asleep

LEMMA ClientKeepsSleep == ASSUME SleepInv, Client PROVE SleepInv'
  <1>1. CASE Shutdown
    BY <1>1 DEF Shutdown, clock, loop, SleepInv, TypeOK, NextIsEarliest, WaitIsShort, Asleep
  <1>. QED
    BY <1>1, ScheduleKeepsSleep, UnscheduleKeepsSleep DEF Client

\* Time takes the timeout along, and a clock that is set is excepted.
LEMMA ClockKeepsSleep == ASSUME SleepInv, Clock PROVE SleepInv'
  <1>. USE DEF SleepInv
  <1>1. CASE Tick
    <2>1. now' \in Time /\ wait' \in Time \cup {Never}
      BY <1>1, BoundsAssumption DEF Tick, TypeOK, Time, Never
    <2>2. TypeOK'
      BY <1>1, <2>1 DEF Tick, events, TypeOK
    <2>3. NextIsEarliest'
      BY <1>1 DEF Tick, NextIsEarliest
    <2>4. WaitIsShort'
      BY <1>1, BoundsAssumption
      DEF Tick, events, WaitIsShort, Asleep, TypeOK, Time, Never
    <2>. QED
      BY <2>2, <2>3, <2>4
  <1>2. ASSUME NEW t \in Time, SetClock(t) PROVE SleepInv'
    <2>1. sets' \in 0..MaxSets /\ sets' # 0
      BY <1>2, BoundsAssumption DEF SetClock, TypeOK
    <2>2. TypeOK'
      BY <1>2, <2>1 DEF SetClock, events, loop, TypeOK
    <2>3. NextIsEarliest'
      BY <1>2 DEF SetClock, loop, NextIsEarliest
    <2>. QED
      BY <2>1, <2>2, <2>3 DEF WaitIsShort
  <1>. QED
    BY <1>1, <1>2 DEF Clock

\* Every round ends in until() with the timers as they are, or in functions
\* that run, or for good.
LEMMA LoopKeepsSleep == ASSUME SleepInv, Loop PROVE SleepInv'
  <1>. USE DEF SleepInv
  <1>1. CASE Start
    BY <1>1, EnterSleeps DEF Start, clock, events, TypeOK
  <1>2. CASE Stop
    BY <1>2 DEF Stop, clock, events, TypeOK, NextIsEarliest, WaitIsShort, Asleep
  <1>3. CASE WakeAgain
    BY <1>3, EnterSleeps DEF WakeAgain, Rearm, clock, TypeOK
  <1>4. CASE WakeAndRun
    <2>1. nextTime \in Time
      BY <1>4 DEF WakeAndRun, Expired, TypeOK
    <2>2. timers' \in [Time -> Seq(Fn)]
      <3>1. <<>> \in Seq(Fn)
        BY EmptySeq
      <3>. QED
        BY <1>4, <3>1 DEF WakeAndRun, TypeOK
    <2>3. now' = now /\ sets' = sets /\ changed' \in BOOLEAN /\ changedSeen' = FALSE
          /\ UNCHANGED <<shuttingDown, shutdownSeen>>
      BY <1>4 DEF WakeAndRun, Rearm, clock, TypeOK
    <2>4. CASE timers[nextTime] = <<>>
      <3>1. Due(timers') = Due(timers)
        BY <1>4, <2>1, <2>4 DEF WakeAndRun, Due, TypeOK
      <3>2. Enter(timers) /\ timers \in [Time -> Seq(Fn)]
        BY <1>4, <2>4 DEF WakeAndRun, TypeOK
      <3>. QED
        BY <2>2, <2>3, <3>1, <3>2, EnterSleeps DEF TypeOK
    <2>5. CASE timers[nextTime] # <<>>
      <3>1. pc' = "running" /\ batch' = timers[nextTime] /\ UNCHANGED <<nextTime, wait>>
        BY <1>4, <2>5 DEF WakeAndRun
      <3>2. batch' \in Seq(Fn)
        BY <2>1, <3>1 DEF TypeOK
      <3>. QED
        BY <2>2, <2>3, <3>1, <3>2 DEF TypeOK, NextIsEarliest, WaitIsShort, Asleep
    <2>. QED
      BY <2>4, <2>5
  <1>5. CASE FnEnds
    <2>1. CASE Len(batch) > 1
      <3>1. Tail(batch) \in Seq(Fn)
        BY <2>1, HeadTailProperties DEF TypeOK
      <3>. QED
        BY <1>5, <2>1, <3>1
        DEF FnEnds, clock, events, TypeOK, NextIsEarliest, WaitIsShort, Asleep
    <2>2. CASE ~(Len(batch) > 1)
      BY <1>5, <2>2, EnterSleeps DEF FnEnds, clock, events, TypeOK
    <2>. QED
      BY <2>1, <2>2
  <1>. QED
    BY <1>1, <1>2, <1>3, <1>4, <1>5 DEF Loop

LEMMA SleepStep == SleepInv /\ [Next]_vars => SleepInv'
  <1>. SUFFICES ASSUME SleepInv, [Next]_vars PROVE SleepInv'
    OBVIOUS
  <1>1. CASE ChangedEnds \/ ShutdownEnds
    BY <1>1
    DEF ChangedEnds, ShutdownEnds, clock, loop, SleepInv, TypeOK,
        NextIsEarliest, WaitIsShort, Asleep
  <1>2. CASE UNCHANGED vars
    BY <1>2 DEF vars, SleepInv, TypeOK, NextIsEarliest, WaitIsShort, Asleep, Due
  <1>. QED
    BY <1>1, <1>2, ClientKeepsSleep, ClockKeepsSleep, LoopKeepsSleep DEF Next

\* The inductive invariant: types, _nextTime while the loop sleeps, and its
\* timeout (Router._timerLoop).
THEOREM SleepInvariant == Spec => []SleepInv
  BY SleepInit, SleepStep, PTL DEF Spec

\* The variables of the timer loop and of its clients keep their types; the
\* timeout in particular is never negative.
THEOREM TimersTyped == Spec => []TypeOK
  <1>1. SleepInv => TypeOK
    BY DEF SleepInv
  <1>. QED
    BY <1>1, SleepInvariant, PTL

\* The loop never oversleeps: unless the wall clock is set, its timeout ends no
\* later than any function is due (Router.scheduleFn wakes it where it must).
THEOREM LoopWakesInTime == Spec => []WakesInTime
  <1>1. SleepInv => WakesInTime
    <2>. SUFFICES ASSUME SleepInv, Asleep, sets = 0, NEW t \in Due(timers)
         PROVE  wait # Never /\ (wait = 0 \/ now + wait <= t)
      BY DEF WakesInTime
    <2>1. nextTime # Never /\ nextTime <= t
      BY DEF SleepInv, NextIsEarliest, Asleep
    <2>2. wait # Never /\ (wait = 0 \/ now + wait <= nextTime)
      BY <2>1 DEF SleepInv, WaitIsShort
    <2>3. now \in Nat /\ nextTime \in Nat /\ t \in Nat /\ wait \in Int
      BY <2>1, NeverIsNoTime DEF SleepInv, TypeOK, Due
    <2>. QED
      BY <2>1, <2>2, <2>3
  <1>. QED
    BY <1>1, SleepInvariant, PTL

\* What the loop takes is the earliest there is (the pop of _nextTime in
\* Router._timerLoop), whatever has been done to the timers as it slept.
THEOREM LoopTakesEarliest == Spec => EarliestFirst
  <1>1. SleepInv /\ [Next]_vars => [WakeAndRun => \A t \in Due(timers) : nextTime <= t]_vars
    BY DEF SleepInv, NextIsEarliest, WakeAndRun, Awake
  <1>. QED
    BY <1>1, SleepInvariant, PTL DEF Spec, EarliestFirst

=============================================================================
