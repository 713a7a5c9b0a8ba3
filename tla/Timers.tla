------------------------------- MODULE Timers -------------------------------
(***************************************************************************)
(* The timers of a router (_core.py, Router._timerLoop, scheduleFn,        *)
(* unscheduleFn and unscheduleFnAt).                                       *)
(*                                                                         *)
(* Functions are kept by the time they are due at, read off the wall       *)
(* clock.  The loop sleeps in until() for as long as it takes to the       *)
(* earliest of them, by a clock of asyncio's own that nobody sets: the     *)
(* wall clock may be set while it sleeps.  What runs while it sleeps, or   *)
(* awaits a function, changes the timers and the variable _nextTime.       *)
(*                                                                         *)
(* Abstractions: delays are small whole numbers; a function that raises    *)
(* ends like any other; the last cancellations of a loop that has stopped  *)
(* are not seen by anyone.                                                 *)
(***************************************************************************)
EXTENDS Integers, Sequences, SequencesExt

CONSTANTS
    Fn,         \* functions that clients schedule
    MaxTime,    \* bound: the clock stops here
    MaxFns,     \* bound: functions due at one time
    MaxSets     \* bound: how often the wall clock is set

ASSUME BoundsAssumption == MaxTime \in Nat /\ MaxFns \in Nat /\ MaxSets \in Nat

Time == 0..MaxTime
Never == -1     \* a _nextTime that is Missing, a timeout that is None

VARIABLES
    now,            \* datetime.now()
    sets,           \* how often it has been set
    timers,         \* _timerFnsByTime, <<>> where it has no key
    nextTime,       \* _nextTime, which clients lower
    changed,        \* the event _timerListChanged
    changedSeen,    \* the task that waits for it is done
    shuttingDown,   \* the event _isShuttingDown
    shutdownSeen,   \* _isShuttingDownTask is done
    wait,           \* what is left of the timeout of until()
    batch,          \* what is left of fns, the first of which is being awaited
    pc              \* "starting", "waiting" in until(), "running" fns, "stopped"

vars == <<now, sets, timers, nextTime, changed, changedSeen, shuttingDown,
          shutdownSeen, wait, batch, pc>>
clock == <<now, sets>>
events == <<changed, changedSeen, shuttingDown, shutdownSeen>>
loop == <<wait, batch, pc>>

Init ==
    /\ now = 0 /\ sets = 0
    /\ timers = [t \in Time |-> <<>>]
    /\ nextTime = Never
    /\ changed = FALSE /\ changedSeen = FALSE
    /\ shuttingDown = FALSE /\ shutdownSeen = FALSE
    /\ wait = Never /\ batch = <<>>
    /\ pc = "starting"

----------------------------------------------------------------------------
\* Clients, and the functions that run: whenever the loop is suspended

Insert(f, t) ==
    /\ t >= now /\ Len(timers[t]) < MaxFns
    /\ timers' = [timers EXCEPT ![t] = Append(@, f)]
    /\ UNCHANGED <<clock, changedSeen, shuttingDown, shutdownSeen, loop>>

\* faulty: only a first timer wakes the loop
ScheduleFirstOnly(f, t) ==
    /\ Insert(f, t)
    /\ IF nextTime = Never THEN nextTime' = t /\ changed' = TRUE
       ELSE UNCHANGED <<nextTime, changed>>

\* faulty: lowers _nextTime without a word to the loop
ScheduleQuietly(f, t) ==
    /\ Insert(f, t)
    /\ nextTime' = IF nextTime = Never \/ t < nextTime THEN t ELSE nextTime
    /\ changed' = (changed \/ nextTime = Never)

Schedule(f, t) ==
    /\ Insert(f, t)
    /\ IF nextTime = Never \/ t < nextTime
       THEN nextTime' = t /\ changed' = TRUE
       ELSE UNCHANGED <<nextTime, changed>>

\* one occurrence at each time; what is in the batch is not reached
Unschedule(f) ==
    /\ timers' = [t \in Time |-> RemoveFirst(timers[t], f)]
    /\ UNCHANGED <<clock, nextTime, events, loop>>

UnscheduleAt(f, t) ==
    /\ timers' = [timers EXCEPT ![t] = RemoveFirst(@, f)]
    /\ UNCHANGED <<clock, nextTime, events, loop>>

Shutdown ==
    /\ shuttingDown' = TRUE
    /\ UNCHANGED <<clock, timers, nextTime, changed, changedSeen, shutdownSeen, loop>>

----------------------------------------------------------------------------
\* Time passes, and the wall clock is set

Tick ==
    /\ now' = IF now < MaxTime THEN now + 1 ELSE now
    /\ wait' = IF wait > 0 THEN wait - 1 ELSE wait
    /\ UNCHANGED <<sets, timers, nextTime, events, batch, pc>>

SetClock(t) ==
    /\ sets < MaxSets
    /\ now' = t /\ sets' = sets + 1
    /\ UNCHANGED <<timers, nextTime, events, loop>>

----------------------------------------------------------------------------
\* The two tasks of taskList

ChangedEnds ==
    /\ changed /\ changedSeen' = TRUE
    /\ UNCHANGED <<clock, timers, nextTime, changed, shuttingDown, shutdownSeen, loop>>

ShutdownEnds ==
    /\ shuttingDown /\ shutdownSeen' = TRUE
    /\ UNCHANGED <<clock, timers, nextTime, changed, changedSeen, shuttingDown, loop>>

----------------------------------------------------------------------------
\* The timer loop

Due(ts) == {t \in Time : ts[t] # <<>>}

\* faulty: a timeout may be negative
TimeoutUnchecked(t) == t - now

\* faulty: no timeout when functions are due already
TimeoutIfLater(t) == IF t > now THEN t - now ELSE Never

Timeout(t) == IF t > now THEN t - now ELSE 0

\* faulty: what is due already runs without a look at the shutdown
EnterOrRun(ts) ==
    /\ IF Due(ts) = {}
       THEN nextTime' = Never /\ wait' = Never
       ELSE /\ nextTime' \in {t \in Due(ts) : \A u \in Due(ts) : t <= u}
            /\ wait' = Timeout(nextTime')
    /\ IF wait' = 0 THEN pc' = "running" /\ batch' = ts[nextTime']
       ELSE pc' = "waiting" /\ batch' = <<>>

\* the top of the loop, with the timers ts: until() is entered
Enter(ts) ==
    /\ pc' = "waiting" /\ batch' = <<>>
    /\ IF Due(ts) = {}
       THEN nextTime' = Never /\ wait' = Never
       ELSE /\ nextTime' \in {t \in Due(ts) : \A u \in Due(ts) : t <= u}
            /\ wait' = Timeout(nextTime')

Start ==
    /\ pc = "starting"
    /\ Enter(timers)
    /\ UNCHANGED <<clock, timers, events>>

Stop ==
    /\ pc = "waiting" /\ shutdownSeen
    /\ pc' = "stopped"
    /\ UNCHANGED <<clock, timers, nextTime, events, wait, batch>>

Awake == pc = "waiting" /\ ~shutdownSeen /\ (changedSeen \/ wait = 0)

\* the event is cleared and waited for anew
Rearm ==
    /\ changedSeen' = FALSE
    /\ changed' = IF changedSeen THEN FALSE ELSE changed
    /\ UNCHANGED <<clock, shuttingDown, shutdownSeen>>

Expired == nextTime # Never /\ now >= nextTime

\* woken for a change, or too early: look at the timers again
WakeAgain ==
    /\ Awake /\ ~Expired
    /\ Rearm /\ Enter(timers)
    /\ UNCHANGED timers

\* take what is due at _nextTime; it may have been unscheduled since
WakeAndRun ==
    /\ Awake /\ Expired
    /\ Rearm
    /\ timers' = [timers EXCEPT ![nextTime] = <<>>]
    /\ IF timers[nextTime] = <<>>
       THEN Enter(timers)
       ELSE /\ pc' = "running" /\ batch' = timers[nextTime]
            /\ UNCHANGED <<nextTime, wait>>

\* the function awaited has returned or raised
FnEnds ==
    /\ pc = "running"
    /\ IF Len(batch) > 1
       THEN batch' = Tail(batch) /\ UNCHANGED <<nextTime, wait, pc>>
       ELSE Enter(timers)
    /\ UNCHANGED <<clock, timers, events>>

----------------------------------------------------------------------------

Client ==
    \/ Shutdown
    \/ \E f \in Fn : Unschedule(f)
    \/ \E f \in Fn, t \in Time : Schedule(f, t) \/ UnscheduleAt(f, t)
Clock == Tick \/ \E t \in Time : SetClock(t)
Loop == Start \/ Stop \/ WakeAgain \/ WakeAndRun \/ FnEnds

Next == Client \/ Clock \/ ChangedEnds \/ ShutdownEnds \/ Loop

Spec == Init /\ [][Next]_vars

\* Time passes, asyncio runs what is ready, and functions end; clients do as
\* they like and may schedule for ever.
FairSpec ==
    /\ Spec
    /\ WF_vars(Tick) /\ WF_vars(Loop)
    /\ WF_vars(ChangedEnds) /\ WF_vars(ShutdownEnds)

=============================================================================
