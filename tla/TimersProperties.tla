-------------------------- MODULE TimersProperties --------------------------
(***************************************************************************)
(* What the timers of a router promise.                                    *)
(***************************************************************************)
EXTENDS Timers

\* Every variable has its type.
TypeOK ==
    /\ now \in Time /\ sets \in 0..MaxSets
    /\ timers \in [Time -> Seq(Fn)]
    /\ nextTime \in Time \cup {Never}
    /\ changed \in BOOLEAN /\ changedSeen \in BOOLEAN
    /\ shuttingDown \in BOOLEAN /\ shutdownSeen \in BOOLEAN
    /\ wait \in Time \cup {Never}
    /\ batch \in Seq(Fn)
    /\ pc \in {"starting", "waiting", "running", "stopped"}

\* The loop never oversleeps: when it sleeps and nothing has been done to wake
\* it, its timeout ends no later than any function is due (scheduleFn wakes it
\* only for a time before _nextTime, which the loop itself and unscheduleFn
\* leave behind), unless the wall clock has been set.
Asleep == pc = "waiting" /\ ~changed /\ ~changedSeen
WakesInTime ==
    Asleep /\ sets = 0 =>
        \A t \in Due(timers) : wait # Never /\ (wait = 0 \/ now + wait <= t)

\* Functions run in the order of their times, whatever has been scheduled and
\* unscheduled while the loop slept: when it takes those due at one time, none
\* is left for an earlier one.
EarliestFirst ==
    [][WakeAndRun => \A t \in Due(timers) : nextTime <= t]_vars

\* What is scheduled runs or is unscheduled, unless the router shuts down,
\* although other functions schedule themselves again and again, and although
\* the wall clock is set.
EveryTimerRuns ==
    \A t \in Time : t \in Due(timers) ~> (t \notin Due(timers) \/ pc = "stopped")

\* A shutdown stops the loop although functions are always due ("timer already
\* expired, but check for shutdown etc before executing fn").
ShutdownStopsTimers == shuttingDown ~> pc = "stopped"

=============================================================================
