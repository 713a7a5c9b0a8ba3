\* a function due up to twice at four times, and a wall clock that is set once
SPECIFICATION FairSpec
CONSTANTS
    Fn = {"f"}
    MaxTime = 3
    MaxFns = 2
    MaxSets = 1
INVARIANTS TypeOK WakesInTime
PROPERTIES EarliestFirst EveryTimerRuns ShutdownStopsTimers
