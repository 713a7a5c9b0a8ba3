\* a client that sends once and an agent that it can shut down
SPECIFICATION FairSpec
CONSTANTS
    a = a
    b = b
    Conn = {a, b}
    AppSubjects <- MCAppSubjects
    Fn <- ClientAndAgent
    Callers = {a}
    MaxSends = 1
    Missing = Missing
    Nobody = Nobody
PROPERTIES ShutdownReleasesCalls NoiseDiesOut EveryCallIsAnswered
CHECK_DEADLOCK FALSE
