\* a client and a directory, which ignores no reply
SPECIFICATION FairSpec
CONSTANTS
    a = a
    b = b
    Conn = {a, b}
    AppSubjects <- MCAppSubjects
    Fn <- ClientAndDirectory
    Callers = {a}
    MaxSends = 1
    Missing = Missing
    Nobody = Nobody
PROPERTY NoiseDiesOut
CHECK_DEADLOCK FALSE
