\* one end sends two messages and the other one
SPECIFICATION FairSpec
CONSTANTS
    m1 = m1
    m2 = m2
    m3 = m3
    Data = {m1, m2, m3}
    Big = {m3}
    MaxSends <- TwoOne
    MaxNesting = 1
    Nothing = Nothing
INVARIANTS TypeOK OneMessageUnderWay
PROPERTIES ImplementsChannel EveryMessageIsTaken BothEndsClose
CHECK_DEADLOCK FALSE
