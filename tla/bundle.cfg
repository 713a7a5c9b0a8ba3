\* crossing letters, of which the first may be a stray one, or a crash
SPECIFICATION FairSpec
CONSTANTS
    MaxSends <- TwoOne
    Strays <- FirstOfA
    MaxCrashes = 1
    MaxEvents = 3
INVARIANTS TypeOK AtMostOnce RoutesAreUsable
PROPERTIES LettersAreSettled
CHECK_DEADLOCK FALSE
