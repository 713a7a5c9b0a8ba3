\* a letter to a connection that the other router does not have
SPECIFICATION FairSpec
CONSTANTS
    MaxSends <- One
    Strays <- FirstOfA
    MaxCrashes = 0
    MaxEvents = 1
PROPERTIES StrayComesBack
CHECK_DEADLOCK FALSE
