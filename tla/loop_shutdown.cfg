\* a message arrives at a connection that closes as the list changes
SPECIFICATION FairSpec
CONSTANTS
    NConn = 2
    MaxInbox = 1
PROPERTY ShutdownCompletes
CHECK_DEADLOCK FALSE
