\* two connections, whose inboxes hold two messages, with clients that never stop sending
SPECIFICATION FairSpec
CONSTANTS
    NConn = 2
    MaxInbox = 2
INVARIANTS TypeOK InboxesAreWatched
PROPERTY NobodyStarves
CHECK_DEADLOCK FALSE
