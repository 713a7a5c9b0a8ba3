\* a client that sends twice and an agent that it can shut down
SPECIFICATION Spec
CONSTANTS
    a = a
    b = b
    Conn = {a, b}
    AppSubjects <- MCAppSubjects
    Fn <- ClientAndAgent
    Callers = {a}
    MaxSends = 2
    Missing = Missing
    Nobody = Nobody
INVARIANTS TypeOK ReplyIsForItsCall EntriesAwaitTheirReply
PROPERTY ImplementsRequestReply
CHECK_DEADLOCK FALSE
