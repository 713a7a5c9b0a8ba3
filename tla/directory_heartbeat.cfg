\* an agent dies and is not unregistered
SPECIFICATION FairSpec
CONSTANTS
    hub = hub
    spoke = spoke
    remote = remote
    x = x
    y = y
    local = local
    test = test
    Dir <- Dirs
    Machine <- TwoMachines
    Hubs <- OneHub
    NetHub <- OneNetHub
    Served <- Served1
    Agent = {x, y}
    Home <- Homes
    Offers <- OfferSets
    Vnet = {local, test}
    Local = local
    Heartbeating = {spoke}
    None = None
    Null = Null
    MaxUnregistered = 0
    MaxMail = 1
PROPERTIES DeadEntriesGo
