CONSTANTS
    c1 = c1
    c2 = c2
    None = None
    Clients <- MCClients
    DeviceMayFail = TRUE
    MaxWakes = 2
SPECIFICATION FairSpec
INVARIANTS PathIsOurs AcceptedAreKept
PROPERTIES Served WakeEnds
CHECK_DEADLOCK FALSE
