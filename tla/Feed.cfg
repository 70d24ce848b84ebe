CONSTANTS
    c1 = c1
    c2 = c2
    c3 = c3
    d = d
    p = p
    None = None
    Clients <- MCClients
    Values <- MCValues
    Default = d
    FdLimit = 2
SPECIFICATION FairSpec
INVARIANTS LiveClientKept NewestWins
PROPERTIES NoCrash StopsOrWaits
CHECK_DEADLOCK FALSE
