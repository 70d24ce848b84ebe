CONSTANTS
    c1 = c1
    c2 = c2
    None = None
    Clients <- MCClients
    ClientRates = {8, 48}
    DeviceRates = {44, 48}
    TryTimes = 1
    MaxFlips = 3
SPECIFICATION Spec
INVARIANTS GivesUp
CHECK_DEADLOCK FALSE
