CONSTANTS
    p1 = p1
    p2 = p2
    p3 = p3
    None = None
    Processes <- MCProcesses
    Daemons <- MCDaemons
    MaxStops = 1
    MaxKills = 1
SPECIFICATION Spec
INVARIANTS Reachable PathLeadsToHolder ActivationWorks
PROPERTIES ImplementsService StoppedEnds
CHECK_DEADLOCK FALSE
