CONSTANTS
    MaxFiles = 3
    LastDevice = 1
    Percents <- MCPercents
    MaxChanges = 1
    MaxReports = 2
    MaxFaults = 1
    MaxStarts = 1
    MaxClients = 2
    MaxPlugs = 1
    MaxSets = 1
SPECIFICATION MCSpec
INVARIANTS BatteryKnown CameraFound OthersFilesKept SelectionKept
PROPERTY ClientsServed
CHECK_DEADLOCK FALSE
