CONSTANTS
    NoScreen = NoScreen
    Screens <- MCScreens
    Factors <- MCFactors
    Settings <- MCSettings
    Hosts <- MCHosts
    UseIntelGralloc = TRUE
    UseDrmGralloc = FALSE
    DetectAEP = TRUE
    ConfDensity = 0
    MaxChanges = 1
    MaxFaults = 1
SPECIFICATION MCSpec
INVARIANTS AnswerKept NodesUsable RestartAgrees Published
