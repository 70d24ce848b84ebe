CONSTANTS
    f1 = f1
    f2 = f2
    f3 = f3
    NoFile = NoFile
    Files <- MCFiles
    Slots <- MCSlots
    Slot <- MCSlot
    BatchSize = 2
    InitialCounts <- MCInitialCounts
    MaxRounds = 2
    MaxEdits = 2
    MaxAtOnce = 2
SPECIFICATION FairSyncSpec
INVARIANTS ListsMatchAndroid NotEarly LinksMatch
PROPERTIES RoundTold
CHECK_DEADLOCK FALSE
