CONSTANTS
    f1 = f1
    f2 = f2
    f3 = f3
    NoFile = NoFile
    Files <- MCFiles
    Slots <- MCSlots
    Slot <- MCSlot
    BatchSize = 2
    InitialCounts = {0}
    MaxRounds = 2
    MaxEdits = 0
    MaxAtOnce = 1
SPECIFICATION SyncSpec
INVARIANTS ToldWhenComplete
CHECK_DEADLOCK FALSE
