CONSTANTS
    p1 = p1
    q1 = q1
    Gone = Gone
    Paths <- MCPaths
    Media <- MCMedia
    IntMax = 1
    MaxSize = 2
    MaxCreates = 2
    MaxScans = 1
    MaxStops = 1
SPECIFICATION FairSpec
INVARIANTS Kept NotMidWrite OncePerLook
PROPERTIES WorkedOff
CHECK_DEADLOCK FALSE
