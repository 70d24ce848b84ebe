CONSTANTS
    d0 = d0
    d1 = d1
    d2 = d2
    d3 = d3
    d4 = d4
    f1 = f1
    NoInode = NoInode
    Dirs <- MCDirs
    Files <- MCFiles
    Names <- MCNames
    Paths <- MCPaths
    InitialTrees <- MCTrees
    Fixed <- MCFixed
    Roots <- MCRoots
    Hidden = {}
    MaxOps = 4
    QueueMax = 8
    MaxWatches = 8
SPECIFICATION FairSpec
INVARIANTS TablesInverse NoOrphanWatch TreeWatched FilesNoticed
PROPERTY Settles
CHECK_DEADLOCK FALSE
