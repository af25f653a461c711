SPECIFICATION Spec
CONSTANTS
    None = None
    Events = {x1, x2, x3, x4, x5}
    MaxRunTicks = 2
    LastTime = 3
    Extents <- MCExtents
    Eof = 7
    HeapNodes = {1, 2, 3, 4, 5, 6, 7}
    Keys <- MCKeys
    Shift = 1
    Items = {x1, x2, x3, x4, x5}
    HashKeys = {"k1", "k2", "k3"}
    Hash <- MCHash
    Tables <- MCTables
    ThetaBits = 3
    MinTheta = 4
    MaxTheta = 6
    MaxUsers = 1
    Classes = {x1, x2, x3, x4, x5}
    NumJobs = 4
    JobHash <- MCJobHash
    CacheSize = 4
    BktBits = 1
    NumRules = 3
    PerClass = 2
SYMMETRY Symmetry
CHECK_DEADLOCK FALSE
INVARIANTS EventsInOrder SearchFindsOverlaps HeapInOrder ItemsInPlace ClassesHeld
