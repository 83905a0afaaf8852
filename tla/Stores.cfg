SPECIFICATION StoresSpec
CONSTANTS
    ByteBudget = 3
    Key = {k1, k2, k3}
    Payload = {a, b}
    MaxSize = 4
    Value <- Sized
    Nothing = Nothing
    MaxAccess = 5
    Worker = {w1, w2}
    Request <- Requests
    MaxTick = 2
    Frames = {0, 2}
    AnchorInterval = 2
    ScrubInterval = 1
    Tolerance = 1
    Capacity = 2
    MaxIndex = 2
    MaxStreams = 1
    None = None
    MaxSave = 4
    MaxDamage = 2
    Absent = Absent
    Torn = Torn
    Newer = Newer
SYMMETRY Symmetric
CHECK_DEADLOCK FALSE
INVARIANTS
    CacheTypeOK
    CacheMatchesPolicy LatestIsKept
    SavedStaysReadable ReadIsFresh
PROPERTIES
    ImplementsLru
    HitIsRight
    ImplementsAtomicFile
