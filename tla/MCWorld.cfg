CONSTANTS
    Clients = {1, 2}
    Ai = {1}
    ServerId = 1
    Width = 8
    Roles0 = {1, 9}
    Banned = {10}
    Conns = {k1}
    INVALID = INVALID
    ZombieTime = 1
    AbsentTime = 1
    MaxTime = 3
    MaxQueue = 2
    Records = {r}
    Objs = {o1, o2, o3}
    Fields = {f, g}
    Values = {0, 1}
    Contents = {0, 1}
    NoObj = NoObj
    QuietMax = 2
    DirtyMax = 3
    UnloadTime = 3
    MaxStep = 2
    Counted = {a, b, c}
    Notified = {a}
    Keys = {k}
    NoKey = NoKey
    NBCount = 2
    NBDelay = 2
    MaxCount = 2
    MaxList = 3
    None = None
SPECIFICATION MCSpec
INVARIANTS
    TypesOK
    OneMap
    ZombiesInOrder
    WaitsBehindRejected
    AbsentIsAbsent
    OwnStructs
    LossBounded
    LoadsLatest
    NotesKept
PROPERTIES
    OnlineKept
    SweptClean
