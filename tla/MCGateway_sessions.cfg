CONSTANTS
    Conns = {k1, k2, k3}
    Players = {p1, p2}
    NoConn = NoConn
    NoPlayer = NoPlayer
    RpcTimeout = 1
    WaitTimeout = 1
    MaxSn = 3
    MaxWire = 1
    WorldRejects = FALSE
    Malformed = TRUE
SPECIFICATION Spec
SYMMETRY Symmetry
INVARIANTS
    TypeOK
    TranslateCtx
    RpcCtx
    Watched
    ExclusiveBinding
