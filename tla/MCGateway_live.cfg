CONSTANTS
    Conns = {k1, k2}
    Players = {p1}
    NoConn = NoConn
    NoPlayer = NoPlayer
    RpcTimeout = 2
    WaitTimeout = 1
    MaxSn = 2
    MaxWire = 1
    WorldRejects = TRUE
    Malformed = FALSE
SPECIFICATION Spec
INVARIANTS
    RpcsTimely
    
PROPERTIES
    AuthSettles
