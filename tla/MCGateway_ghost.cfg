CONSTANTS
    Conns = {k1, k2}
    Players = {p1}
    NoConn = NoConn
    NoPlayer = NoPlayer
    RpcTimeout = 1
    WaitTimeout = 2
    MaxSn = 2
    MaxWire = 2
    WorldRejects = FALSE
    Malformed = FALSE
SPECIFICATION Spec
PROPERTIES
    RegistersOnline
