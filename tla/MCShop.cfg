CONSTANTS
    Codes = {x, y}
    Types = {1, 2, 3}
    GroupOf <- ShopGroups
    Accounts = {p, q}
    None = None
    MaxMade = 3
    MaxGrants = 2
    Cards = {k1, k2, k3}
    Buyers = {b1, b2}
    Quota = 2
    MaxHours = 1
    Sns = {s1, s2, s3}
    Capacity = 1
    MaxConns = 2
SPECIFICATION MCSpec
INVARIANTS
    OncePerCode
    OncePerGroup
    MemoryIsTable
    
    
    ReaderFree
    Served
CHECK_DEADLOCK FALSE
