\* As in the programs (6000 or 2000 slots, 2^32 ids), the number of slots does
\* not divide the id space.
CONSTANTS
    MaxRes = 3
    IdSpace = 14
SPECIFICATION Spec
INVARIANTS
    LiveIdResolves
    StaleIdRejected
    NoSlotLost
PROPERTIES
    ImplementsPool
CHECK_DEADLOCK FALSE
