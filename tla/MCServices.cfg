CONSTANTS
    Threads = {a, b}
    Remotes = {r}
    NoThread = NoThread
    Timeouts = {0, 1}
    MaxSleep = 2
    MaxStep = 2
    MaxSN = 3
SPECIFICATION MCSpec
INVARIANTS
    OneWait
PROPERTIES
    RequestsReturn
