CONSTANTS
    MaxTimer = 4
    Timers = {t1, t2, t3}
    MaxTime = 8
    Players = {p, q}
    Young = {p}
    NoRole = {q}
    NoTimer = NoTimer
    KickTime = 4
    NotifyTime = 7
    RestTime = 3
    CheckDelay = 2
    Grace = 1
    Extra = 2
    FirstNotify = 2
SPECIFICATION MCSpec
INVARIANTS
    WheelSound
    Watching
    InTime
SYMMETRY Symmetry
CHECK_DEADLOCK FALSE
