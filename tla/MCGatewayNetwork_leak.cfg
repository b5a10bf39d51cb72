CONSTANTS
    Conns = {c1, c2, c3}
    NIL = NIL
    Listener = Listener
    Uses = {"handOver", "closeActivated", "reactivateClosed"}
    link = c1
    session = c2
    pending = c3
SPECIFICATION GSpec
SYMMETRY Symmetry
INVARIANTS
    CleanedUp
