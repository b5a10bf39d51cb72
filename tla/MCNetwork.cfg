CONSTANTS
    Conns = {c1, c2}
    NIL = NIL
    Listener = Listener
    Uses = {"handOver", "closeActivated", "reactivateClosed"}
SPECIFICATION MCSpec
INVARIANTS
    IoArmed
    PlainListsSound
PROPERTIES
    NoCallbackAfterClose
    PlainConnectReported
    PlainClosingReleased
