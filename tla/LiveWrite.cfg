SPECIFICATION Spec
CONSTANTS
    DEFAULT_LIVE_WRITE_WINDOW_MS = 1
    MAX_SAFE_NONCE = 3
    Actors = {a1}
    Bodies = {b1}
    MaxTime = 4
    MaxRestarts = 1
    a1 = a1
    b1 = b1
INVARIANTS
    TypeOK
    ReplayCovered
    AcceptedOnce
    AcceptedInNonceOrder
PROPERTIES
    AcceptedStaysAnswered
CHECK_DEADLOCK FALSE
