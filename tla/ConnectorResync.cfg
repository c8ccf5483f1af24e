SPECIFICATION FairSpec
CONSTANTS
    DEFAULT_LIVE_WRITE_WINDOW_MS = 1
    MAX_SAFE_NONCE = 8
    Routes = {"r1", "r2"}
    Payloads <- MCOnePayload
    MAX_TTL_MS = 2
    FUTURE_SKEW_MS = 0
    MAX_NONCE_JUMP = 8
    MaxTime = 2
    MaxSigned = 1
    MaxLate = 0
    OtherNonces = {3}
    Crashes = FALSE
    NoCard = NoCard
PROPERTIES
    PendingConfirmed
CHECK_DEADLOCK FALSE
