SPECIFICATION Spec
CONSTANTS
    DEFAULT_LIVE_WRITE_WINDOW_MS = 1
    MAX_SAFE_NONCE = 5
    Routes = {"r1", "r2"}
    Payloads <- MCPayloads
    MAX_TTL_MS = 3
    FUTURE_SKEW_MS = 0
    MAX_NONCE_JUMP = 3
    MaxTime = 3
    MaxSigned = 3
    MaxLate = 1
    OtherNonces = {}
    Crashes = TRUE
    NoCard = NoCard
INVARIANTS
    KeysOutliveTheirCards
    NoRelayLeftBehind
    AttemptsDistinct
CHECK_DEADLOCK FALSE
