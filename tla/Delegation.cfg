SPECIFICATION DelegationSpec
CONSTANTS
    DEFAULT_LIVE_WRITE_WINDOW_MS = 1
    MAX_SAFE_NONCE = 1
    Keys = {"full", "limited"}
    delegation <- MCdelegation
    Grants <- MCGrants
    Never = 9
    MAX_STATUS_AGE_MS = 1
    STATUS_CLOCK_SKEW_MS = 1
    NoAuthority = NoAuthority
    Unrestricted = Unrestricted
    NoCredential = NoCredential
    Refused = Refused
    ConnectorKeys = {"limited"}
    InitialKeys = {"full"}
    RetiredKeys = {"full"}
    audience = "app"
    MAX_DOCUMENT_AGE_MS = 1
    MaxTime = 2
    MaxAccepted = 3
INVARIANTS
    UsableIsLatest
    VerdictExact
    AuditExact
CHECK_DEADLOCK FALSE
