SPECIFICATION Spec
CONSTANTS
    DEFAULT_LIVE_WRITE_WINDOW_MS = 1
    MAX_SAFE_NONCE = 3
    MAX_TTL_MS = 2
    FUTURE_SKEW_MS = 1
    Agents = {"alice", "bob", "dave"}
    Mailboxes = {"mb"}
    Origins = {"r1", "r2"}
    Cards <- MCCards
    Packets <- MCPackets
    Origin = "r1"
    max_packets = 2
    max_bytes = 3
    PageLimit = 1
    MaxTime = 5
    MaxRestarts = 1
    NoCard = NoCard
INVARIANTS
    TypeOK
    RetryAnswered
    AcceptedRetained
    MailStaysWithOwner
    QuotaHolds
    EnumerationComplete
PROPERTIES
    CardNeverRollsBack
    PromiseKept
CHECK_DEADLOCK FALSE
