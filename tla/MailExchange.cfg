SPECIFICATION Spec
CONSTANTS
    DEFAULT_LIVE_WRITE_WINDOW_MS = 1
    MAX_SAFE_NONCE = 3
    MAX_TTL_MS = 2
    FUTURE_SKEW_MS = 1
    Agents = {"alice", "bob"}
    Mailboxes = {"mb"}
    Origins = {"r1"}
    Owner = "alice"
    Cards <- MCCards
    Packets <- MCPackets
    message <- MCmessage
    MaxTime = 4
    MaxSealed = 2
    NoCard = NoCard
INVARIANTS
    UnexpiredMailOpens
    ReceivedOnce
PROPERTIES
    NeverSealsForOlderCard
CHECK_DEADLOCK FALSE
