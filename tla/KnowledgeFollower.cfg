SPECIFICATION FairSpec
CONSTANTS
    question = question
    retraction = retraction
    correction = correction
    forgery = forgery
    Events = {question, retraction, correction, forgery}
    event <- MCevent
    future_skew_ms = 1
    max_envelope_bytes = 1
    MaxTime = 1
    MAX_SAFE_NONCE = 3
    NoFilter = NoFilter
    NoCursor = NoCursor
    Refused = Refused
    limit = 1
    max_pages = 2
    status_pages = 2
    NoCall = NoCall
    NoResponse = NoResponse
    None = None
    NoReport = NoReport
    MaxFailures = 1
    MaxModerations = 2
    Callers = {"query_all", "knowledge_status"}
INVARIANTS
    IndexExact
    HonestServiceAccepted
    FollowerMissesNothing
    StatusExact
PROPERTIES FollowerCatchesUp
CHECK_DEADLOCK FALSE
