SPECIFICATION Spec
CONSTANTS
    CustomTypes <- MCCustomTypes
    Declared = {"turn"}
    OtherTypes = {"define", "react"}
    OtherBases = {"oldest"}
    OwnTypes = {"update", "message"}
    Policies = {"hold","reject","send_anyway"}
    Listings = {TRUE}
    ROOM_HISTORY_LIMIT = 3
    SEND_ANYWAY_MAX_ATTEMPTS = 3
    MaxSeq = 5
    MaxDrafts = 1
INVARIANTS
    HeadExact
    PresentedIsRead
PROPERTIES
    SpeaksAfterReading
CHECK_DEADLOCK FALSE
