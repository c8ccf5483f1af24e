SPECIFICATION Spec
CONSTANTS
    CustomTypes <- MCCustomTypes
    Declared = {"turn"}
    OtherTypes = {"define"}
    OtherBases = {"oldest"}
    OwnTypes = {"message"}
    Policies = {"hold", "reject", "send_anyway"}
    Listings = {TRUE}
    ROOM_HISTORY_LIMIT = 5
    SEND_ANYWAY_MAX_ATTEMPTS = 3
    MaxSeq = 4
    MaxDrafts = 2
INVARIANTS
    PresentedIsShown
CHECK_DEADLOCK FALSE
