SPECIFICATION FairSpec
CONSTANTS
    m1 = m1
    r1 = r1
    r2 = r2
    junk = junk
    None = None
    Msgs = {m1}
    Relays = {r1, r2}
    expires_at <- MCExpires
    CardRoutes <- MovedRoutes
    usable_until <- MCUsableUntil
    pinned_until <- MCPinnedUntil
    receive_until <- MCReceiveUntil
    Undecryptable <- MCUndecryptable
    SYNC_MAX = 2
    MaxTime = 2
    MaxCrashes = 1
PROPERTIES QueuedIsReceived
CHECK_DEADLOCK FALSE
