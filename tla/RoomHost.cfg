SPECIFICATION Spec
CONSTANTS
    carol = carol
    alice = alice
    bob = bob
    creator = carol
    room = room
    Absent = Absent
    TypeNames = {"poll", "mark"}
    RequestTTL = 1
    MaxTime = 2
    AskedRoles = {"speaker"}
    GivenRoles = {"moderator", "observer"}
    MaxLog = 5
    Agents <- MCAgents
    Packs <- MCPacks
    Creations <- MCCreations
    Updates <- MCUpdates
    Declarations <- MCDeclarations
    MaxOf <- MCMaxOf
INVARIANTS RecordsAreAuthorized RegistryReplays HistoryReplays ArchiveExact
PROPERTIES StateNeverGoesBack
CHECK_DEADLOCK FALSE
