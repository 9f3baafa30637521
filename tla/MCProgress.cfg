SPECIFICATION Spec
CONSTANTS
    Rooms <- MCRooms
    Contacts <- MCContacts
    Keys <- MCKeys
    Values <- MCValues
    Levels <- MCLevels
    IntMax <- MCIntMax
    CreatorLevel <- MCCreatorLevel
    None = None
    Profiles <- PowerProfiles
    OldAccounts <- FullAccounts
    NewAccounts <- ConflictingAccounts
    FallibleReads = {"create", "version", "powerLevels"}
    OthersChange = {"rooms", "accounts"}
    MaxFaults = 1
    MaxMeddling = 1
    MaxRuns = 1
CHECK_DEADLOCK FALSE
INVARIANTS ExecutionInv
PROPERTIES ExecutionEnds KeepsNewData PromotesOnly KeepsOtherLevels
