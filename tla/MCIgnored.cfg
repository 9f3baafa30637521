SPECIFICATION Spec
CONSTANTS
    Rooms <- MCRooms
    Contacts <- MCContacts
    Keys <- MCKeys
    Values <- MCValues
    Levels <- MCLevels
    IntMax <- MCIntMax
    CreatorLevel <- MCCreatorLevel
    None = None
    Profiles <- FewProfiles
    OldAccounts <- FullAccounts
    NewAccounts <- IgnoredConflicts
    FallibleReads = {}
    OthersChange = {"rooms"}
    MaxFaults = 0
    MaxMeddling = 0
    MaxRuns = 1
CHECK_DEADLOCK FALSE
INVARIANT ConflictNamesUser
