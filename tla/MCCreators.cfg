SPECIFICATION Spec
CONSTANTS
    Rooms <- MCRooms
    Contacts <- MCContacts
    Keys <- MCKeys
    Values <- MCValues
    Levels <- MCLevels
    IntMax <- MCIntMax
    CreatorLevel <- MCCreatorLevel
    None = None
    Profiles <- Creators
    OldAccounts <- FullAccounts
    NewAccounts <- BareAccounts
    FallibleReads = {"create", "version"}
    OthersChange = {"rooms"}
    MaxFaults = 1
    MaxMeddling = 0
    MaxRuns = 1
CHECK_DEADLOCK FALSE
PROPERTY LeaveKeepsPower
