SPECIFICATION Spec
CONSTANTS
    Rooms <- MCRooms
    Contacts <- MCContacts
    Keys <- MCKeys
    Values <- MCValues
    Levels <- MCLevels
    IntMax <- MCIntMax
    CreatorLevel <- MCCreatorLevel
    None = None
    Profiles <- ManyProfiles
    OldAccounts <- FullAccounts
    NewAccounts <- OtherAccounts
    FallibleReads = {}
    OthersChange = {"rooms"}
    MaxFaults = 1
    MaxMeddling = 0
    MaxRuns = 2
CHECK_DEADLOCK FALSE
INVARIANTS TypeOK SuccessMeansApplied RerunIsNoop NoRedundantInvite
