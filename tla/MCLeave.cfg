SPECIFICATION Spec
CONSTANTS
    Rooms <- MCRooms
    Contacts <- MCContacts
    Keys <- MCKeys
    Values <- MCValues
    Levels <- MCLevels
    IntMax <- MCIntMax
    CreatorLevel <- MCCreatorLevel
    None = None
    Profiles <- FewProfiles
    OldAccounts <- FullAccounts
    NewAccounts <- BareAccounts
    FallibleReads = {"powerLevels", "acl", "newTags", "newDirect"}
    OthersChange = {"rooms", "accounts"}
    MaxFaults = 1
    MaxMeddling = 1
    MaxRuns = 2
CHECK_DEADLOCK FALSE
INVARIANTS HandoverInv
PROPERTIES LeaveKeepsMembership LeaveKeepsPower LeaveKeepsData HandoverSpec
