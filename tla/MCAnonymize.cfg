SPECIFICATION AnonymousSpec
CONSTANTS
    Rooms <- ThreeIds
    Contacts <- MCContacts
    Keys <- MCKeys
    Values <- MCValues
    Levels <- MCLevels
    IntMax <- MCIntMax
    CreatorLevel <- MCCreatorLevel
    None = None
    AnonymousId <- SameServer
    NoRoom <- MCNoRoom
    Profiles <- SharedProfiles
    OldAccounts <- FullAccounts
    NewAccounts <- BareAccounts
    FallibleReads = {}
    OthersChange = {"rooms"}
    MaxFaults = 0
    MaxMeddling = 0
    MaxRuns = 1
CHECK_DEADLOCK FALSE
INVARIANT AnonymizesOutputOnly
