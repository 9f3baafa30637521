SPECIFICATION Spec
CONSTANTS
    Rooms = {1}
    Contacts = {"carol"}
    Keys = {1, 2, 3}
    Values = {"a", "b"}
    Levels = {0}
    IntMax = 0
    CreatorLevel = 0
    None = None
INVARIANTS TypeOK MergesAsPlanned ErrorsInOrder
CHECK_DEADLOCK FALSE
