SPECIFICATION Spec
CONSTANT None = None
CHECK_DEADLOCK FALSE
INVARIANTS TypeOK NoSessionLeaks OpenSessionsUsed FirstErrorReported
PROPERTIES GivenSessionsKept EndsOrWaits
