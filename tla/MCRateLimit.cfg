SPECIFICATION Spec
CONSTANTS
    Tasks = {t1, t2}
    Endpoints = {e1, e2}
    Answers = {"delay", "date", "unsaid"}
    Period = 1
    RetryAfter = 2
    MaxDelay = 3
    MaxLimited = 2
    MaxSkew = 2
    Reach = 1
    None = None
INVARIANTS TypeOK OneAtATime
PROPERTIES RespectsDue CallReturns
