SPECIFICATION Spec
CONSTANTS
    Tasks = {t1, t2}
    Endpoints = {e1}
    Answers = {"date"}
    Period = 1
    RetryAfter = 2
    MaxDelay = 3
    MaxLimited = 2
    MaxSkew = 0
    Reach = 3
    None = None
PROPERTY RespectsDates
