SPECIFICATION Spec
CONSTANTS
    Rooms = {r1, r2}
    Waiters = {w1, w2}
    None = None
    MaxChanges = 3
CHECK_DEADLOCK FALSE
INVARIANTS TypeOK NoLostWakeup NoInviteSkipped
PROPERTIES InviteReachesWaiter GateSpec
