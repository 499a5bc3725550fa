\* Three bettors compete for the one place of a pool.
CONSTANTS
    u1 = u1  u2 = u2  u3 = u3
    p1 = p1  p2 = p2
    b1 = b1  b2 = b2  b3 = b3
    a1 = a1  a2 = a2
    t1 = t1  t2 = t2
    None = None
    User = {u1, u2, u3}
    Pool = {p1}
    Bet = {b1, b2, b3}
    Account = {a1}
    Time = {t1}
    Req = {r1, r2, r3}
    Calls <- CapacityCalls
    MaxParticipants = 1
SPECIFICATION Spec
SYMMETRY Requests
INVARIANT CapacityRespected
CHECK_DEADLOCK FALSE
