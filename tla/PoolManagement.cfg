\* The life of a pool under concurrent requests of its creator and a stranger.
CONSTANTS
    u1 = u1  u2 = u2  u3 = u3
    p1 = p1  p2 = p2
    b1 = b1  b2 = b2  b3 = b3
    a1 = a1  a2 = a2
    t1 = t1  t2 = t2
    None = None
    User = {u1, u2}
    Pool = {p1, p2}
    Bet = {b1}
    Account = {a1}
    Time = {t1, t2}
    Req = {r1, r2, r3, r4}
    Calls <- ManagementCalls
    MaxParticipants = 2
SPECIFICATION Spec
SYMMETRY Requests
INVARIANTS SignaturesMatch AnswersStand
PROPERTIES ImplementsLifecycle
CHECK_DEADLOCK FALSE
