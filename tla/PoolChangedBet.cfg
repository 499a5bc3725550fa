\* A bettor changes its mind about a bet that is not paid for yet.
CONSTANTS
    u1 = u1  u2 = u2  u3 = u3
    p1 = p1  p2 = p2
    b1 = b1  b2 = b2  b3 = b3
    a1 = a1  a2 = a2
    t1 = t1  t2 = t2
    None = None
    User = {u1, u2}
    Pool = {p1}
    Bet = {b1, b2}
    Account = {a1, a2}
    Time = {t1}
    Req = {r1, r2, r3}
    Calls <- BettingCalls
    MaxParticipants = 2
SPECIFICATION Spec
SYMMETRY Requests
INVARIANT ChangedBetAcknowledged
CHECK_DEADLOCK FALSE
