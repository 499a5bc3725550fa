\* Payments, the resolution, distributions and feeds of one pool.
CONSTANTS
    u1 = u1  u2 = u2
    p1 = p1
    b1 = b1  b2 = b2
    a1 = a1  a2 = a2  funds = funds
    t1 = t1
    None = None
    User = {u1, u2}
    Pool = {p1}
    Bet = {b1, b2}
    Account = {a1, a2, funds}
    Time = {t1}
    Req = {r1, r2}
    Calls <- ServiceCalls
    PaymentCalls <- MoneyCalls
    OwnerOf <- Owners
    Plans <- SmallPlans
    BuyIn = 1
    MaxQuarks = 3
    MaxParticipants = 2
SPECIFICATION SpecWithClosedPool
SYMMETRY Requests
INVARIANTS PaymentsTypeOK     LastUpdateIsComplete
CHECK_DEADLOCK FALSE
