SPECIFICATION MCSpec
CONSTANTS
    None = None
    s1 = s1
    s2 = s2
    r1 = r1
    r2 = r2
    r3 = r3
    r4 = r4
    u0 = u0
    u1 = u1
    u2 = u2
    u3 = u3
    k0 = k0
    k1 = k1
    k3 = k3
    p0 = p0
    p1 = p1
    p3 = p3
    x1 = x1
    x2 = x2
    ad1 = ad1
    ad2 = ad2
    right = right
    wrong = wrong
    i1 = i1
    t1 = t1
    t2 = t2
    User <- MCUser
    Key <- MCKey
    Server <- MCServer
    Req <- MCReq
    Calls <- MCCalls
    Receipt <- MCReceipt
    ValidReceipts <- MCValid
    XAccount <- MCXAccount
    Address <- MCAddress
    Code <- MCCode
    Install = {i1}
    Token = {t1, t2}
    MaxBatch = 1
    MaxChecks = 1
INVARIANTS UsersTypeOK KeysAgree CachesAgree ReceiptsRegisterOnce LinksStand CheckedAddressStays
PROPERTIES RegisteredNotDenied TokenKept
CHECK_DEADLOCK FALSE
