\* Three streams of a user on two servers, with crashes and lapsing leases.
CONSTANTS
    s1 = s1  s2 = s2
    h1 = h1  h2 = h2  h3 = h3  h4 = h4
    None = None
    Server = {s1, s2}
    Handler = {h1, h2, h3}
    Expiry = 3
    Refresh = 2
    MaxTime = 5
SPECIFICATION Spec
SYMMETRY Symmetric
INVARIANTS TypeOK OpenIsRegistered ServingIsReachable NoOrphanRecord
PROPERTIES ImplementsLease
CHECK_DEADLOCK FALSE
