\* Events for a user with two streams on two servers: crashes, lapsing records,
\* full channels, lost requests and lost replies.
CONSTANTS
    s1 = s1  s2 = s2
    h1 = h1  h2 = h2  h3 = h3
    k1 = k1  k2 = k2  k3 = k3
    update1 = update1  update2 = update2  other = other
    None = None
    Worker = Worker
    Server = {s1, s2}
    Handler = {h1, h2}
    Task = {k1, k2, k3}
    Event = {update1, update2, other}
    Votes <- EventVotes
    Expiry = 2
    Refresh = 1
    MaxTime = 2
    Buffer = 1
    MaxTries = 2
SPECIFICATION ServingSpec
SYMMETRY Interchangeable
INVARIANTS DeliveryTypeOK WaitsOnOpenChannel UpdateSentOnce CopiesHaveCause SteadyStreamIsServed
PROPERTIES ImplementsStreams
CHECK_DEADLOCK FALSE
