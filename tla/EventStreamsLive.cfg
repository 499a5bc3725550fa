\* The turn of the newest stream, among three of a user on one server.
CONSTANTS
    s1 = s1  s2 = s2
    h1 = h1  h2 = h2  h3 = h3  h4 = h4
    None = None
    Server = {s1}
    Handler = {h1, h2, h3}
    Expiry = 2
    Refresh = 1
    MaxTime = 1
SPECIFICATION FairSpec
PROPERTIES NewestGetsItsTurn
CHECK_DEADLOCK FALSE
