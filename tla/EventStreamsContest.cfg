\* Two streams of a user on each of two servers, opened at once.
CONSTANTS
    s1 = s1  s2 = s2
    h1 = h1  h2 = h2  h3 = h3  h4 = h4
    None = None
    Server = {s1, s2}
    Handler = {h1, h2, h3, h4}
    Expiry = 2
    Refresh = 1
    MaxTime = 0
SPECIFICATION ContestSpec
SYMMETRY Symmetric
INVARIANT SomeStreamSurvives
CHECK_DEADLOCK FALSE
