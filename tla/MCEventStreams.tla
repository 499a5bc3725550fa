--------------------------- MODULE MCEventStreams ---------------------------
(***************************************************************************)
(* Instances of EventStreams for TLC: the real expiry and refresh times,   *)
(* in seconds.                                                             *)
(***************************************************************************)
EXTENDS EventStreams, TLC

CONSTANTS s1, s2,       \* servers
          h1, h2, h3, h4 \* executions of StreamEvents

\* Clients open streams and keep them, no server stops, nobody sends events
\* and no time passes: the behaviours of Spec that a test can bring about.
Opening ==
    \E h \in Handler : \/ Enter(h) \/ Work(h) \/ SeeClosed(h)
                       \/ \E s \in Server : Register(h, s)
ContestSpec == Init /\ [][Opening]_vars

Symmetric == Permutations(Handler) \cup Permutations(Server)
=============================================================================
