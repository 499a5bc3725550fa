--------------------------- MODULE MCEventDelivery ---------------------------
(***************************************************************************)
(* Instances of EventDelivery for TLC.                                     *)
(***************************************************************************)
EXTENDS EventDelivery, TLC

CONSTANTS s1, s2,           \* servers
          h1, h2, h3,       \* executions of StreamEvents
          k1, k2, k3,       \* tasks
          update1, update2, \* updates of a pool with one vote and with two
          other             \* any other event

EventVotes == (update1 :> 1) @@ (update2 :> 2) @@ (other :> None)

\* A reachable state: h1 serves its client on s1, whose record is about to be
\* refreshed, no other stream was opened yet, and the events E are to come.
Serving(E) ==
    /\ rendezvous = [address |-> s1, owner |-> h1, expiresAt |-> Expiry]
    /\ now = Refresh
    /\ streams = [s \in Server |-> IF s = s1 THEN h1 ELSE None]
    /\ streamMu = streams
    /\ pc = [h \in Handler |-> IF h = h1 THEN "serve" ELSE "idle"]
    /\ home = [h \in Handler |-> IF h = h1 THEN s1 ELSE None]
    /\ closed = [h \in Handler |-> FALSE]
    /\ expiresAt = [h \in Handler |-> IF h = h1 THEN Expiry ELSE 0]
    /\ refreshAt = [h \in Handler |-> IF h = h1 THEN Refresh ELSE 0]
    /\ ended = [h \in Handler |-> "none"]
    /\ streamLock = [h \in Handler |-> None]
    /\ streamsMu = [s \in Server |-> None]
    /\ latest = [h \in Handler |-> -1]
    /\ task = [k \in Task |-> None]
    /\ sent = [h \in Handler |-> <<>>]
    /\ lostAcks = [e \in Event |-> 0]
    /\ steady = [e \in Event |-> IF e \in E THEN h1 ELSE None]

VARIABLE scenario
mcVars == <<allVars, scenario>>

\* One event of either kind, while anything may happen to the streams; or two
\* updates that race for the one stream that is open while it lasts.
MCInit ==
    \/ /\ scenario = "one event"
       /\ \E e \in Event \ {update2} : Serving({e}) /\ NothingSent({e})
    \/ /\ scenario = "two updates"
       /\ Serving({update1, update2}) /\ NothingSent({update1, update2})

MCNext ==
    /\ \/ scenario = "one event" /\ Progress
       \/ scenario = "two updates" /\ (Travel \/ LastAndEnd)
    /\ Observe
    /\ UNCHANGED scenario

ServingSpec == MCInit /\ [][MCNext]_mcVars

Interchangeable == Permutations(Handler) \cup Permutations(Server)
                   \cup Permutations(Task)
=============================================================================
