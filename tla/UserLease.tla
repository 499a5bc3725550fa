------------------------------ MODULE UserLease ------------------------------
(***************************************************************************)
(* What the rendezvous record of a user promises to the streams of all     *)
(* servers: it is a lease.  A stream takes it when it is free or lapsed;   *)
(* as long as it runs and the lease is live nobody else takes or ends it;  *)
(* once it is gone anybody may.  EventStreams is shown to implement this   *)
(* module, although its record names a server and not a stream.            *)
(***************************************************************************)

CONSTANTS
    Handler,    \* the executions of StreamEvents for one user
    None        \* the absent value

VARIABLES
    holder,     \* the handler that holds the lease, or None
    live,       \* the lease has not lapsed
    gone        \* the handlers that have ended

vars == <<holder, live, gone>>

Init == holder = None /\ live = FALSE /\ gone = {}

\* A lease may lapse before its new holder has heard of it.
Take(h) ==
    /\ h \notin gone /\ ~live
    /\ holder' = h
    /\ live' \in BOOLEAN
    /\ UNCHANGED gone

Lapse ==
    /\ live /\ live' = FALSE
    /\ UNCHANGED <<holder, gone>>

GiveUp(h) ==
    /\ h \notin gone /\ holder = h
    /\ holder' = None /\ live' = FALSE
    /\ gone' \in {gone, gone \cup {h}}

Leave(H) ==
    /\ gone' = gone \cup H
    /\ UNCHANGED <<holder, live>>

\* Another handler, as it ends, ends the lease of one that is gone.
Reclaim(h) ==
    /\ holder \in gone
    /\ holder' = None /\ live' = FALSE
    /\ gone' = gone \cup {h}

Next ==
    \/ Lapse
    \/ \E h \in Handler : Take(h) \/ GiveUp(h) \/ Reclaim(h)
    \/ \E H \in SUBSET Handler : Leave(H)

Spec == Init /\ [][Next]_vars
=============================================================================
