---------------------------- MODULE PoolLifecycle ----------------------------
(***************************************************************************)
(* What the pool service promises about one betting pool, whatever the     *)
(* number of requests in flight: it is created once, with terms that never *)
(* change; its creator closes it once, at one time; a closed pool is       *)
(* resolved once; nothing is ever reopened, deleted or resolved again.     *)
(* PoolServer is shown to implement this module.                           *)
(***************************************************************************)

CONSTANTS
    Pool,       \* pool ids (rendezvous public keys)
    User,       \* user ids
    Account,    \* token accounts
    Time,       \* client supplied timestamps
    None        \* the absent value

VARIABLES
    stage,      \* stage[p]: where pool p is in its life
    terms,      \* terms[p]: its creator and funding destination
    closedAt    \* closedAt[p]: when it was closed

vars == <<stage, terms, closedAt>>

Verdict == {"refunded", "yes", "no"}
Stage == {"absent", "open", "closed"} \cup Verdict
Terms == [creator: User, dest: Account]

Init ==
    /\ stage = [p \in Pool |-> "absent"]
    /\ terms = [p \in Pool |-> None]
    /\ closedAt = [p \in Pool |-> None]

\* A funding destination backs one pool only.
Create(p, t) ==
    /\ stage[p] = "absent"
    /\ \A q \in Pool : terms[q] # None => terms[q].dest # t.dest
    /\ stage' = [stage EXCEPT ![p] = "open"]
    /\ terms' = [terms EXCEPT ![p] = t]
    /\ UNCHANGED closedAt

Close(p, at) ==
    /\ stage[p] = "open"
    /\ stage' = [stage EXCEPT ![p] = "closed"]
    /\ closedAt' = [closedAt EXCEPT ![p] = at]
    /\ UNCHANGED terms

Resolve(p, v) ==
    /\ stage[p] = "closed"
    /\ stage' = [stage EXCEPT ![p] = v]
    /\ UNCHANGED <<terms, closedAt>>

Next ==
    \E p \in Pool :
        \/ \E t \in Terms : Create(p, t)
        \/ \E at \in Time : Close(p, at)
        \/ \E v \in Verdict : Resolve(p, v)

Spec == Init /\ [][Next]_vars
=============================================================================
