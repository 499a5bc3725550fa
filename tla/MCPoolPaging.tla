---------------------------- MODULE MCPoolPaging ----------------------------
(***************************************************************************)
(* An instance of PoolPaging with two scenarios: a pool with two bets that *)
(* is looked at and resolved, and a user with a pool or two who walks      *)
(* through them.                                                           *)
(***************************************************************************)
EXTENDS MCPoolServer, PoolPaging

VARIABLE scenario
mcVars == <<pagingVars, scenario>>

\* The pool is closed and resolved in any way while it is read and one of its
\* bettors changes sides.
SummaryCalls ==
    {Close(u1, p1, t1), Resolve(u1, p1, "yes"), Resolve(u1, p1, "no"),
     Resolve(u1, p1, "refunded"), Get(u2, p1), Place(u2, p1, b2, "yes", a2)}

\* The user joins a second pool.
PageCalls == {Place(u2, p2, b1, "no", a2)}

EitherCalls == SummaryCalls \cup PageCalls
BettorsWalks ==
    {[user |-> u2, newestFirst |-> newest, size |-> n] :
        newest \in BOOLEAN, n \in {1, 2}}

\* Reachable states, in which all earlier requests are over: u1 created p1 and
\* bet on yes, u2 bet on no; or u1 created both pools and u2 bet on no in p1.
Created(p) ==
    LET m == [creator |-> u1, dest |-> IF p = p1 THEN a1 ELSE a2, isOpen |-> TRUE,
              resolution |-> "unknown", closedAt |-> None]
    IN  [meta |-> m, sig |-> m]
BetOnP1(u, o, a) ==
    LET m == [user |-> u, outcome |-> o, payTo |-> a]
    IN  [pool |-> p1, meta |-> m, sig |-> m, paid |-> FALSE]

Rows ==
    LET pages == scenario = "pages"
    IN  /\ poolRow = (p1 :> Created(p1)) @@ (p2 :> IF pages THEN Created(p2) ELSE None)
        /\ betRow = (b1 :> IF pages THEN None ELSE BetOnP1(u1, "yes", a1))
                      @@ (b2 :> BetOnP1(u2, "no", a2))
        /\ member = {<<p1, u1>>, <<p1, u2>>} \cup (IF pages THEN {<<p2, u1>>} ELSE {})
        /\ memberId = (<<p1, u1>> :> 1) @@ (<<p2, u1>> :> IF pages THEN 2 ELSE 0)
                        @@ (<<p1, u2>> :> 2) @@ (<<p2, u2>> :> 0)

MCInit ==
    /\ scenario \in {"summaries", "pages"}
    /\ Rows
    /\ intent = [b \in Bet |-> "none"]
    /\ pc = [r \in Req |-> "idle"]
    /\ call = [r \in Req |-> None]
    /\ seenPool = [r \in Req |-> None]
    /\ bets = [r \in Req |-> NoBets]
    /\ todo = [r \in Req |-> {}]
    /\ paying = [r \in Req |-> None]
    /\ reply = [r \in Req |-> "none"]
    /\ told = {}
    /\ walk = [r \in Req |-> None]
    /\ passed = [r \in Req |-> <<>>]
    /\ since = [r \in Req |-> {}]

MCNext ==
    /\ \/ scenario = "summaries" /\ PagingStep(SummaryCalls, {})
       \/ scenario = "pages" /\ PagingStep(PageCalls, BettorsWalks)
    /\ UNCHANGED scenario

MCSpec == MCInit /\ [][MCNext]_mcVars
=============================================================================
