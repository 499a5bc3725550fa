---------------------------- MODULE MCPoolServer ----------------------------
(***************************************************************************)
(* Instances of PoolServer for TLC.  Each run chooses which calls clients  *)
(* make; a run serves as many of them, in any order and any number of      *)
(* times each, as it has requests.                                         *)
(***************************************************************************)
EXTENDS PoolServer, TLC

CONSTANTS u1, u2, u3,   \* users; u1 creates the pools
          p1, p2,       \* pools
          b1, b2, b3,   \* bets
          a1, a2,       \* token accounts
          t1, t2        \* closing times

Create(u, p, a) == [op |-> "CreatePool", user |-> u, pool |-> p, bet |-> None,
                    choice |-> "unknown", account |-> a, at |-> None]
Close(u, p, t) == [op |-> "ClosePool", user |-> u, pool |-> p, bet |-> None,
                   choice |-> "unknown", account |-> None, at |-> t]
Resolve(u, p, v) == [op |-> "ResolvePool", user |-> u, pool |-> p,
                     bet |-> None, choice |-> v, account |-> None, at |-> None]
Place(u, p, b, o, a) == [op |-> "MakeBet", user |-> u, pool |-> p, bet |-> b,
                         choice |-> o, account |-> a, at |-> None]
Get(u, p) == [op |-> "GetPool", user |-> u, pool |-> p, bet |-> None,
              choice |-> "unknown", account |-> None, at |-> None]

\* Two pools that want one funding destination, closed at either of two times
\* and resolved either way, and a stranger who tries, and looks on.
ManagementCalls ==
    {Create(u1, p1, a1), Create(u1, p2, a1), Close(u1, p1, t1),
     Close(u1, p1, t2), Resolve(u1, p1, "yes"), Resolve(u1, p1, "no"),
     Close(u2, p1, t1), Resolve(u2, p1, "no"), Get(u2, p1)}

\* One bettor who changes its mind and its payout account, another bettor.
BettingCalls ==
    {Create(u1, p1, a1), Close(u1, p1, t1), Place(u1, p1, b1, "yes", a1),
     Place(u1, p1, b1, "no", a1), Place(u1, p1, b1, "no", a2),
     Place(u1, p1, b2, "yes", a1), Place(u2, p1, b2, "no", a2)}

\* Three bettors who compete for the last places of a pool.
CapacityCalls ==
    {Create(u1, p1, a1), Place(u1, p1, b1, "yes", a1),
     Place(u2, p1, b2, "yes", a1), Place(u3, p1, b3, "no", a1)}

Requests == Permutations(Req)
=============================================================================
