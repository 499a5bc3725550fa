--------------------------- MODULE MCPoolPayments ---------------------------
(***************************************************************************)
(* An instance of PoolPayments for TLC.                                    *)
(***************************************************************************)
EXTENDS PoolPayments, TLC

CONSTANTS u1, u2,           \* users; u1 creates the pool
          p1, b1, b2,       \* the pool, and the bets of u1 and u2
          a1, a2, funds,    \* the users' accounts, and the pool's
          t1                \* the time the pool was closed

Resolve(v) == [op |-> "ResolvePool", user |-> u1, pool |-> p1, bet |-> None,
               choice |-> v, account |-> None, at |-> None]

ServiceCalls == {Resolve("yes"), Resolve("no")}
MoneyCalls == {Distribute(funds), ReadFeed(u1), ReadFeed(u2)}
                \cup {BetPaid(b) : b \in Bet}

UserOf == (b1 :> u1) @@ (b2 :> u2)
AccountOf == (b1 :> a1) @@ (b2 :> a2)
Owners == [a \in Account |->
              IF a = funds THEN None
              ELSE UserOf[CHOOSE b \in Bet : AccountOf[b] = a]]

\* All plans of up to three actions in which no two give out more than there
\* can be.
SmallPlans ==
    {plan \in UNION {[1..n -> [to: Account, amount: 0..MaxQuarks]] : n \in 0..3} :
        \A i, j \in DOMAIN plan :
            i # j => plan[i].amount + plan[j].amount <= MaxQuarks}

\* A reachable state: u1 created p1 and bet on yes, u2 bet on no, the
\* pool was closed before anybody paid, and may be resolved.
PoolOf(verdict) ==
    LET m == [creator |-> u1, dest |-> funds, isOpen |-> FALSE,
              resolution |-> verdict, closedAt |-> t1]
        BetOn(b) ==
            LET n == [user |-> UserOf[b], payTo |-> AccountOf[b],
                      outcome |-> IF b = b1 THEN "yes" ELSE "no"]
            IN  [pool |-> p1, meta |-> n, sig |-> n, paid |-> FALSE]
    IN  /\ poolRow = [p \in Pool |-> [meta |-> m, sig |-> m]]
        /\ betRow = [b \in Bet |-> BetOn(b)]

ClosedPool ==
    /\ \E verdict \in Resolution : PoolOf(verdict)
    /\ member = {<<p1, u>> : u \in User}
    /\ intent = [b \in Bet |-> "none"]
    /\ pc = [r \in Req |-> "idle"]
    /\ call = [r \in Req |-> None]
    /\ seenPool = [r \in Req |-> None]
    /\ bets = [r \in Req |-> NoBets]
    /\ todo = [r \in Req |-> {}]
    /\ paying = [r \in Req |-> None]
    /\ reply = [r \in Req |-> "none"]
    /\ told = {}
    /\ asked = [r \in Req |-> None] /\ result = [r \in Req |-> "none"]
    /\ balance = [a \in Account |-> 0] /\ paidOut = {} /\ announced = {}

SpecWithClosedPool == ClosedPool /\ [][PaymentsNext]_paymentVars

Requests == Permutations(Req)
=============================================================================
