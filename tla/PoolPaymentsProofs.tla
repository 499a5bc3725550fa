------------------------- MODULE PoolPaymentsProofs -------------------------
(***************************************************************************)
(* Proofs about PoolPayments, for any number of pools, users, bets,        *)
(* accounts and requests, any plans and any amounts.                       *)
(*                                                                         *)
(* Every step but Found is a step of PoolServer, or leaves it alone: the   *)
(* lemmas of PoolServerProofs and PoolBetsProofs carry over, and Found has *)
(* its own, for the one request that starts to count.                      *)
(***************************************************************************)
EXTENDS PoolPayments, PoolBetsProofs, SequenceTheorems

-----------------------------------------------------------------------------
(* The inductive invariant *)

\* No two pools are funded at the same account, and bets are on pools that
\* exist, also those about to be placed.
PoolsAndBets ==
    /\ \A p, q \in Pool : Exists(p) /\ Exists(q)
          /\ poolRow[p].meta.dest = poolRow[q].meta.dest => p = q
    /\ \A b \in Bet : betRow[b] # None => Exists(betRow[b].pool)
    /\ \A r \in Req : /\ pc[r] \in {"read_bet", "check_paid", "count_bets",
                                    "insert_bet"}
                      /\ call[r].op = "MakeBet"
                      => Exists(call[r].pool)

\* An event comes from one of the bets that its request counted, once and for
\* all.
Tells(e) ==
    /\ pc[e.by] = "done" /\ call[e.by].op = "ResolvePool"
    /\ call[e.by].pool = e.pool
    /\ seenPool[e.by].meta.resolution = ResolutionOf(e.pool)
    /\ \E b \in Counted(e.by) : e = EventOf(e.by, b)

ServerInv ==
    /\ TypeOK /\ Inv /\ MembersAndBets /\ ToldInv
    /\ PoolsAndBets
    /\ \A e \in told : Tells(e)

\* A request that serves a payment call and has found its pool.
Underway(r) == asked[r] # None /\ pc[r] # "idle"

\* Requests serve a payment call or a call of a user, not both, and those that
\* serve a payment call end with a result.
Serving(r) ==
    /\ asked[r] = None => result[r] = "none"
    /\ asked[r] = None /\ pc[r] # "idle" => call[r] \in Calls
    /\ Underway(r) =>
          /\ pc[r] \in {"read_bets", "check_paid", "done"}
          /\ call[r].op = "GetPool" /\ seenPool[r] # None
          /\ (result[r] # "none" <=> pc[r] = "done")

\* A resolution, once seen, is the one that the pool keeps.
SeesVerdict(r) ==
    /\ call[r].pool \in Pool /\ Exists(call[r].pool)
    /\ seenPool[r].meta.resolution # "unknown"
    /\ seenPool[r].meta.resolution = ResolutionOf(call[r].pool)

\* What a distribution request knows about its pool.
Distributing(r) ==
    Underway(r) /\ asked[r].op = "Distribute" =>
        SeesVerdict(r) /\ poolRow[call[r].pool].meta.dest = asked[r].source

\* Intents are for bets that were placed, and marks for intents.
Intents ==
    /\ \A b \in Bet : betRow[b] = None => intent[b] = "none"
    /\ \A b \in Bet : betRow[b] # None /\ betRow[b].paid => intent[b] # "none"
    /\ \A r \in Req : paying[r] # None => intent[paying[r]] # "none"

\* A bet is paid out to an account of its user.
OwnAccounts == \A b \in Bet : betRow[b] # None =>
                   OwnerOf[betRow[b].meta.payTo] = betRow[b].meta.user

\* The money for the bets of a pool that was not distributed is there.
MatchedBets(p) == {b \in BetsOf(p) : intent[b] = "match"}
PotsHold ==
    \A p \in Pool :
        Exists(p) /\ (\A d \in paidOut : d.pool # p) =>
            balance[poolRow[p].meta.dest] >= BuyIn * Cardinality(MatchedBets(p))

\* What a distribution keeps of the request that allowed it.
Allowed(d) ==
    /\ asked[d.by] # None /\ asked[d.by].op = "Distribute"
    /\ pc[d.by] = "done"
    /\ d.pool = call[d.by].pool /\ d.counted = Counted(d.by)
    /\ d.verdict = seenPool[d.by].meta.resolution

\* A fair division among the accounts of the backed bets, whoever asks.
Fair(d) ==
    LET n == Cardinality(Backed(d))
    IN  /\ n \in Nat \ {0} /\ Len(d.plan) = n
        /\ {d.plan[i].to : i \in DOMAIN d.plan} =
              {betRow[b].meta.payTo : b \in Backed(d)}
        /\ Total(Amounts(d.plan)) = d.shared
        /\ \A i \in DOMAIN d.plan : d.plan[i].amount >= d.shared \div n

\* The first distribution of a pool shares the payments it counted.
Covered(d) ==
    d.earlier = 0 /\ (\A b \in BetsOf(d.pool) : intent[b] # "revoked") =>
        d.shared >= BuyIn * Cardinality(d.counted)

Distributions ==
    /\ IsFiniteSet(paidOut)
    /\ \A d \in paidOut : Allowed(d) /\ Fair(d) /\ Covered(d)

\* The request for a feed that is shown distribution d counts, once it has read
\* the bets of the pool, those that d counted.
ShownTo(r, d) ==
    /\ d.pool = call[r].pool /\ Pays(d, asked[r].user)
    /\ pc[r] = "check_paid" => d.counted \subseteq Counted(r)

Feed(r) ==
    Underway(r) /\ asked[r].op = "ReadFeed" =>
        SeesVerdict(r) /\ \E d \in paidOut : ShownTo(r, d)

\* Who reports the payment of bet b.
Reports(r, b) == asked[r] = BetPaid(b)

\* Payments are reported once, after they were made; and who forwarded an
\* update was asked to.
Reporting ==
    /\ \A r \in Req, b \in Bet : Reports(r, b) => intent[b] # "none"
    /\ \A r, s \in Req, b \in Bet : Reports(r, b) /\ Reports(s, b) => r = s
    /\ \A r \in Req, b \in Bet : Reports(r, b) /\ Underway(r) =>
          betRow[b] # None /\ betRow[b].pool = call[r].pool
    /\ \A e \in announced : \E r \in Req : Reports(r, e.bet) /\ result[r] = "OK"

\* Request r, which reports the payment of b, will count the bets in P or has
\* done so, unless it has failed without an update.
Catches(r, b, P) ==
    \/ result[r] = "none" /\ pc[r] \in {"idle", "read_bets"}
    \/ /\ result[r] = "none" /\ pc[r] = "check_paid"
       /\ \A c \in P : bets[r][c] # None /\ (bets[r][c].paid \/ c \in todo[r])
    \/ result[r] # "none" /\ \A e \in announced : e.bet # b
    \/ \E e \in announced : e.pool = betRow[b].pool /\ P \subseteq e.counted

PaidBets(p) == {b \in BetsOf(p) : intent[b] # "none"}
Settled(p) ==
    LET P == PaidBets(p)
    IN  /\ P # {} /\ \A b \in P : intent[b] = "match"
        /\ \A b \in P : \E r \in Req : Reports(r, b)

\* Of the payments of a pool whose reports are all in, the last to be reported
\* is reported by a request that catches them all.
Updates ==
    \A p \in Pool : Settled(p) =>
        \E r \in Req, b \in PaidBets(p) : Reports(r, b) /\ Catches(r, b, PaidBets(p))

PaymentsInv ==
    /\ ServerInv /\ PaymentsTypeOK
    /\ \A r \in Req : Serving(r) /\ Distributing(r) /\ Feed(r)
    /\ Intents /\ OwnAccounts /\ PotsHold /\ Distributions
    /\ Reporting /\ Updates /\ FeedReadable

-----------------------------------------------------------------------------
(* Sums and shares *)

\* f[i] is the sum of the first i amounts, up to n.
Sums(f, amounts, n) ==
    f = [i \in 0..n |-> IF i = 0 THEN 0 ELSE f[i - 1] + amounts[i]]

LEMMA SumsExist ==
    ASSUME NEW amounts \in Seq(Nat), NEW n \in 0..Len(amounts)
    PROVE  \E f \in [0..n -> Nat] : Sums(f, amounts, n)
  <1> DEFINE T == {k \in 0..Len(amounts) :
                      ~\E f \in [0..k -> Nat] : Sums(f, amounts, k)}
  <1> SUFFICES ASSUME T # {} PROVE FALSE
    OBVIOUS
  <1>0. Len(amounts) \in Nat /\ T \in SUBSET Nat
    OBVIOUS
  <1> HIDE DEF T
  <1>1. PICK m \in T : \A k \in T : ~(k < m)
    BY <1>0, LeastOf
  <1> USE DEF T
  <1>2. m # 0
    <2> DEFINE f == [i \in 0..0 |-> 0]
    <2>1. f \in [0..0 -> Nat] /\ Sums(f, amounts, 0)
      BY DEF Sums
    <2> HIDE DEF f
    <2> QED BY <2>1
  <1>3. m \in 1..Len(amounts) /\ m - 1 \in 0..Len(amounts) /\ m - 1 \notin T
    <2>1. m \in 0..Len(amounts)
      OBVIOUS
    <2> HIDE DEF T
    <2> QED BY <2>1, <1>0, <1>1, <1>2
  <1>4. PICK g \in [0..(m - 1) -> Nat] : Sums(g, amounts, m - 1)
    BY <1>3
  <1> DEFINE h == [i \in 0..m |-> IF i = m THEN g[m - 1] + amounts[m] ELSE g[i]]
  <1>5. amounts[m] \in Nat /\ g[m - 1] \in Nat
    BY <1>3
  <1>6. h \in [0..m -> Nat]
    BY <1>3, <1>5
  <1>7. ASSUME NEW i \in 0..m
        PROVE  h[i] = IF i = 0 THEN 0 ELSE h[i - 1] + amounts[i]
    <2>1. CASE i = m
      BY <2>1, <1>2, <1>3
    <2>2. CASE i # m
      <3>1. i \in 0..(m - 1) /\ (i # 0 => i - 1 \in 0..(m - 1) /\ i - 1 \in 0..m /\ i - 1 # m)
        BY <2>2, <1>3
      <3>2. g[i] = IF i = 0 THEN 0 ELSE g[i - 1] + amounts[i]
        BY <3>1, <1>4 DEF Sums
      <3> QED BY <2>2, <3>1, <3>2
    <2> QED BY <2>1, <2>2
  <1>8. Sums(h, amounts, m)
    BY <1>7 DEF Sums
  <1> HIDE DEF h
  <1> QED BY <1>1, <1>6, <1>8

\* Total is the last of the partial sums.
LEMMA TotalIsSum ==
    ASSUME NEW amounts \in Seq(Nat)
    PROVE  \E f \in [0..Len(amounts) -> Nat] :
              /\ f[0] = 0 /\ Total(amounts) = f[Len(amounts)]
              /\ \A i \in 1..Len(amounts) : f[i] = f[i - 1] + amounts[i]
  <1> DEFINE n == Len(amounts)
             sum == CHOOSE f : Sums(f, amounts, n)
  <1>1. n \in Nat /\ n \in 0..n
    OBVIOUS
  <1>2. PICK f : Sums(f, amounts, n)
    BY <1>1, SumsExist
  <1>3. Sums(sum, amounts, n)
    BY <1>2
  <1>4. Total(amounts) = sum[n]
    BY DEF Total, Sums
  <1> HIDE DEF sum
  <1>5. /\ sum = [i \in 0..n |-> sum[i]] /\ sum[0] = 0
        /\ \A i \in 1..n : sum[i] = sum[i - 1] + amounts[i]
    BY <1>1, <1>3 DEF Sums
  <1>6. ASSUME NEW k \in 0..n PROVE sum[k] \in Nat
    <2> DEFINE T == {i \in 0..n : sum[i] \notin Nat}
    <2> SUFFICES ASSUME T # {} PROVE FALSE
      BY <1>6
    <2>1. T \in SUBSET Nat
      BY <1>1
    <2> HIDE DEF T
    <2>2. PICK m \in T : \A i \in T : ~(i < m)
      BY <2>1, LeastOf
    <2>3. m # 0 /\ m \in 0..n
      BY <1>5 DEF T
    <2>4. m - 1 \in 0..n /\ m \in 1..n /\ m - 1 \notin T
      BY <1>1, <2>2, <2>3
    <2>5. sum[m - 1] \in Nat
      BY <2>4 DEF T
    <2>6. amounts[m] \in Nat
      BY <2>4
    <2>7. sum[m] = sum[m - 1] + amounts[m]
      BY <1>5, <2>4
    <2> QED BY <2>2, <2>5, <2>6, <2>7 DEF T
  <1> QED BY <1>1, <1>4, <1>5, <1>6

LEMMA TotalIsNat == ASSUME NEW amounts \in Seq(Nat) PROVE Total(amounts) \in Nat
  <1>1. Len(amounts) \in Nat /\ Len(amounts) \in 0..Len(amounts)
    OBVIOUS
  <1> QED BY <1>1, TotalIsSum

LEMMA OneMore ==
    ASSUME NEW a \in Nat, NEW s \in Nat, NEW x \in Nat, NEW y \in Nat, NEW z \in Nat,
           ~(x < a + y), z >= s
    PROVE  ~(x + z < a + (y + s))
  OBVIOUS

\* When every amount is at least s, none is more than the total without s for
\* each of the others.
LEMMA TotalBoundsAmounts ==
    ASSUME NEW amounts \in Seq(Nat), NEW s \in Nat,
           \A i \in 1..Len(amounts) : amounts[i] >= s,
           NEW j \in 1..Len(amounts)
    PROVE  amounts[j] + s * (Len(amounts) - 1) <= Total(amounts)
  <1> DEFINE n == Len(amounts)
  <1>0. n \in Nat /\ \A i \in 1..n : amounts[i] \in Nat
    OBVIOUS
  <1> HIDE DEF n
  <1>1. PICK f \in [0..n -> Nat] :
            /\ f[0] = 0 /\ Total(amounts) = f[n]
            /\ \A i \in 1..n : f[i] = f[i - 1] + amounts[i]
    BY TotalIsSum DEF n
  <1> DEFINE M == [k \in 0..n |-> s * k]
  <1>2. /\ M \in [0..n -> Nat] /\ M[0] = 0
        /\ \A k \in 1..n : M[k] = M[k - 1] + s
    <2>1. \A k \in 0..n : s * k \in Nat
      BY <1>0
    <2>2. \A k \in 1..n : s * k = s * (k - 1) + s /\ k - 1 \in 0..n /\ k \in 0..n
      BY <1>0
    <2> QED BY <2>1, <2>2, <1>0
  <1>3. j \in 1..n /\ \A i \in 1..n : amounts[i] >= s
    BY DEF n
  <1>4. M[n - 1] = s * (n - 1)
    BY <1>0, <1>3
  <1> HIDE DEF M
  <1> PICK a \in Nat : a = amounts[j]
    BY <1>0, <1>3
  <1> DEFINE least == [k \in 0..n |-> IF j <= k THEN a + M[k - 1] ELSE M[k]]
             T == {k \in 0..n : f[k] < least[k]}
  <1> SUFFICES ASSUME T # {} PROVE FALSE
    <2>1. n \in 0..n /\ n - 1 \in 0..n /\ least[n] = a + M[n - 1]
      BY <1>0, <1>3
    <2>2. f[n] \in Nat /\ M[n - 1] \in Nat
      BY <1>0, <1>1, <1>2, <1>3, <2>1
    <2>3. n \notin T => f[n] >= least[n]
      BY <2>1, <2>2
    <2> QED BY <2>1, <2>3, <1>1, <1>4 DEF n
  <1>5. T \in SUBSET Nat
    BY <1>0
  <1> HIDE DEF T
  <1>6. PICK k \in T : \A i \in T : ~(i < k)
    BY <1>5, LeastOf
  <1>7. k \in 0..n /\ f[k] < least[k]
    BY DEF T
  <1>8. k # 0
    BY <1>0, <1>1, <1>2, <1>3, <1>7
  <1>9. k - 1 \in 0..n /\ k \in 1..n /\ k - 1 \notin T
    BY <1>0, <1>6, <1>7, <1>8
  <1>10. ~(f[k - 1] < least[k - 1])
    BY <1>9 DEF T
  <1>11. /\ f[k] = f[k - 1] + amounts[k] /\ f[k - 1] \in Nat
         /\ amounts[k] \in Nat /\ amounts[k] >= s
         /\ M[k] = M[k - 1] + s /\ M[k] \in Nat /\ M[k - 1] \in Nat
    BY <1>0, <1>1, <1>2, <1>3, <1>9
  <1>12. CASE j <= k - 1
    <2>1. k - 2 \in 0..n /\ k - 1 \in 1..n
      BY <1>0, <1>3, <1>9, <1>12
    <2>2. M[k - 1] = M[k - 2] + s /\ M[k - 2] \in Nat
      <3>1. (k - 1) - 1 = k - 2
        BY <1>0, <1>9
      <3> QED BY <1>0, <1>2, <1>3, <2>1, <3>1
    <2>3. least[k] = a + M[k - 1] /\ least[k - 1] = a + M[k - 2]
      BY <1>0, <1>3, <1>9, <1>12, <2>1
    <2>4. PICK x \in Nat, y \in Nat : x = f[k - 1] /\ y = M[k - 2]
      BY <1>11, <2>2
    <2>5. ~(x < a + y)
      BY <1>10, <2>3, <2>4
    <2>6. f[k] = x + amounts[k] /\ M[k - 1] = y + s
      BY <1>11, <2>2, <2>4
    <2>7. PICK z \in Nat : z = amounts[k] /\ z >= s
      BY <1>11
    <2>8. ~(x + z < a + (y + s))
      BY <2>5, <2>7, OneMore
    <2>9. least[k] = a + (y + s) /\ f[k] = x + z
      BY <2>3, <2>6, <2>7
    <2> QED BY <1>7, <2>8, <2>9
  <1>13. CASE j = k
    <2>1. /\ a = amounts[k]
          /\ least[k] = a + M[k - 1] /\ least[k - 1] = M[k - 1]
      BY <1>0, <1>9, <1>13
    <2> QED BY <1>7, <1>10, <1>11, <2>1
  <1>14. CASE j > k
    <2>1. k \in Int /\ j \in Int /\ ~(j <= k) /\ ~(j <= k - 1)
      BY <1>0, <1>3, <1>9, <1>14
    <2>2. least[k] = M[k] /\ least[k - 1] = M[k - 1]
      BY <1>9, <2>1
    <2> QED BY <1>7, <1>10, <1>11, <2>2
  <1> QED BY <1>0, <1>3, <1>9, <1>12, <1>13, <1>14

LEMMA DivisionFacts ==
    ASSUME NEW a \in Nat, NEW n \in Nat \ {0}
    PROVE  /\ a \div n \in Nat /\ a % n \in Nat
           /\ a = n * (a \div n) + (a % n) /\ a % n < n
  OBVIOUS

LEMMA DivisionMonotone ==
    ASSUME NEW a \in Nat, NEW b \in Nat, a <= b, NEW n \in Nat \ {0}
    PROVE  a \div n <= b \div n
  BY DivisionFacts

-----------------------------------------------------------------------------
(* What PoolServer keeps, with the requests of payments among its own *)

\* A request that serves a payment call finds its pool.
Finds(r, p) ==
    /\ asked[r] # None /\ pc[r] = "idle" /\ result[r] = "none"
    /\ Exists(p) /\ Found(r, p)

LEMMA FoundRequest ==
    ASSUME TypeOK, Inv, NEW r \in Req, NEW p \in Pool, Finds(r, p)
    PROVE  /\ call'[r] \in Call /\ call'[r] \in GetCall
           /\ call'[r].op = "GetPool" /\ call'[r].pool = p
           /\ seenPool'[r] = poolRow[p] /\ seenPool'[r] \in PoolRow
           /\ pc'[r] = "read_bets"
           /\ bets[r] = NoBets /\ todo[r] = {} /\ paying[r] = None
           /\ \A s \in Req : s # r => Rests(s)
           /\ UNCHANGED <<store, intent, bets, todo, paying, reply, told,
                          asked, result, money>>
  <1>1. poolRow[p] \in PoolRow
    BY DEF Finds, Exists, TypeOK
  <1>2. poolRow[p].meta.creator \in User
    BY <1>1, PoolRowFields, PoolMetaFields
  <1> DEFINE c == [op |-> "GetPool", user |-> poolRow[p].meta.creator, pool |-> p,
                   bet |-> None, choice |-> "unknown", account |-> None, at |-> None]
  <1>3. c \in GetCall /\ c.op = "GetPool" /\ c.pool = p
    BY <1>2 DEF GetCall
  <1>4. c \in Call
    BY <1>3 DEF Call
  <1>5. /\ call' = [call EXCEPT ![r] = c]
        /\ seenPool' = [seenPool EXCEPT ![r] = poolRow[p]]
        /\ pc' = [pc EXCEPT ![r] = "read_bets"]
        /\ UNCHANGED <<store, intent, bets, todo, paying, reply, told,
                       asked, result, money>>
    BY DEF Finds, Found, Goto
  <1> HIDE DEF c
  <1>6. call'[r] = c /\ seenPool'[r] = poolRow[p] /\ pc'[r] = "read_bets"
    BY <1>5 DEF TypeOK
  <1>7. bets[r] = NoBets /\ todo[r] = {} /\ paying[r] = None
    BY DEF Finds, Inv, RequestInv, Called
  <1>8. \A s \in Req : s # r => Rests(s)
    BY <1>5 DEF TypeOK, Rests
  <1> QED BY <1>1, <1>3, <1>4, <1>5, <1>6, <1>7, <1>8

LEMMA FoundType ==
    ASSUME TypeOK, Inv, NEW r \in Req, NEW p \in Pool, Finds(r, p)
    PROVE  TypeOK'
  <1>1. /\ call'[r] \in Call /\ seenPool'[r] \in PoolRow /\ pc'[r] = "read_bets"
        /\ UNCHANGED <<store, intent, bets, todo, paying, reply, told>>
    BY FoundRequest
  <1>2. /\ call' = [call EXCEPT ![r] = call'[r]]
        /\ seenPool' = [seenPool EXCEPT ![r] = seenPool'[r]]
        /\ pc' = [pc EXCEPT ![r] = pc'[r]]
    BY DEF Finds, Found, Goto, TypeOK
  <1>3. call' \in [Req -> Call \cup {None}]
    BY <1>1, <1>2 DEF TypeOK
  <1>4. seenPool' \in [Req -> PoolRow \cup {None}]
    BY <1>1, <1>2 DEF TypeOK
  <1>5. pc' \in [Req -> Steps]
    BY <1>1, <1>2 DEF TypeOK, Steps
  <1> QED BY <1>1, <1>3, <1>4, <1>5 DEF TypeOK, store

LEMMA FoundInv ==
    ASSUME TypeOK, Inv, NEW r \in Req, NEW p \in Pool, Finds(r, p)
    PROVE  Inv'
  <1>1. /\ call'[r] \in Call /\ call'[r].op = "GetPool"
        /\ seenPool'[r] \in PoolRow /\ pc'[r] = "read_bets"
        /\ bets[r] = NoBets /\ todo[r] = {} /\ paying[r] = None
        /\ \A s \in Req : s # r => Rests(s)
        /\ UNCHANGED <<poolRow, betRow, member, bets, todo, paying>>
    BY FoundRequest DEF store
  <1>2. RequestInv(r)'
    BY <1>1, NoneIsNoRow
       DEF RequestInv, Called, CloserIsCurrent, ResolverIsCurrent, HasPool,
           HeldBetsAreStored, ChecksAreHeld, BettorHoldsBet, NoBets
  <1>3. ASSUME NEW s \in Req, s # r PROVE RequestInv(s)'
    <2>1. RequestInv(s) /\ Rests(s)
      BY <1>1, <1>3 DEF Inv
    <2> QED BY <2>1, <1>1
        DEF Rests, RequestInv, Called, CloserIsCurrent, ResolverIsCurrent, HasPool,
            HeldBetsAreStored, ChecksAreHeld, BettorHoldsBet, Exists
  <1>4. ResolvedAreClosed' /\ SignaturesMatch'
    BY <1>1 DEF Inv, ResolvedAreClosed, SignaturesMatch, Exists
  <1> QED BY <1>2, <1>3, <1>4 DEF Inv

LEMMA FoundTold ==
    ASSUME TypeOK, Inv, MembersAndBets, ToldInv, NEW r \in Req, NEW p \in Pool,
           Finds(r, p)
    PROVE  MembersAndBets' /\ ToldInv'
  <1>1. /\ call'[r].op = "GetPool"
        /\ \A s \in Req : s # r => Rests(s)
        /\ UNCHANGED <<poolRow, betRow, member, told>>
    BY FoundRequest DEF store
  <1>2. MembersAndBets'
    BY <1>1 DEF MembersAndBets, BetsBy, BetsOf, Exists
  <1>3. \A s \in Req : Notifying(s)' => Notifying(s) /\ Rests(s)
    BY <1>1 DEF Notifying, Rests
  <1>4. ASSUME NEW s \in Req PROVE NotifierInv(s)'
    <2>1. NotifierInv(s)
      BY DEF ToldInv
    <2> QED BY <1>1, <1>3, <2>1 DEF NotifierInv, Rests, Notifying, Exists, ResolutionOf
  <1> QED BY <1>1, <1>2, <1>4 DEF ToldInv, ToldOnce, ResolutionOf, Exists

\* A request that is through does nothing more.
LEMMA DoneRests ==
    ASSUME TypeOK, [Next]_vars, NEW r \in Req, pc[r] = "done"
    PROVE  Rests(r)
  <1>1. ~Moves(r)
    BY DEF Moves, Step, Reject, Fail, Begin, CreatePool, CloseReadPool, ClosePool,
           ResolveReadPool, ResolvePool, NotifyReadPool, NotifyPoolResolution,
           MakeBetReadPool, GetBetByUser, KeepBet, UpdateBetOutcome, CountBets,
           InsertBet, GetPoolReadPool, GetBetsByPool, ReturnPool, MarkBetAsPaid,
           GetIntent, AllChecked, At
  <1> QED BY <1>1, RestOrMove

\* A request keeps the call it began with.
LEMMA CallKept ==
    ASSUME TypeOK, [Next]_vars, NEW r \in Req
    PROVE  \/ call'[r] = call[r] /\ (pc[r] = "idle" <=> pc'[r] = "idle")
           \/ /\ pc[r] = "idle" /\ pc'[r] \in {"create", "read_pool"}
              /\ call'[r] \in Calls
  <1> USE DEF TypeOK, local, Goto, Answer, At, AllChecked
  <1>1. CASE Rests(r)
    BY <1>1 DEF Rests
  <1>2. CASE Reject(r) \/ Fail(r)
    BY <1>2 DEF Reject, Fail
  <1>3. CASE \E c \in Calls : Begin(r, c)
    BY <1>3 DEF Begin, FirstStep
  <1>4. CASE \/ CreatePool(r) \/ CloseReadPool(r) \/ ClosePool(r)
             \/ ResolveReadPool(r) \/ ResolvePool(r)
             \/ NotifyReadPool(r) \/ NotifyPoolResolution(r)
             \/ GetPoolReadPool(r) \/ ReturnPool(r)
    BY <1>4 DEF CreatePool, CloseReadPool, ClosePool, ResolveReadPool,
                ResolvePool, NotifyReadPool, NotifyPoolResolution,
                GetPoolReadPool, ReturnPool
  <1>5. CASE \/ MakeBetReadPool(r) \/ GetBetByUser(r) \/ KeepBet(r)
             \/ UpdateBetOutcome(r) \/ CountBets(r) \/ InsertBet(r)
             \/ GetBetsByPool(r) \/ MarkBetAsPaid(r)
             \/ \E b \in Bet : GetIntent(r, b)
    BY <1>5 DEF MakeBetReadPool, GetBetByUser, KeepBet, UpdateBetOutcome, CountBets,
                InsertBet, GetBetsByPool, MarkBetAsPaid, GetIntent
  <1> QED BY <1>1, <1>2, <1>3, <1>4, <1>5, RestOrMove DEF Moves, Step

\* A MakeBet goes on from a pool that it found.
LEMMA BettorFindsPool ==
    ASSUME TypeOK, Inv, PoolsAndBets, [Next]_vars, NEW r \in Req,
           pc'[r] \in {"read_bet", "check_paid", "count_bets", "insert_bet"},
           call'[r].op = "MakeBet"
    PROVE  call[r].pool \in Pool /\ Exists(call[r].pool) /\ call'[r] = call[r]
  <1>1. call'[r] = call[r] /\ pc[r] # "idle"
    BY CallKept
  <1>2. call[r].pool \in Pool
    BY <1>1, CallFields DEF Inv, RequestInv, Called, TypeOK
  <1> USE DEF TypeOK, local, Goto, Answer, At, AllChecked
  <1>3. CASE Rests(r)
    BY <1>1, <1>2, <1>3 DEF Rests, PoolsAndBets
  <1>4. CASE Reject(r) \/ Fail(r) \/ \E c \in Calls : Begin(r, c)
    BY <1>4 DEF Reject, Fail, Begin, FirstStep
  <1>5. CASE \/ CreatePool(r) \/ CloseReadPool(r) \/ ClosePool(r)
             \/ ResolveReadPool(r) \/ ResolvePool(r)
             \/ NotifyReadPool(r) \/ NotifyPoolResolution(r)
             \/ GetPoolReadPool(r) \/ ReturnPool(r)
    BY <1>1, <1>5 DEF CreatePool, CloseReadPool, ClosePool, ResolveReadPool,
                ResolvePool, NotifyReadPool, NotifyPoolResolution,
                GetPoolReadPool, ReturnPool
  <1>6. CASE GetBetsByPool(r)
    BY <1>1, <1>6 DEF GetBetsByPool, Inv, RequestInv, HasPool
  <1>7. CASE MakeBetReadPool(r)
    BY <1>1, <1>2, <1>7 DEF MakeBetReadPool
  <1>8. CASE GetBetByUser(r) \/ KeepBet(r) \/ UpdateBetOutcome(r)
    BY <1>1, <1>2, <1>8 DEF GetBetByUser, KeepBet, UpdateBetOutcome, PoolsAndBets
  <1>9. CASE CountBets(r) \/ InsertBet(r)
    BY <1>1, <1>2, <1>9 DEF CountBets, InsertBet, PoolsAndBets
  <1>10. CASE MarkBetAsPaid(r) \/ \E b \in Bet : GetIntent(r, b)
    BY <1>1, <1>2, <1>10 DEF MarkBetAsPaid, GetIntent, PoolsAndBets
  <1> QED BY <1>3, <1>4, <1>5, <1>6, <1>7, <1>8, <1>9, <1>10, RestOrMove
             DEF Moves, Step

LEMMA PoolsAndBetsStep ==
    ASSUME TypeOK, Inv, PoolsAndBets, [Next]_vars
    PROVE  PoolsAndBets'
  <1>1. ASSUME NEW p \in Pool, NEW q \in Pool, Exists(p)', Exists(q)',
               poolRow'[p].meta.dest = poolRow'[q].meta.dest
        PROVE  p = q
    <2>1. PoolEvolves(p) /\ PoolEvolves(q)
      BY PoolsEvolve
    <2>2. CASE Exists(p) /\ Exists(q)
      BY <1>1, <2>1, <2>2 DEF PoolEvolves, PoolsAndBets
    <2>3. ASSUME NEW x \in Pool, NEW y \in Pool, ~Exists(x), Exists(x)',
                 Exists(y)', poolRow'[x].meta.dest = poolRow'[y].meta.dest,
                 PoolEvolves(y)
          PROVE  x = y
      <3>1. PICK z \in Pool, m \in PoolMeta :
                /\ poolRow' = [poolRow EXCEPT ![z] = Signed(m, m)]
                /\ Creates(z, m) \/ Closes(z, m) \/ Resolves(z, m)
        BY <2>3, PoolTableEffect DEF PoolChange, Exists
      <3>2. z = x /\ Creates(x, m) /\ poolRow'[x].meta = m
        BY <2>3, <3>1, SignedRow DEF Exists, Closes, Resolves, TypeOK
      <3>3. CASE y # x
        <4>1. poolRow'[y] = poolRow[y]
          BY <3>1, <3>2, <3>3 DEF TypeOK
        <4>2. Exists(y) /\ poolRow[y].meta.dest = m.dest
          BY <2>3, <3>2, <4>1 DEF Exists
        <4> QED BY <3>2, <4>2 DEF Creates, DestTaken
      <3> QED BY <3>3
    <2> QED BY <1>1, <2>1, <2>2, <2>3
  <1>2. ASSUME NEW b \in Bet, betRow'[b] # None PROVE poolRow'[betRow'[b].pool] # None
    <2>1. CASE betRow[b] # None
      <3>1. betRow'[b].pool = betRow[b].pool /\ betRow[b].pool \in Pool
        BY <2>1, BetsEvolve, BetRowFields DEF BetEvolves, TypeOK
      <3> QED BY <2>1, <3>1, PoolsEvolve DEF PoolEvolves, PoolsAndBets, Exists
    <2>2. CASE betRow[b] = None
      <3>1. PICK r \in Req : /\ call[r].pool \in Pool
                             /\ betRow'[b].pool = call[r].pool
                             /\ pc[r] = "insert_bet" /\ call[r].op = "MakeBet"
        BY <1>2, <2>2, NewBet
      <3> QED BY <3>1, PoolsEvolve DEF PoolEvolves, PoolsAndBets, Exists
    <2> QED BY <2>1, <2>2
  <1>3. ASSUME NEW r \in Req,
               pc'[r] \in {"read_bet", "check_paid", "count_bets", "insert_bet"},
               call'[r].op = "MakeBet"
        PROVE  poolRow'[call'[r].pool] # None
    BY <1>3, BettorFindsPool, PoolsEvolve DEF PoolEvolves, Exists
  <1> QED BY <1>1, <1>2, <1>3 DEF PoolsAndBets, Exists

\* What an ended request remembers is what it counted.
LEMMA MemoryKept ==
    ASSUME NEW r \in Req, Rests(r)
    PROVE  /\ Counted(r)' = Counted(r) /\ VotesOf(r)' = VotesOf(r)
           /\ \A b : EventOf(r, b)' = EventOf(r, b)
  <1>1. Counted(r)' = Counted(r)
    BY DEF Rests, Counted
  <1>2. \A o : Votes(r, o)' = Votes(r, o)
    BY <1>1 DEF Rests, Votes
  <1>3. VotesOf(r)' = VotesOf(r)
    BY <1>2 DEF VotesOf
  <1>4. \A b : EventOf(r, b)' = EventOf(r, b)
    BY <1>3 DEF Rests, EventOf
  <1> QED BY <1>1, <1>3, <1>4

LEMMA TellsKept ==
    ASSUME TypeOK, NEW e \in told, Tells(e), Rests(e.by),
           ResolutionOf(e.pool)' = ResolutionOf(e.pool)
    PROVE  Tells(e)'
  <1>1. e.by \in Req
    BY DEF TypeOK, Told
  <1> QED BY <1>1, MemoryKept DEF Tells, Rests

LEMMA TellsStep ==
    ASSUME TypeOK, Inv, ToldInv, \A e \in told : Tells(e), [Next]_vars,
           NEW e \in told'
    PROVE  Tells(e)'
  <1>1. CASE e \in told
    <2>1. e.by \in Req /\ e.pool \in Pool
      BY <1>1 DEF TypeOK, Told
    <2>2. Rests(e.by)
      BY <1>1, <2>1, DoneRests DEF Tells
    <2>3. ResolutionOf(e.pool)' = ResolutionOf(e.pool)
      BY <1>1, <2>1, ResolutionStands DEF ToldInv, ToldOnce, ResolutionOf
    <2> QED BY <1>1, <2>2, <2>3, TellsKept
  <1>2. CASE e \notin told
    <2>1. PICK r \in Req : NotifyPoolResolution(r)
      BY <1>2, ToldTableStep
    <2>2. /\ Notifying(r) /\ pc[r] = "check_paid" /\ pc'[r] = "done"
          /\ call[r].op = "ResolvePool" /\ UNCHANGED <<poolRow, bets, call, seenPool>>
          /\ e \in ResolutionEvents(r)
      BY <1>2, <2>1
         DEF NotifyPoolResolution, AllChecked, Notifying, Goto, store, local, TypeOK
    <2>3. PICK b \in Counted(r) : e = EventOf(r, b)
      BY <2>2, EventsOfBets
    <2>4. e.by = r /\ e.pool = call[r].pool
      BY <2>3, EventFields
    <2>5. seenPool[r].meta.resolution = ResolutionOf(call[r].pool)
      BY <2>2 DEF ToldInv, NotifierInv
    <2>6. EventOf(r, b)' = EventOf(r, b) /\ Counted(r)' = Counted(r)
      BY <2>2 DEF EventOf, VotesOf, Votes, Counted
    <2>7. ResolutionOf(e.pool)' = ResolutionOf(e.pool)
      BY <2>2 DEF ResolutionOf
    <2> QED BY <2>2, <2>3, <2>4, <2>5, <2>6, <2>7 DEF Tells
  <1> QED BY <1>1, <1>2

LEMMA ServerStep == ServerInv /\ [Next]_vars => ServerInv'
  <1> SUFFICES ASSUME ServerInv, [Next]_vars PROVE ServerInv'
    OBVIOUS
  <1>1. TypeOK' /\ Inv'
    BY TypeStep, InvStep DEF ServerInv
  <1>2. MembersAndBets' /\ ToldInv'
    BY MembersStep, ToldStep DEF ServerInv
  <1>3. PoolsAndBets'
    BY PoolsAndBetsStep DEF ServerInv
  <1>4. \A e \in told' : Tells(e)'
    BY TellsStep DEF ServerInv
  <1> QED BY <1>1, <1>2, <1>3, <1>4 DEF ServerInv

LEMMA ServerFound ==
    ASSUME ServerInv, NEW r \in Req, NEW p \in Pool, Finds(r, p)
    PROVE  ServerInv'
  <1>1. /\ call'[r].op = "GetPool"
        /\ \A s \in Req : s # r => Rests(s)
        /\ UNCHANGED <<poolRow, betRow, told>>
    BY FoundRequest DEF ServerInv, store
  <1>2. TypeOK' /\ Inv' /\ MembersAndBets' /\ ToldInv'
    BY FoundType, FoundInv, FoundTold DEF ServerInv
  <1>3. PoolsAndBets'
    BY <1>1 DEF ServerInv, PoolsAndBets, Exists, Rests
  <1>4. ASSUME NEW e \in told' PROVE Tells(e)'
    <2>1. e \in told /\ Tells(e) /\ e.by \in Req
      BY <1>1 DEF ServerInv, TypeOK, Told
    <2>2. e.by # r
      BY <2>1 DEF Tells, Finds
    <2>3. ResolutionOf(e.pool)' = ResolutionOf(e.pool)
      BY <1>1 DEF ResolutionOf
    <2> QED BY <1>1, <2>1, <2>2, <2>3, TellsKept DEF ServerInv
  <1> QED BY <1>2, <1>3, <1>4 DEF ServerInv

-----------------------------------------------------------------------------
(* Who takes which step *)

\* A step of a request that serves a payment call.
HandlesRightly(r) ==
    /\ asked[r] # None /\ result[r] = "none" /\ asked' = asked
    /\ result' = result \/ \E a : result' = [result EXCEPT ![r] = a]
    /\ \/ Moves(r) \/ UNCHANGED vars
       \/ \E p \in Pool : Finds(r, p)

LEMMA DistributedPool ==
    ASSUME PaymentsInv, NEW d \in paidOut
    PROVE  /\ d.pool \in Pool /\ Exists(d.pool) /\ d.by \in Req
           /\ d.verdict = ResolutionOf(d.pool) /\ d.verdict # "unknown"
  <1>1. Allowed(d) /\ d.by \in Req
    BY DEF PaymentsInv, Distributions, PaymentsTypeOK
  <1>2. Underway(d.by) /\ Distributing(d.by)
    BY <1>1 DEF Allowed, Underway, PaymentsInv
  <1> QED BY <1>1, <1>2 DEF Distributing, SeesVerdict, Allowed

LEMMA PlacedBet ==
    ASSUME PaymentsInv, NEW b \in Bet, betRow[b] # None
    PROVE  betRow[b] \in BetRow /\ betRow[b].pool \in Pool /\ Exists(betRow[b].pool)
  <1>1. betRow[b] \in BetRow
    BY DEF PaymentsInv, ServerInv, TypeOK
  <1> QED BY <1>1, BetRowFields DEF PaymentsInv, ServerInv, PoolsAndBets

LEMMA HandleIsRight ==
    ASSUME PaymentsInv, NEW r \in Req, Handle(r)
    PROVE  HandlesRightly(r)
  <1> USE DEF Starts, Serves, End
  <1>1. CASE FindPool(r)
    BY <1>1 DEF FindPool, Finds, Found, HandlesRightly
  <1>2. CASE FindBet(r)
    <2>1. asked[r].bet \in Bet
      <3>1. asked[r] \in PaymentCall /\ asked[r].op = "BetPaid"
        BY <1>2 DEF FindBet, PaymentsInv, PaymentsTypeOK
      <3> QED BY <3>1 DEF PaymentCall, BetPaid, Distribute, ReadFeed
    <2> QED BY <1>2, <2>1, PlacedBet DEF FindBet, Finds, Found, HandlesRightly
  <1>3. CASE ReadDistribution(r)
    BY <1>3, DistributedPool DEF ReadDistribution, Finds, Found, HandlesRightly
  <1>4. CASE Deny(r) \/ ForwardBetUpdate(r) \/ ReturnFeed(r) \/ Pay(r)
    BY <1>4 DEF Deny, ForwardBetUpdate, ReturnFeed, Pay, Conclude, HandlesRightly,
                Moves, Step
  <1>5. CASE Abandon(r)
    BY <1>5 DEF Abandon, HandlesRightly, Moves
  <1> QED BY <1>1, <1>2, <1>3, <1>4, <1>5 DEF Handle

\* Every step is one of PoolServer, as it sees it, or finds a pool.
LEMMA StepKinds ==
    ASSUME PaymentsInv, [PaymentsNext]_paymentVars
    PROVE  [Next]_vars \/ \E r \in Req, p \in Pool : Finds(r, p)
  <1>1. ASSUME NEW r \in Req, Handle(r)
        PROVE  [Next]_vars \/ \E p \in Pool : Finds(r, p)
    <2>1. HandlesRightly(r)
      BY <1>1, HandleIsRight
    <2> QED BY <2>1 DEF HandlesRightly, Moves, Next
  <1>2. ASSUME NEW r \in Req, Request(r) PROVE [Next]_vars
    BY <1>2 DEF Request, Count, Step, Next
  <1>3. CASE \E r \in Req, c \in PaymentCalls : Submit(r, c)
    BY <1>3 DEF Submit
  <1>4. CASE \E b \in Bet : PayBuyIn(b) \/ TakeBackBuyIn(b)
    BY <1>4 DEF PayBuyIn, TakeBackBuyIn, Next
  <1>5. CASE \E p \in Pool : Deposit(p)
    BY <1>5 DEF Deposit
  <1>6. CASE UNCHANGED paymentVars
    BY <1>6 DEF paymentVars
  <1> QED BY <1>1, <1>2, <1>3, <1>4, <1>5, <1>6 DEF PaymentsNext

LEMMA ServerInvStep ==
    ASSUME PaymentsInv, [PaymentsNext]_paymentVars
    PROVE  ServerInv'
  BY StepKinds, ServerStep, ServerFound DEF PaymentsInv

\* What becomes of pools and of bets.
LEMMA TablesEvolve ==
    ASSUME PaymentsInv, [PaymentsNext]_paymentVars
    PROVE  /\ \A p \in Pool : PoolEvolves(p)
           /\ \A b \in Bet : BetEvolves(b)
  <1>1. TypeOK /\ Inv
    BY DEF PaymentsInv, ServerInv
  <1>2. CASE [Next]_vars
    BY <1>1, <1>2, PoolsEvolve, BetsEvolve
  <1>3. ASSUME NEW r \in Req, NEW p \in Pool, Finds(r, p)
        PROVE  UNCHANGED <<poolRow, betRow>>
    BY <1>1, <1>3, FoundRequest DEF store
  <1> QED BY <1>2, <1>3, StepKinds DEF PoolEvolves, BetEvolves, Exists

LEMMA VerdictStands ==
    ASSUME PaymentsInv, [PaymentsNext]_paymentVars, NEW p \in Pool,
           Exists(p), ResolutionOf(p) # "unknown"
    PROVE  Exists(p)' /\ ResolutionOf(p)' = ResolutionOf(p)
  <1>1. Inv /\ PoolEvolves(p)
    BY TablesEvolve DEF PaymentsInv, ServerInv
  <1> QED BY <1>1 DEF PoolEvolves, ResolutionOf, Resolvable, Exists, Inv,
                      ResolvedAreClosed

\* Request r takes no step, nor is it asked for anything.
Still(r) == Rests(r) /\ asked'[r] = asked[r] /\ result'[r] = result[r]

LEMMA UnchangedIsStill ==
    ASSUME NEW r \in Req, UNCHANGED <<pc, local, reply, asked, result>>
    PROVE  Still(r)
  BY DEF Still, Rests, local

LEMMA StillOrActive ==
    ASSUME PaymentsInv, [PaymentsNext]_paymentVars, NEW r \in Req
    PROVE  \/ Still(r)
           \/ Handle(r) \/ Request(r)
           \/ \E c \in PaymentCalls : Submit(r, c)
  <1>1. TypeOK /\ Inv /\ asked \in [Req -> PaymentCall \cup {None}]
        /\ result \in [Req -> Results]
    BY DEF PaymentsInv, ServerInv, PaymentsTypeOK
  <1>2. ASSUME NEW s \in Req, s # r, Handle(s) PROVE Still(r)
    <2>1. HandlesRightly(s)
      BY <1>2, HandleIsRight
    <2>2. asked'[r] = asked[r] /\ result'[r] = result[r]
      BY <1>1, <1>2, <2>1 DEF HandlesRightly
    <2>3. CASE Moves(s)
      BY <1>1, <1>2, <2>2, <2>3, OthersRest DEF Still
    <2>4. CASE UNCHANGED vars
      BY <2>2, <2>4 DEF vars, Still, Rests
    <2>5. ASSUME NEW p \in Pool, Finds(s, p) PROVE Still(r)
      BY <1>1, <1>2, <2>2, <2>5, FoundRequest DEF Still
    <2> QED BY <2>1, <2>3, <2>4, <2>5 DEF HandlesRightly
  <1>3. ASSUME NEW s \in Req, s # r, Request(s) PROVE Still(r)
    <2>1. Moves(s) /\ asked' = asked /\ result' = result
      BY <1>3 DEF Request, Moves, Count, Step
    <2> QED BY <1>1, <1>3, <2>1, OthersRest DEF Still
  <1>4. ASSUME NEW s \in Req, s # r, NEW c \in PaymentCalls, Submit(s, c)
        PROVE  Still(r)
    BY <1>1, <1>4 DEF Submit, vars, Still, Rests
  <1>5. CASE \E b \in Bet : PayBuyIn(b) \/ TakeBackBuyIn(b)
    BY <1>5, UnchangedIsStill
       DEF PayBuyIn, TakeBackBuyIn, IntentSubmitted, IntentRevoked
  <1>6. CASE \E p \in Pool : Deposit(p)
    BY <1>6 DEF Deposit, vars, Still, Rests
  <1>7. CASE UNCHANGED paymentVars
    BY <1>7 DEF paymentVars, vars, Still, Rests
  <1> QED BY <1>2, <1>3, <1>4, <1>5, <1>6, <1>7 DEF PaymentsNext

\* A request that serves a payment call and has ended stays as it is.
LEMMA EndedIsStill ==
    ASSUME PaymentsInv, [PaymentsNext]_paymentVars, NEW r \in Req,
           result[r] # "none" \/ pc[r] = "done"
    PROVE  Still(r)
  <1>1. Serving(r) /\ TypeOK
    BY DEF PaymentsInv, ServerInv
  <1>2. ~\E c \in PaymentCalls : Submit(r, c)
    BY <1>1 DEF Submit, Serving
  <1>3. ~Request(r)
    <2>1. CASE pc[r] = "done"
      BY <2>1 DEF Request, Count, Step, Reject, Fail, Begin, CreatePool, CloseReadPool,
           ClosePool, ResolveReadPool, ResolvePool, NotifyReadPool, NotifyPoolResolution,
           MakeBetReadPool, GetBetByUser, KeepBet, UpdateBetOutcome, CountBets,
           InsertBet, GetPoolReadPool, GetBetsByPool, ReturnPool, MarkBetAsPaid,
           GetIntent, AllChecked, At
    <2>2. CASE result[r] # "none"
      BY <1>1, <2>2 DEF Serving, Underway, Request, Count, GetBetsByPool, MarkBetAsPaid,
                        GetIntent
    <2> QED BY <2>1, <2>2
  <1>4. ~Handle(r)
    <2>1. CASE result[r] # "none"
      BY <2>1, HandleIsRight DEF HandlesRightly
    <2>2. CASE result[r] = "none" /\ pc[r] = "done"
      BY <1>1, <2>2, HandleIsRight DEF HandlesRightly, Serving, Underway
    <2> QED BY <2>1, <2>2
  <1> QED BY <1>2, <1>3, <1>4, StillOrActive

-----------------------------------------------------------------------------
(* Types *)

LEMMA PlanFacts ==
    ASSUME NEW plan \in Plans
    PROVE  /\ plan \in Seq(Payment) /\ Len(plan) \in Nat
           /\ DOMAIN plan = 1..Len(plan)
           /\ \A i \in 1..Len(plan) : plan[i].amount \in Nat /\ plan[i].to \in Account
           /\ Amounts(plan) \in Seq(Nat) /\ Len(Amounts(plan)) = Len(plan)
           /\ \A i \in 1..Len(plan) : Amounts(plan)[i] = plan[i].amount
           /\ \A a : AmountsTo(plan, a) \in Seq(Nat)
  <1>1. plan \in Seq(Payment)
    BY PaymentsAssumption
  <1>2. \A i \in 1..Len(plan) : plan[i] \in Payment
    BY <1>1
  <1>3. \A i \in 1..Len(plan) : plan[i].amount \in Nat /\ plan[i].to \in Account
    BY <1>2 DEF Payment
  <1>4. Len(plan) \in Nat /\ DOMAIN plan = 1..Len(plan)
    BY <1>1
  <1>5. Amounts(plan) \in [1..Len(plan) -> Nat]
    BY <1>3 DEF Amounts
  <1>6. ASSUME NEW a PROVE AmountsTo(plan, a) \in [1..Len(plan) -> Nat]
    BY <1>3 DEF AmountsTo
  <1>7. \A f : f \in [1..Len(plan) -> Nat] => f \in Seq(Nat) /\ Len(f) = Len(plan)
    BY <1>4, IsASeq, LenProperties
  <1> QED BY <1>1, <1>3, <1>4, <1>5, <1>6, <1>7 DEF Amounts

LEMMA PaymentCallFields ==
    ASSUME NEW c \in PaymentCall
    PROVE  /\ c.op \in {"Distribute", "BetPaid", "ReadFeed"}
           /\ c.op = "Distribute" => c.source \in Account /\ c = Distribute(c.source)
           /\ c.op = "BetPaid" => c.bet \in Bet /\ c = BetPaid(c.bet)
           /\ c.op = "ReadFeed" => c.user \in User /\ c = ReadFeed(c.user)
  BY DEF PaymentCall, Distribute, BetPaid, ReadFeed

LEMMA BetPaidIs ==
    \A b : BetPaid(b).op = "BetPaid" /\ BetPaid(b).bet = b
  BY DEF BetPaid

\* The pool and the bets of a request that counts.
LEMMA CountsInPool ==
    ASSUME PaymentsInv, NEW r \in Req, Underway(r)
    PROVE  /\ call[r] \in Call /\ call[r].pool \in Pool
           /\ seenPool[r] \in PoolRow /\ seenPool[r].meta.resolution \in Resolution
           /\ Counted(r) \subseteq Bet /\ IsFiniteSet(Counted(r))
           /\ Cardinality(Counted(r)) \in Nat
           /\ asked[r] \in PaymentCall
  <1>1. TypeOK /\ Called(r) /\ Serving(r)
    BY DEF PaymentsInv, ServerInv, Inv, RequestInv
  <1>2. call[r] \in Call /\ call[r].pool \in Pool
    BY <1>1, CallFields DEF Underway, Called, TypeOK
  <1>3. seenPool[r] \in PoolRow
    BY <1>1 DEF Serving, TypeOK
  <1>4. Counted(r) \subseteq Bet /\ IsFiniteSet(Counted(r))
    BY <1>1, CountedBets DEF Counted
  <1>5. asked[r] \in PaymentCall
    BY DEF PaymentsInv, PaymentsTypeOK, Underway
  <1> QED BY <1>2, <1>3, <1>4, <1>5, PoolRowFields, PoolMetaFields, FS_CardinalityType

\* The last step of a distribution.
LEMMA PayFacts ==
    ASSUME PaymentsInv, NEW r \in Req, Pay(r)
    PROVE  \E plan \in Valid(r) :
              /\ Execute(r, plan) /\ plan \in Plans
              /\ Underway(r) /\ asked[r].op = "Distribute"
              /\ asked[r].source \in Account
              /\ AllChecked(r) /\ pc'[r] = "done" /\ asked' = asked
              /\ result' = [result EXCEPT ![r] = "OK"]
              /\ UNCHANGED <<store, intent, local, told, announced>>
              /\ \A s \in Req : s # r => Still(s)
  <1>1. PICK plan \in Valid(r) : Execute(r, plan)
    BY DEF Pay
  <1>2. /\ Underway(r) /\ asked[r].op = "Distribute" /\ AllChecked(r)
        /\ pc' = [pc EXCEPT ![r] = "done"] /\ reply' = [reply EXCEPT ![r] = "OK"]
        /\ asked' = asked /\ result' = [result EXCEPT ![r] = "OK"]
        /\ UNCHANGED <<store, intent, local, told, announced>>
    BY DEF Pay, Conclude, Serves, ReturnPool, End, Answer, Goto, AllChecked, Underway
  <1>3. TypeOK /\ asked \in [Req -> PaymentCall \cup {None}]
        /\ result \in [Req -> Results]
    BY DEF PaymentsInv, ServerInv, PaymentsTypeOK
  <1>4. asked[r].source \in Account
    BY <1>2, CountsInPool, PaymentCallFields
  <1>5. \A s \in Req : s # r => Still(s)
    BY <1>2, <1>3 DEF Still, Rests, local, TypeOK
  <1> QED BY <1>1, <1>2, <1>3, <1>4, <1>5 DEF Valid, TypeOK

\* The record of an execution.
Paying(r, plan) ==
    [by |-> r, pool |-> call[r].pool, verdict |-> seenPool[r].meta.resolution,
     counted |-> Counted(r), plan |-> plan, shared |-> balance[asked[r].source],
     earlier |-> Cardinality({d \in paidOut : d.pool = call[r].pool})]

LEMMA ExecuteIsPaying ==
    ASSUME NEW r, NEW plan, Execute(r, plan)
    PROVE  /\ paidOut' = paidOut \cup {Paying(r, plan)}
           /\ balance' = [a \in Account |->
                (IF a = asked[r].source THEN 0 ELSE balance[a])
                    + Total(AmountsTo(plan, a))]
  BY DEF Execute, Paying

LEMMA PayingFields ==
    \A r, plan :
        LET d == Paying(r, plan)
        IN  /\ d.by = r /\ d.pool = call[r].pool
            /\ d.verdict = seenPool[r].meta.resolution
            /\ d.counted = Counted(r) /\ d.plan = plan
            /\ d.shared = balance[asked[r].source]
            /\ d.earlier = Cardinality({e \in paidOut : e.pool = call[r].pool})
  BY DEF Paying

\* The steps that move money.
LEMMA MoneySteps ==
    ASSUME [PaymentsNext]_paymentVars
    PROVE  \/ UNCHANGED money
           \/ \E r \in Req : Pay(r) \/ ForwardBetUpdate(r)
           \/ \E b \in Bet : PayBuyIn(b) \/ TakeBackBuyIn(b)
           \/ \E p \in Pool : Deposit(p)
  BY DEF PaymentsNext, paymentVars, money, Handle, Request, Submit, FindPool, Found,
         FindBet, Deny, ReadDistribution, ReturnFeed, Abandon

\* The account of the pool of a bet.
LEMMA AccountOfBet ==
    ASSUME PaymentsInv, NEW b \in Bet, betRow[b] # None
    PROVE  PoolAccount(b) \in Account
  <1>1. poolRow[betRow[b].pool] \in PoolRow
    BY PlacedBet DEF PaymentsInv, ServerInv, TypeOK, Exists
  <1> QED BY <1>1, PoolRowFields, PoolMetaFields DEF PoolAccount

LEMMA BalanceType ==
    ASSUME PaymentsInv, [PaymentsNext]_paymentVars
    PROVE  balance' \in [Account -> Nat]
  <1>1. balance \in [Account -> Nat] /\ BuyIn \in Nat \ {0}
    BY PaymentsAssumption DEF PaymentsInv, PaymentsTypeOK
  <1>2. CASE UNCHANGED money
    BY <1>1, <1>2 DEF money
  <1>3. ASSUME NEW r \in Req, Pay(r) PROVE balance' \in [Account -> Nat]
    <2>1. PICK plan \in Plans : Execute(r, plan)
      BY <1>3, PayFacts
    <2>2. \A a \in Account : Total(AmountsTo(plan, a)) \in Nat
      BY PlanFacts, TotalIsNat
    <2> QED BY <1>1, <2>1, <2>2, ExecuteIsPaying
  <1>4. CASE \E r \in Req : ForwardBetUpdate(r)
    BY <1>1, <1>4 DEF ForwardBetUpdate
  <1>5. ASSUME NEW b \in Bet, PayBuyIn(b) PROVE balance' \in [Account -> Nat]
    <2>1. /\ PoolAccount(b) \in Account
          /\ balance' = [balance EXCEPT ![PoolAccount(b)] = @ + BuyIn]
      BY <1>5, AccountOfBet DEF PayBuyIn
    <2> QED BY <1>1, <2>1
  <1>6. ASSUME NEW b \in Bet, TakeBackBuyIn(b) PROVE balance' \in [Account -> Nat]
    <2>1. /\ PoolAccount(b) \in Account /\ balance[PoolAccount(b)] >= BuyIn
          /\ balance' = [balance EXCEPT ![PoolAccount(b)] = @ - BuyIn]
      BY <1>6, AccountOfBet DEF TakeBackBuyIn, Revocable
    <2> QED BY <1>1, <2>1
  <1>7. ASSUME NEW p \in Pool, Deposit(p) PROVE balance' \in [Account -> Nat]
    <2>1. poolRow[p] \in PoolRow
      BY <1>7 DEF Deposit, Exists, PaymentsInv, ServerInv, TypeOK
    <2>2. poolRow[p].meta.dest \in Account
      BY <2>1, PoolRowFields, PoolMetaFields
    <2> QED BY <1>1, <1>7, <2>2 DEF Deposit
  <1> QED BY <1>2, <1>3, <1>4, <1>5, <1>6, <1>7, MoneySteps

LEMMA PaymentsTypeStep ==
    ASSUME PaymentsInv, [PaymentsNext]_paymentVars
    PROVE  PaymentsTypeOK'
  <1>1. PaymentsTypeOK /\ IsFiniteSet(paidOut)
    BY DEF PaymentsInv, Distributions
  <1>2. asked' \in [Req -> PaymentCall \cup {None}]
    <2>1. CASE asked' = asked
      BY <1>1, <2>1 DEF PaymentsTypeOK
    <2>2. ASSUME NEW r \in Req, NEW c \in PaymentCalls, Submit(r, c)
          PROVE  asked' \in [Req -> PaymentCall \cup {None}]
      BY <1>1, <2>2, PaymentsAssumption DEF Submit, PaymentsTypeOK
    <2> QED BY <2>1, <2>2, HandleIsRight
        DEF PaymentsNext, paymentVars, HandlesRightly, Request, PayBuyIn,
            TakeBackBuyIn, Deposit
  <1>3. result' \in [Req -> Results]
    <2>1. CASE result' = result
      BY <1>1, <2>1 DEF PaymentsTypeOK
    <2>2. ASSUME NEW r \in Req, Handle(r) PROVE result' \in [Req -> Results]
      <3>1. \/ result' = result
            \/ \E a \in Results : result' = [result EXCEPT ![r] = a]
        BY <2>2 DEF Handle, FindPool, Found, FindBet, ReadDistribution, Deny,
                    ForwardBetUpdate, ReturnFeed, Abandon, Pay, Conclude, End, Results
      <3> QED BY <1>1, <3>1 DEF PaymentsTypeOK
    <2> QED BY <2>1, <2>2
        DEF PaymentsNext, paymentVars, Request, Submit, PayBuyIn, TakeBackBuyIn, Deposit
  <1>4. ASSUME NEW d \in paidOut'
        PROVE  /\ d.by \in Req /\ d.pool \in Pool /\ d.verdict \in Resolution
               /\ d.counted \subseteq Bet /\ d.plan \in Plans
               /\ d.shared \in Nat /\ d.earlier \in Nat
    <2>1. CASE d \in paidOut
      BY <1>1, <2>1 DEF PaymentsTypeOK
    <2>2. ASSUME NEW r \in Req, Pay(r), d \notin paidOut
          PROVE  /\ d.by \in Req /\ d.pool \in Pool /\ d.verdict \in Resolution
                 /\ d.counted \subseteq Bet /\ d.plan \in Plans
                 /\ d.shared \in Nat /\ d.earlier \in Nat
      <3>1. PICK plan \in Plans : /\ Execute(r, plan) /\ Underway(r)
                                  /\ asked[r].source \in Account
        BY <2>2, PayFacts
      <3>2. d = Paying(r, plan)
        BY <2>2, <3>1, ExecuteIsPaying
      <3>3. Cardinality({e \in paidOut : e.pool = call[r].pool}) \in Nat
        BY <1>1, FS_Subset, FS_CardinalityType
      <3>4. balance[asked[r].source] \in Nat
        BY <1>1, <3>1 DEF PaymentsTypeOK
      <3> QED BY <3>1, <3>2, <3>3, <3>4, PayingFields, CountsInPool
    <2> QED BY <2>1, <2>2, MoneySteps
        DEF money, ForwardBetUpdate, PayBuyIn, TakeBackBuyIn, Deposit
  <1>5. ASSUME NEW e \in announced'
        PROVE  e.bet \in Bet /\ e.pool \in Pool /\ e.counted \subseteq Bet
    <2>1. CASE e \in announced
      BY <1>1, <2>1 DEF PaymentsTypeOK
    <2>2. ASSUME NEW r \in Req, ForwardBetUpdate(r), e \notin announced
          PROVE  e.bet \in Bet /\ e.pool \in Pool /\ e.counted \subseteq Bet
      <3>1. /\ Underway(r) /\ asked[r].op = "BetPaid"
            /\ e = [bet |-> asked[r].bet, pool |-> call[r].pool, counted |-> Counted(r)]
        BY <2>2 DEF ForwardBetUpdate, Conclude, Serves, ReturnPool, AllChecked, Underway
      <3> QED BY <3>1, CountsInPool, PaymentCallFields
    <2> QED BY <2>1, <2>2, MoneySteps
        DEF money, Pay, PayBuyIn, TakeBackBuyIn, Deposit
  <1> QED BY <1>2, <1>3, <1>4, <1>5, BalanceType DEF PaymentsTypeOK

-----------------------------------------------------------------------------
(* Requests that serve payments *)

\* What the handling of a payment call does to its request: it finds a pool,
\* ends before, or ends afterwards.
LEMMA HandleEnds ==
    ASSUME PaymentsInv, NEW r \in Req, Handle(r)
    PROVE  /\ asked[r] # None /\ asked' = asked /\ result[r] = "none"
           /\ \/ (\E p \in Pool : Finds(r, p)) /\ result' = result
              \/ /\ pc[r] = "idle" /\ UNCHANGED vars /\ result'[r] # "none"
              \/ /\ pc[r] \notin {"idle", "done"}
                 /\ pc' = [pc EXCEPT ![r] = "done"]
                 /\ UNCHANGED <<store, intent, local, told>>
                 /\ result'[r] # "none"
  <1>1. HandlesRightly(r) /\ result \in [Req -> Results]
    BY HandleIsRight DEF PaymentsInv, PaymentsTypeOK
  <1> USE DEF Starts, Serves, End
  <1>2. CASE FindPool(r)
    BY <1>1, <1>2 DEF FindPool, Finds, Found, HandlesRightly
  <1>3. CASE FindBet(r)
    <2>1. asked[r].bet \in Bet
      BY <1>3, PaymentCallFields DEF FindBet, PaymentsInv, PaymentsTypeOK
    <2> QED BY <1>1, <1>3, <2>1, PlacedBet DEF FindBet, Finds, Found, HandlesRightly
  <1>4. CASE ReadDistribution(r)
    BY <1>1, <1>4, DistributedPool
       DEF ReadDistribution, Finds, Found, HandlesRightly
  <1>5. CASE Deny(r) \/ ForwardBetUpdate(r) \/ ReturnFeed(r) \/ Pay(r)
    BY <1>1, <1>5 DEF Deny, ForwardBetUpdate, ReturnFeed, Pay, Conclude, ReturnPool,
                AllChecked, Answer, Goto, HandlesRightly
  <1>6. CASE Abandon(r)
    BY <1>1, <1>6 DEF Abandon, HandlesRightly, Fail, Goto
  <1> QED BY <1>1, <1>2, <1>3, <1>4, <1>5, <1>6 DEF Handle, HandlesRightly

\* Counting moves a request on, with the same pool.
LEMMA CountFacts ==
    ASSUME TypeOK, Inv, NEW r \in Req, Count(r)
    PROVE  /\ call'[r] = call[r] /\ seenPool'[r] = seenPool[r]
           /\ pc[r] \in {"read_bets", "check_paid"} /\ pc'[r] = "check_paid"
           /\ pc[r] = "check_paid" => Counted(r) \subseteq Counted(r)'
  <1>1. CASE GetBetsByPool(r)
    BY <1>1 DEF GetBetsByPool, Goto, TypeOK
  <1>2. CASE MarkBetAsPaid(r)
    <2> DEFINE a == paying[r]
    <2>1. /\ pc[r] = "check_paid" /\ UNCHANGED <<pc, call, seenPool>>
          /\ bets' = [bets EXCEPT ![r][a].paid = TRUE]
      BY <1>2 DEF MarkBetAsPaid
    <2>2. ASSUME NEW b \in Counted(r) PROVE b \in Counted(r)'
      <3>1. b \in Bet /\ bets[r][b] \in BetRow /\ bets[r][b].paid
        BY DEF Counted, TypeOK
      <3>2. \/ bets'[r][b] = bets[r][b]
            \/ bets'[r][b] = [bets[r][b] EXCEPT !.paid = TRUE]
        BY <2>1, <3>1 DEF TypeOK
      <3>3. [bets[r][b] EXCEPT !.paid = TRUE] \in BetRow
        BY <3>1 DEF BetRow
      <3> QED BY <3>1, <3>2, <3>3, NoneIsNoRow DEF Counted, BetRow
    <2> QED BY <2>1, <2>2
  <1>3. CASE \E b \in Bet : GetIntent(r, b)
    BY <1>3 DEF GetIntent, Counted
  <1> QED BY <1>1, <1>2, <1>3 DEF Count

LEMMA ServingStep ==
    ASSUME PaymentsInv, [PaymentsNext]_paymentVars, NEW r \in Req
    PROVE  Serving(r)'
  <1>1. Serving(r) /\ TypeOK /\ Inv
    BY DEF PaymentsInv, ServerInv
  <1>2. CASE Still(r)
    BY <1>1, <1>2 DEF Still, Rests, Serving, Underway
  <1>3. CASE Request(r) /\ asked[r] = None
    <2>1. asked' = asked /\ result' = result /\ [Next]_vars
      BY <1>3 DEF Request, Next
    <2> QED BY <1>1, <1>3, <2>1, CallKept DEF Serving, Underway
  <1>4. CASE Request(r) /\ asked[r] # None
    <2>1. Count(r) /\ asked' = asked /\ result' = result
      BY <1>4 DEF Request
    <2> QED BY <1>1, <1>4, <2>1, CountFacts DEF Serving, Underway
  <1>5. CASE Handle(r)
    <2>1. ASSUME NEW p \in Pool, Finds(r, p), result' = result PROVE Serving(r)'
      BY <1>1, <1>5, <2>1, HandleEnds, FoundRequest, NoneIsNoRow DEF Serving, Underway
    <2>2. CASE pc[r] = "idle" /\ UNCHANGED vars /\ result'[r] # "none"
      BY <1>5, <2>2, HandleEnds DEF Serving, Underway, vars
    <2>3. CASE /\ pc[r] \notin {"idle", "done"}
               /\ pc' = [pc EXCEPT ![r] = "done"]
               /\ UNCHANGED local /\ result'[r] # "none"
      BY <1>1, <1>5, <2>3, HandleEnds DEF Serving, Underway, local, TypeOK
    <2> QED BY <1>5, <2>1, <2>2, <2>3, HandleEnds
  <1>6. CASE \E c \in PaymentCalls : Submit(r, c)
    BY <1>1, <1>6, PaymentsAssumption
       DEF Submit, vars, Serving, Underway, PaymentsInv, PaymentsTypeOK
  <1> QED BY <1>2, <1>3, <1>4, <1>5, <1>6, StillOrActive

LEMMA SeesVerdictKept ==
    ASSUME PaymentsInv, [PaymentsNext]_paymentVars, NEW r \in Req, SeesVerdict(r),
           call'[r] = call[r], seenPool'[r] = seenPool[r]
    PROVE  SeesVerdict(r)'
  <1> DEFINE p == call[r].pool
  <1>1. /\ p \in Pool /\ Exists(p) /\ ResolutionOf(p) # "unknown"
        /\ seenPool[r].meta.resolution = ResolutionOf(p)
    BY DEF SeesVerdict
  <1>2. poolRow'[p] # None /\ poolRow'[p].meta.resolution = ResolutionOf(p)
    BY <1>1, VerdictStands DEF Exists, ResolutionOf
  <1> QED BY <1>1, <1>2 DEF SeesVerdict, Exists, ResolutionOf

\* The request is underway and was so with the same pool in hand.
Onward(r) == /\ asked'[r] = asked[r] /\ Underway(r)
             /\ call'[r] = call[r] /\ seenPool'[r] = seenPool[r]

\* A request that serves a payment call moves on, or has just found its pool.
LEMMA FoundOrOnward ==
    ASSUME PaymentsInv, [PaymentsNext]_paymentVars, NEW r \in Req, Underway(r)'
    PROVE  \/ Onward(r) /\ (Still(r) \/ Count(r) \/ pc'[r] = "done")
           \/ FindPool(r) \/ FindBet(r) \/ ReadDistribution(r)
  <1>1. TypeOK /\ Inv
    BY DEF PaymentsInv, ServerInv
  <1>2. CASE Still(r)
    BY <1>2 DEF Still, Rests, Underway, Onward
  <1>3. CASE Request(r)
    BY <1>1, <1>3, CountFacts DEF Request, Underway, Onward
  <1>4. CASE Deny(r) \/ ForwardBetUpdate(r) \/ ReturnFeed(r) \/ Pay(r)
    BY <1>1, <1>4 DEF Deny, ForwardBetUpdate, ReturnFeed, Pay, Conclude, Serves, ReturnPool,
                AllChecked, Answer, Goto, End, Onward, Underway, local, TypeOK
  <1>5. CASE Abandon(r)
    BY <1>1, <1>5 DEF Abandon, Fail, Goto, End, Onward, Underway, local, vars, TypeOK
  <1>6. CASE \E c \in PaymentCalls : Submit(r, c)
    BY <1>6 DEF Submit, vars, Underway
  <1> QED BY <1>2, <1>3, <1>4, <1>5, <1>6, StillOrActive DEF Handle

LEMMA DistributingStep ==
    ASSUME PaymentsInv, [PaymentsNext]_paymentVars, NEW r \in Req
    PROVE  Distributing(r)'
  <1> SUFFICES ASSUME Underway(r)', asked'[r].op = "Distribute"
               PROVE  SeesVerdict(r)' /\ poolRow'[call'[r].pool].meta.dest = asked'[r].source
    BY DEF Distributing
  <1>1. TypeOK /\ Inv /\ Distributing(r)
    BY DEF PaymentsInv, ServerInv
  <1>2. CASE Onward(r)
    <2>1. /\ SeesVerdict(r) /\ poolRow[call[r].pool].meta.dest = asked[r].source
      BY <1>1, <1>2 DEF Distributing, Onward
    <2>2. SeesVerdict(r)'
      BY <1>2, <2>1, SeesVerdictKept DEF Onward
    <2>3. poolRow'[call[r].pool].meta.dest = poolRow[call[r].pool].meta.dest
      BY <2>1, TablesEvolve DEF SeesVerdict, PoolEvolves
    <2> QED BY <1>2, <2>1, <2>2, <2>3 DEF Onward
  <1>3. CASE FindPool(r)
    <2>1. /\ asked[r] # None /\ asked' = asked /\ result[r] = "none" /\ pc[r] = "idle"
          /\ \/ \E p \in Pool : /\ Exists(p) /\ poolRow[p].meta.dest = asked[r].source
                                /\ Distributable(poolRow[p]) /\ Found(r, p)
             \/ UNCHANGED vars
      BY <1>3 DEF FindPool, Starts, Serves, Found, End
    <2>2. CASE UNCHANGED vars
      BY <2>1, <2>2 DEF vars, Underway
    <2>3. ASSUME NEW p \in Pool, Exists(p), poolRow[p].meta.dest = asked[r].source,
                 Distributable(poolRow[p]), Found(r, p)
          PROVE  SeesVerdict(r)' /\ poolRow'[call'[r].pool].meta.dest = asked'[r].source
      <3>1. Finds(r, p)
        BY <2>1, <2>3 DEF Finds
      <3>2. call'[r].pool = p /\ seenPool'[r] = poolRow[p] /\ poolRow' = poolRow
        BY <1>1, <3>1, FoundRequest DEF store
      <3> QED BY <2>1, <2>3, <3>2 DEF SeesVerdict, Exists, ResolutionOf, Distributable
    <2> QED BY <2>1, <2>2, <2>3
  <1>4. CASE FindBet(r) \/ ReadDistribution(r)
    BY <1>4 DEF FindBet, ReadDistribution, Starts, Serves, Found, End
  <1> QED BY <1>2, <1>3, <1>4, FoundOrOnward

LEMMA PaidOutGrows ==
    ASSUME [PaymentsNext]_paymentVars
    PROVE  paidOut \subseteq paidOut'
  BY MoneySteps DEF money, Pay, Execute, ForwardBetUpdate, PayBuyIn, TakeBackBuyIn, Deposit

\* A request that counts the bets of a pool counts those of the distributions
\* of the pool.
LEMMA CountsWhatWasPaid ==
    ASSUME PaymentsInv, NEW r \in Req, GetBetsByPool(r),
           NEW d \in paidOut, d.pool = call[r].pool
    PROVE  d.counted \subseteq Counted(r)'
  <1>1. TypeOK /\ Inv /\ Allowed(d) /\ d.by \in Req
    BY DEF PaymentsInv, ServerInv, Distributions, PaymentsTypeOK
  <1>2. ASSUME NEW b \in d.counted PROVE b \in Counted(r)'
    <2>1. b \in Bet /\ bets[d.by][b] # None /\ bets[d.by][b].paid
      BY <1>1 DEF Allowed, Counted
    <2>2. betRow[b] # None /\ betRow[b].pool = call[r].pool /\ betRow[b].paid
      BY <1>1, <2>1 DEF Allowed, Inv, RequestInv, HeldBetsAreStored
    <2>3. bets'[r][b] = betRow[b]
      BY <1>1, <2>1, <2>2 DEF GetBetsByPool, SeeBets, BetsOf, TypeOK
    <2> QED BY <2>1, <2>2, <2>3 DEF Counted
  <1> QED BY <1>2

LEMMA FeedStep ==
    ASSUME PaymentsInv, [PaymentsNext]_paymentVars, NEW r \in Req
    PROVE  Feed(r)'
  <1> SUFFICES ASSUME Underway(r)', asked'[r].op = "ReadFeed"
               PROVE  SeesVerdict(r)' /\ \E d \in paidOut' : ShownTo(r, d)'
    BY DEF Feed
  <1>1. TypeOK /\ Inv /\ Feed(r)
    BY DEF PaymentsInv, ServerInv
  <1>2. CASE Onward(r) /\ (Still(r) \/ Count(r) \/ pc'[r] = "done")
    <2>1. PICK d \in paidOut : ShownTo(r, d)
      BY <1>1, <1>2 DEF Feed, Onward
    <2>2. SeesVerdict(r)'
      BY <1>1, <1>2, SeesVerdictKept DEF Feed, Onward
    <2>3. d.pool = call[r].pool /\ Pays(d, asked[r].user)
      BY <2>1 DEF ShownTo
    <2>4. pc'[r] = "check_paid" => d.counted \subseteq Counted(r)'
      <3>1. CASE Still(r)
        BY <2>1, <3>1, MemoryKept DEF ShownTo, Still, Rests
      <3>2. CASE GetBetsByPool(r)
        BY <2>3, <3>2, CountsWhatWasPaid
      <3>3. CASE Count(r) /\ ~GetBetsByPool(r)
        <4>1. pc[r] = "check_paid"
          BY <3>3 DEF Count, MarkBetAsPaid, GetIntent
        <4> QED BY <1>1, <2>1, <3>3, <4>1, CountFacts DEF ShownTo
      <3> QED BY <1>2, <3>1, <3>2, <3>3
    <2>5. ShownTo(r, d)'
      BY <1>2, <2>3, <2>4 DEF ShownTo, Onward, Pays
    <2> QED BY <2>2, <2>5, PaidOutGrows
  <1>3. CASE ReadDistribution(r)
    <2>1. /\ asked[r] # None /\ asked' = asked /\ result[r] = "none" /\ pc[r] = "idle"
          /\ \/ \E d \in paidOut : Pays(d, asked[r].user) /\ Found(r, d.pool)
             \/ UNCHANGED vars
      BY <1>3 DEF ReadDistribution, Starts, Serves, Found, End
    <2>2. CASE UNCHANGED vars
      BY <2>1, <2>2 DEF vars, Underway
    <2>3. ASSUME NEW d \in paidOut, Pays(d, asked[r].user), Found(r, d.pool)
          PROVE  SeesVerdict(r)' /\ \E e \in paidOut' : ShownTo(r, e)'
      <3>1. /\ d.pool \in Pool /\ Exists(d.pool) /\ ResolutionOf(d.pool) # "unknown"
        BY DistributedPool
      <3>2. Finds(r, d.pool)
        BY <2>1, <2>3, <3>1 DEF Finds
      <3>3. /\ call'[r].pool = d.pool /\ seenPool'[r] = poolRow[d.pool]
            /\ poolRow' = poolRow /\ pc'[r] = "read_bets" /\ asked' = asked
        BY <1>1, <3>1, <3>2, FoundRequest DEF store
      <3>4. SeesVerdict(r)'
        BY <3>1, <3>3 DEF SeesVerdict, Exists, ResolutionOf
      <3>5. ShownTo(r, d)'
        BY <2>3, <3>3 DEF ShownTo, Pays
      <3> QED BY <3>4, <3>5, PaidOutGrows
    <2> QED BY <2>1, <2>2, <2>3
  <1>4. CASE FindPool(r) \/ FindBet(r)
    BY <1>4 DEF FindBet, FindPool, Starts, Serves, Found, End
  <1> QED BY <1>2, <1>3, <1>4, FoundOrOnward

-----------------------------------------------------------------------------
(* Intents, marks and the accounts of bets *)

LEMMA IntentKept == \A r \in Req : Moves(r) => UNCHANGED intent
  BY DEF Moves, Step, store, local, Begin, Reject, Fail, CreatePool,
         CloseReadPool, ClosePool, ResolveReadPool, ResolvePool, NotifyReadPool,
         NotifyPoolResolution, MakeBetReadPool, GetBetByUser, KeepBet,
         UpdateBetOutcome, CountBets, InsertBet, GetPoolReadPool, GetBetsByPool,
         ReturnPool, MarkBetAsPaid, GetIntent

\* Only the Code system changes intents.
LEMMA IntentSteps ==
    ASSUME PaymentsInv, [PaymentsNext]_paymentVars
    PROVE  \/ UNCHANGED intent
           \/ \E b \in Bet : PayBuyIn(b) \/ TakeBackBuyIn(b)
  <1>1. ASSUME NEW r \in Req, Handle(r) PROVE UNCHANGED intent
    BY <1>1, HandleEnds DEF Finds, Found, vars
  <1>2. ASSUME NEW r \in Req, Request(r) PROVE UNCHANGED intent
    BY <1>2, IntentKept DEF Request, Moves, Count, Step
  <1> QED BY <1>1, <1>2
          DEF PaymentsNext, paymentVars, vars, Submit, Deposit

\* An intent is for a bet that was placed, and once it is there it may be taken
\* back, for good.
LEMMA IntentsEvolve ==
    ASSUME PaymentsInv, [PaymentsNext]_paymentVars, NEW b \in Bet
    PROVE  /\ intent[b] # "none" => intent'[b] # "none"
           /\ intent[b] = "revoked" => intent'[b] = "revoked"
           /\ intent'[b] # intent[b] => betRow[b] # None
           /\ intent'[b] = "match" /\ intent[b] # "match" => PayBuyIn(b)
  <1>1. intent \in [Bet -> {"none", "match", "revoked"}]
    BY DEF PaymentsInv, ServerInv, TypeOK
  <1>2. ASSUME NEW a \in Bet, PayBuyIn(a)
        PROVE  /\ betRow[a] # None /\ intent[a] = "none"
               /\ intent' = [intent EXCEPT ![a] = "match"]
    BY <1>2 DEF PayBuyIn, IntentSubmitted
  <1>3. ASSUME NEW a \in Bet, TakeBackBuyIn(a)
        PROVE  /\ betRow[a] # None /\ intent[a] = "match"
               /\ intent' = [intent EXCEPT ![a] = "revoked"]
    BY <1>3 DEF TakeBackBuyIn, IntentRevoked
  <1>4. ASSUME NEW a \in Bet, PayBuyIn(a)
        PROVE  /\ intent[b] # "none" => intent'[b] # "none"
               /\ intent[b] = "revoked" => intent'[b] = "revoked"
               /\ intent'[b] # intent[b] => betRow[b] # None
               /\ intent'[b] = "match" /\ intent[b] # "match" => PayBuyIn(b)
    <2>1. CASE a = b
      BY <1>1, <1>2, <1>4, <2>1
    <2>2. CASE a # b
      BY <1>1, <1>2, <1>4, <2>2
    <2> QED BY <2>1, <2>2
  <1>5. ASSUME NEW a \in Bet, TakeBackBuyIn(a)
        PROVE  /\ intent[b] # "none" => intent'[b] # "none"
               /\ intent[b] = "revoked" => intent'[b] = "revoked"
               /\ intent'[b] # intent[b] => betRow[b] # None
               /\ intent'[b] = "match" => intent[b] = "match"
    BY <1>1, <1>3, <1>5
  <1> QED BY <1>4, <1>5, IntentSteps

\* Who marks a bet found its intent.
LEMMA MarkStep ==
    ASSUME PaymentsInv, [PaymentsNext]_paymentVars, NEW b \in Bet,
           betRow'[b] # None, betRow'[b].paid
    PROVE  \/ betRow[b] # None /\ betRow[b].paid
           \/ \E r \in Req : paying[r] = b
  <1>1. TypeOK /\ Inv
    BY DEF PaymentsInv, ServerInv
  <1>2. CASE betRow' = betRow
    BY <1>2
  <1>3. ASSUME NEW r \in Req, UpdateBetOutcome(r)
        PROVE  betRow[b] # None /\ betRow[b].paid
    <2> DEFINE c == call[r]
               new == [user |-> c.user, outcome |-> c.choice, payTo |-> c.account]
    <2>1. c \in Call /\ c.op = "MakeBet" /\ pc[r] = "check_paid"
      BY <1>1, <1>3 DEF UpdateBetOutcome, AllChecked, Inv, RequestInv, Called, TypeOK
    <2>2. c.bet \in Bet /\ new \in BetMeta
      BY <2>1, CallFields DEF BetMeta
    <2>3. betRow[c.bet] # None
      BY <1>1, <2>1, <2>2 DEF Inv, RequestInv, BettorHoldsBet, HeldBetsAreStored
    <2>4. betRow[c.bet] \in BetRow
      BY <1>1, <2>2, <2>3 DEF TypeOK
    <2>5. betRow' = [betRow EXCEPT ![c.bet] = WithOutcome(betRow[c.bet], new)]
      BY <1>3 DEF UpdateBetOutcome
    <2>6. WithOutcome(betRow[c.bet], new).paid = betRow[c.bet].paid
      BY <2>2, <2>4, BetRowUpdates
    <2> HIDE DEF new
    <2>7. b = c.bet => betRow'[b].paid = betRow[b].paid
      BY <1>1, <2>5, <2>6 DEF TypeOK
    <2>8. b # c.bet => betRow'[b] = betRow[b]
      BY <1>1, <2>5 DEF TypeOK
    <2> QED BY <2>3, <2>7, <2>8
  <1>4. ASSUME NEW r \in Req, InsertBet(r)
        PROVE  betRow[b] # None /\ betRow[b].paid
    <2> DEFINE c == call[r]
               m == [user |-> c.user, outcome |-> c.choice, payTo |-> c.account]
               row == [pool |-> c.pool, meta |-> m, sig |-> m, paid |-> FALSE]
    <2>1. betRow' = betRow \/ betRow' = [betRow EXCEPT ![c.bet] = row]
      BY <1>4 DEF InsertBet
    <2>2. ~row.paid
      OBVIOUS
    <2> HIDE DEF row
    <2> QED BY <1>1, <2>1, <2>2 DEF TypeOK
  <1>5. ASSUME NEW r \in Req, MarkBetAsPaid(r)
        PROVE  betRow'[b] = betRow[b] \/ paying[r] = b
    BY <1>1, <1>5 DEF MarkBetAsPaid, Marked, TypeOK
  <1>6. ASSUME NEW r \in Req, NEW p \in Pool, Finds(r, p) PROVE betRow' = betRow
    BY <1>1, <1>6, FoundRequest DEF store
  <1> QED BY <1>2, <1>3, <1>4, <1>5, <1>6, StepKinds, BetTableStep

\* A request that finds an intent finds a match.
LEMMA PayingStep ==
    ASSUME TypeOK, [Next]_vars, NEW r \in Req, paying'[r] # None
    PROVE  \/ paying'[r] = paying[r]
           \/ paying'[r] \in Bet /\ intent[paying'[r]] = "match"
  <1> USE DEF TypeOK, local
  <1>1. CASE Rests(r)
    BY <1>1 DEF Rests
  <1>2. CASE Reject(r) \/ Fail(r) \/ \E c \in Calls : Begin(r, c)
    BY <1>2 DEF Reject, Fail, Begin
  <1>3. CASE \/ CreatePool(r) \/ CloseReadPool(r) \/ ClosePool(r)
             \/ ResolveReadPool(r) \/ ResolvePool(r)
             \/ NotifyReadPool(r) \/ NotifyPoolResolution(r)
             \/ GetPoolReadPool(r) \/ ReturnPool(r)
    BY <1>3 DEF CreatePool, CloseReadPool, ClosePool, ResolveReadPool,
                ResolvePool, NotifyReadPool, NotifyPoolResolution,
                GetPoolReadPool, ReturnPool
  <1>4. CASE \/ MakeBetReadPool(r) \/ GetBetByUser(r) \/ KeepBet(r)
             \/ UpdateBetOutcome(r) \/ CountBets(r) \/ InsertBet(r)
             \/ GetBetsByPool(r) \/ MarkBetAsPaid(r)
    BY <1>4 DEF MakeBetReadPool, GetBetByUser, KeepBet, UpdateBetOutcome, CountBets,
                InsertBet, GetBetsByPool, MarkBetAsPaid
  <1>5. ASSUME NEW b \in Bet, GetIntent(r, b)
        PROVE  paying'[r] = paying[r] \/ (paying'[r] = b /\ intent[b] = "match")
    BY <1>5 DEF GetIntent
  <1> QED BY <1>1, <1>2, <1>3, <1>4, <1>5, RestOrMove DEF Moves, Step

LEMMA IntentsInvStep ==
    ASSUME PaymentsInv, [PaymentsNext]_paymentVars
    PROVE  Intents'
  <1>1. TypeOK /\ Inv /\ Intents
    BY DEF PaymentsInv, ServerInv
  <1>2. ASSUME NEW b \in Bet, betRow'[b] = None PROVE intent'[b] = "none"
    <2>1. betRow[b] = None
      BY <1>2, TablesEvolve DEF BetEvolves
    <2> QED BY <1>1, <2>1, IntentsEvolve DEF Intents
  <1>3. ASSUME NEW b \in Bet, betRow'[b] # None, betRow'[b].paid
        PROVE  intent'[b] # "none"
    <2>1. intent[b] # "none"
      BY <1>1, <1>3, MarkStep, NoneIsNoRow DEF Intents
    <2> QED BY <2>1, IntentsEvolve
  <1>4. ASSUME NEW r \in Req, paying'[r] # None PROVE intent'[paying'[r]] # "none"
    <2>1. paying'[r] \in Bet /\ intent[paying'[r]] # "none"
      <3>1. CASE [Next]_vars
        BY <1>1, <1>4, <3>1, PayingStep DEF Intents, TypeOK
      <3>2. ASSUME NEW s \in Req, NEW p \in Pool, Finds(s, p)
            PROVE  paying' = paying
        BY <1>1, <3>2, FoundRequest
      <3> QED BY <1>1, <1>4, <3>1, <3>2, StepKinds DEF Intents, TypeOK
    <2> QED BY <2>1, IntentsEvolve
  <1> QED BY <1>2, <1>3, <1>4 DEF Intents


LEMMA OwnAccountsStep ==
    ASSUME PaymentsInv, [PaymentsNext]_paymentVars
    PROVE  OwnAccounts'
  <1>1. TypeOK /\ Inv /\ OwnAccounts /\ \A r \in Req : Serving(r)
    BY DEF PaymentsInv, ServerInv
  <1>2. ASSUME NEW b \in Bet, betRow'[b] # None
        PROVE  OwnerOf[betRow'[b].meta.payTo] = betRow'[b].meta.user
    <2>1. CASE betRow[b] # None
      BY <1>1, <2>1, TablesEvolve DEF BetEvolves, OwnAccounts
    <2>2. CASE betRow[b] = None
      <3>1. [Next]_vars
        <4>1. ASSUME NEW r \in Req, NEW p \in Pool, Finds(r, p) PROVE betRow' = betRow
          BY <1>1, <4>1, FoundRequest DEF store
        <4> QED BY <1>2, <2>2, <4>1, StepKinds
      <3>2. PICK r \in Req : /\ betRow'[b].meta.user = call[r].user
                             /\ betRow'[b].meta.payTo = call[r].account
                             /\ pc[r] = "insert_bet" /\ call[r].op = "MakeBet"
        BY <1>1, <1>2, <2>2, <3>1, NewBet
      <3>3. call[r] \in Calls
        BY <1>1, <3>2 DEF Serving, Underway
      <3> QED BY <3>2, <3>3, PaymentsAssumption
    <2> QED BY <2>1, <2>2
  <1> QED BY <1>2 DEF OwnAccounts

-----------------------------------------------------------------------------
(* The money of the pools *)

LEMMA MatchedIsFinite ==
    \A p : IsFiniteSet(MatchedBets(p)) /\ Cardinality(MatchedBets(p)) \in Nat
  <1>1. \A p : MatchedBets(p) \subseteq Bet
    BY DEF MatchedBets, BetsOf
  <1> QED BY <1>1, BetAssumption, FS_Subset, FS_CardinalityType

LEMMA MatchedEvolves ==
    ASSUME PaymentsInv, [PaymentsNext]_paymentVars, NEW p \in Pool,
           NEW b \in MatchedBets(p)'
    PROVE  /\ b \in BetsOf(p) /\ Exists(p)
           /\ b \in MatchedBets(p) \/ PayBuyIn(b)
  <1>1. b \in Bet /\ betRow'[b].pool = p /\ intent'[b] = "match"
    BY DEF MatchedBets, BetsOf
  <1>2. betRow[b] # None
    BY <1>1, IntentsEvolve DEF PaymentsInv, Intents
  <1>3. betRow[b].pool = p
    BY <1>1, <1>2, TablesEvolve DEF BetEvolves
  <1>4. Exists(p)
    BY <1>1, <1>2, <1>3, PlacedBet
  <1> QED BY <1>1, <1>2, <1>3, <1>4, IntentsEvolve DEF MatchedBets, BetsOf

\* What n buy-ins are worth.
LEMMA Worth ==
    ASSUME NEW n \in Nat
    PROVE  /\ BuyIn * n \in Nat /\ BuyIn \in Nat
           /\ BuyIn * (n + 1) = BuyIn * n + BuyIn
           /\ n > 0 => BuyIn * (n - 1) = BuyIn * n - BuyIn
           /\ \A m \in Nat : m <= n => BuyIn * m <= BuyIn * n
  <1> PICK k \in Nat : k = BuyIn
    BY PaymentsAssumption
  <1>1. /\ k * n \in Nat /\ k * (n + 1) = k * n + k
        /\ n > 0 => k * (n - 1) = k * n - k
    OBVIOUS
  <1>2. ASSUME NEW m \in Nat, m <= n PROVE k * m <= k * n
    <2>1. n - m \in Nat /\ k * n = k * m + k * (n - m)
      BY <1>2
    <2>2. k * (n - m) \in Nat /\ k * m \in Nat
      BY <2>1
    <2> QED BY <2>1, <2>2
  <1> QED BY <1>1, <1>2

\* An account that is not the source of the distribution loses nothing.
LEMMA PayLeaves ==
    ASSUME PaymentsInv, NEW r \in Req, Pay(r), NEW a \in Account,
           a # poolRow[call[r].pool].meta.dest
    PROVE  balance'[a] >= balance[a]
  <1>1. PICK plan \in Plans : Execute(r, plan) /\ Underway(r) /\ asked[r].op = "Distribute"
    BY PayFacts
  <1>2. a # asked[r].source
    BY <1>1 DEF PaymentsInv, Distributing
  <1>3. Total(AmountsTo(plan, a)) \in Nat
    BY PlanFacts, TotalIsNat
  <1>4. balance[a] \in Nat /\ balance'[a] = balance[a] + Total(AmountsTo(plan, a))
    BY <1>1, <1>2, ExecuteIsPaying DEF PaymentsInv, PaymentsTypeOK
  <1> QED BY <1>3, <1>4

LEMMA PotsHoldStep ==
    ASSUME PaymentsInv, [PaymentsNext]_paymentVars
    PROVE  PotsHold'
  <1> SUFFICES ASSUME NEW p \in Pool, Exists(p)', \A d \in paidOut' : d.pool # p
               PROVE  balance'[poolRow'[p].meta.dest]
                          >= BuyIn * Cardinality(MatchedBets(p)')
    BY DEF PotsHold
  <1> DEFINE M == MatchedBets(p)
             n == Cardinality(M)
             a == poolRow[p].meta.dest
  <1>1. TypeOK /\ Inv /\ PoolsAndBets /\ PotsHold
        /\ balance \in [Account -> Nat] /\ BuyIn \in Nat
    BY PaymentsAssumption DEF PaymentsInv, ServerInv, PaymentsTypeOK
  <1>2. balance' \in [Account -> Nat]
    BY BalanceType
  <1>3. /\ IsFiniteSet(M) /\ n \in Nat
        /\ IsFiniteSet(M') /\ Cardinality(M') \in Nat
    <2>1. M' \subseteq Bet
      BY DEF MatchedBets, BetsOf
    <2> QED BY <2>1, MatchedIsFinite, BetAssumption, FS_Subset, FS_CardinalityType
  <1>4. CASE ~Exists(p)
    <2>1. M' = {}
      BY <1>4, MatchedEvolves
    <2>2. Cardinality(M') = 0 /\ BuyIn * 0 = 0
      BY <1>1, <2>1, FS_EmptySet
    <2>3. poolRow'[p] \in PoolRow
      BY ServerInvStep DEF ServerInv, TypeOK, Exists
    <2>4. balance'[poolRow'[p].meta.dest] \in Nat
      BY <1>2, <2>3, PoolRowFields, PoolMetaFields
    <2> QED BY <2>2, <2>4
  <1>5. CASE Exists(p)
    <2>1. poolRow'[p].meta.dest = a /\ a \in Account
      <3>1. poolRow[p] \in PoolRow
        BY <1>1, <1>5 DEF Exists, TypeOK
      <3> QED BY <1>5, <3>1, TablesEvolve, PoolRowFields, PoolMetaFields DEF PoolEvolves
    <2>2. balance[a] >= BuyIn * n /\ balance[a] \in Nat /\ balance'[a] \in Nat
      BY <1>1, <1>2, <1>5, <2>1, PaidOutGrows DEF PotsHold
    <2>3. BuyIn * n \in Nat /\ BuyIn * Cardinality(M') \in Nat
      BY <1>3, Worth
    <2>4. ASSUME NEW b \in Bet, PayBuyIn(b)
          PROVE  balance'[a] >= BuyIn * Cardinality(M')
      <3>1. /\ betRow' = betRow /\ betRow[b] # None /\ PoolAccount(b) \in Account
            /\ intent[b] = "none" /\ intent' = [intent EXCEPT ![b] = "match"]
            /\ balance' = [balance EXCEPT ![PoolAccount(b)] = @ + BuyIn]
        BY <2>4, AccountOfBet DEF PayBuyIn, IntentSubmitted, store
      <3>2. CASE betRow[b].pool = p
        <4>1. PoolAccount(b) = a /\ balance'[a] = balance[a] + BuyIn
          BY <1>1, <2>1, <3>1, <3>2 DEF PoolAccount
        <4>2. M' = M \cup {b} /\ b \notin M
          BY <1>1, <3>1, <3>2 DEF MatchedBets, BetsOf, TypeOK
        <4>3. Cardinality(M') = n + 1
          BY <1>3, <4>2, FS_AddElement
        <4> HIDE DEF M, a, n
        <4> QED BY <1>1, <1>3, <2>2, <2>3, <4>1, <4>3, Worth
      <3>3. CASE betRow[b].pool # p
        <4>1. M' = M
          BY <1>1, <3>1, <3>3 DEF MatchedBets, BetsOf, TypeOK
        <4>2. balance'[a] >= balance[a]
          BY <1>1, <2>1, <3>1
        <4> HIDE DEF M, a
        <4> QED BY <2>2, <2>3, <4>1, <4>2
      <3> QED BY <3>2, <3>3
    <2>5. ASSUME NEW b \in Bet, TakeBackBuyIn(b)
          PROVE  balance'[a] >= BuyIn * Cardinality(M')
      <3>1. /\ betRow' = betRow /\ betRow[b] # None /\ PoolAccount(b) \in Account
            /\ intent[b] = "match" /\ intent' = [intent EXCEPT ![b] = "revoked"]
            /\ balance' = [balance EXCEPT ![PoolAccount(b)] = @ - BuyIn]
        BY <2>5, AccountOfBet DEF TakeBackBuyIn, IntentRevoked, store
      <3>2. CASE betRow[b].pool = p
        <4>1. PoolAccount(b) = a /\ balance'[a] = balance[a] - BuyIn
          BY <1>1, <2>1, <3>1, <3>2 DEF PoolAccount
        <4>2. M' = M \ {b} /\ b \in M
          BY <1>1, <3>1, <3>2 DEF MatchedBets, BetsOf, TypeOK
        <4>3. Cardinality(M') = n - 1 /\ n > 0
          BY <1>3, <4>2, FS_RemoveElement, FS_EmptySet
        <4> HIDE DEF M, a, n
        <4> QED BY <1>1, <1>3, <2>2, <2>3, <4>1, <4>3, Worth
      <3>3. CASE betRow[b].pool # p
        <4>1. M' = M
          BY <1>1, <3>1, <3>3 DEF MatchedBets, BetsOf, TypeOK
        <4>2. PoolAccount(b) # a
          BY <1>1, <1>5, <3>1, <3>3, PlacedBet DEF PoolsAndBets, PoolAccount
        <4>3. balance'[a] = balance[a]
          BY <1>1, <2>1, <3>1, <4>2
        <4> HIDE DEF M, a
        <4> QED BY <2>2, <2>3, <4>1, <4>3
      <3> QED BY <3>2, <3>3
    <2>6. CASE ~\E b \in Bet : PayBuyIn(b) \/ TakeBackBuyIn(b)
      <3>1. M' \subseteq M
        BY <2>6, MatchedEvolves DEF MatchedBets, BetsOf
      <3>2. BuyIn * Cardinality(M') <= BuyIn * n
        BY <1>3, <3>1, FS_Subset, Worth
      <3>3. balance'[a] >= balance[a]
        <4>1. CASE UNCHANGED money \/ \E r \in Req : ForwardBetUpdate(r)
          BY <2>2, <4>1 DEF money, ForwardBetUpdate
        <4>2. ASSUME NEW q \in Pool, Deposit(q) PROVE balance'[a] >= balance[a]
          BY <1>1, <2>1, <4>2 DEF Deposit
        <4>3. ASSUME NEW r \in Req, Pay(r) PROVE balance'[a] >= balance[a]
          <5>1. PICK plan \in Plans : /\ Execute(r, plan) /\ Underway(r)
                                      /\ asked[r].op = "Distribute"
            BY <4>3, PayFacts
          <5>2. Paying(r, plan) \in paidOut' /\ Paying(r, plan).pool = call[r].pool
            BY <5>1, ExecuteIsPaying, PayingFields
          <5>3. call[r].pool # p /\ call[r].pool \in Pool /\ Exists(call[r].pool)
            BY <5>1, <5>2 DEF PaymentsInv, Distributing, SeesVerdict
          <5>4. poolRow[call[r].pool].meta.dest # a
            BY <1>1, <1>5, <5>3 DEF PoolsAndBets
          <5> QED BY <2>1, <4>3, <5>4, PayLeaves
        <4> QED BY <2>6, <4>1, <4>2, <4>3, MoneySteps
      <3>4. balance'[a] >= BuyIn * Cardinality(M')
        <4> HIDE DEF M, a, n
        <4> QED BY <2>2, <2>3, <3>2, <3>3
      <3> QED BY <2>1, <3>4
    <2> QED BY <2>1, <2>4, <2>5, <2>6
  <1> QED BY <1>4, <1>5


-----------------------------------------------------------------------------
(* Distributions *)

\* Among whom a distribution divides, by the request that allowed it.
LEMMA BackedByRequest ==
    ASSUME NEW d, d.counted = Counted(d.by)
    PROVE  Backed(d) = {b \in Counted(d.by) :
              UserResult(d.verdict, bets[d.by][b].meta.outcome, VotesOf(d.by)) # "lose"}
  <1>1. \A o : Votes(d.by, o) = Cardinality({c \in d.counted : Chosen(d, c) = o})
    BY DEF Votes, Chosen
  <1>2. VotesOf(d.by) = [o \in Outcome |->
                            Cardinality({c \in d.counted : Chosen(d, c) = o})]
    BY <1>1 DEF VotesOf
  <1>3. \A b : Ending(d, b) =
            UserResult(d.verdict, bets[d.by][b].meta.outcome, VotesOf(d.by))
    BY <1>2 DEF Ending, Chosen
  <1> QED BY <1>3 DEF Backed

\* The handler and the summaries have their own rules of who is paid: they
\* agree.
LEMMA ToPayOutIsBacked ==
    ASSUME TypeOK, NEW r \in Req,
           NEW v \in Resolution \ {"unknown"}, v = seenPool[r].meta.resolution
    PROVE  ToPayOut(r) = {b \in Counted(r) :
              UserResult(v, bets[r][b].meta.outcome, VotesOf(r)) # "lose"}
  <1> DEFINE favoured == {b \in Counted(r) : v \in {"refunded", bets[r][b].meta.outcome}}
  <1>1. ToPayOut(r) = IF favoured = {} THEN Counted(r) ELSE favoured
    BY DEF ToPayOut
  <1>2. CASE v = "refunded"
    BY <1>1, <1>2 DEF UserResult
  <1>3. CASE v # "refunded"
    <2>1. v \in Outcome
      BY <1>3 DEF Resolution, Outcome
    <2>2. favoured = On(r, v)
      BY <1>3 DEF On
    <2>3. VotesOf(r)[v] = Votes(r, v) /\ (Votes(r, v) = 0 <=> favoured = {})
      BY <2>1, <2>2, CountedBets DEF VotesOf
    <2> HIDE DEF favoured
    <2>4. CASE favoured = {}
      BY <1>1, <2>3, <2>4 DEF UserResult
    <2>5. CASE favoured # {}
      BY <1>1, <1>3, <2>2, <2>3, <2>5 DEF UserResult, On
    <2> QED BY <2>4, <2>5
  <1> QED BY <1>2, <1>3

\* The accounts of counted bets are as many as the bets.
LEMMA AccountsPerBet ==
    ASSUME PaymentsInv, NEW r \in Req, Underway(r), NEW S \in SUBSET Counted(r)
    PROVE  LET T == {bets[r][b].meta.payTo : b \in S}
           IN  /\ IsFiniteSet(S) /\ IsFiniteSet(T)
               /\ Cardinality(S) \in Nat /\ Cardinality(T) = Cardinality(S)
  <1> DEFINE T == {bets[r][b].meta.payTo : b \in S}
             f == [b \in S |-> bets[r][b].meta.payTo]
  <1>1. IsFiniteSet(S) /\ Cardinality(S) \in Nat
    BY CountsInPool, FS_Subset, FS_CardinalityType
  <1>2. ASSUME NEW a \in S, NEW b \in S, f[a] = f[b] PROVE a = b
    <2>1. /\ a \in Bet /\ bets[r][a] # None
          /\ b \in Bet /\ bets[r][b] # None
      BY DEF Counted
    <2>2. /\ betRow[a] # None /\ betRow[a].meta.payTo = bets[r][a].meta.payTo
          /\ betRow[a].meta.user = bets[r][a].meta.user
          /\ betRow[b] # None /\ betRow[b].meta.payTo = bets[r][b].meta.payTo
          /\ betRow[b].meta.user = bets[r][b].meta.user
      BY <2>1 DEF PaymentsInv, ServerInv, Inv, RequestInv, HeldBetsAreStored
    <2>3. bets[r][a].meta.user = bets[r][b].meta.user
      BY <1>2, <2>1, <2>2 DEF PaymentsInv, OwnAccounts
    <2> QED BY <2>3, CountsInPool, CountedUsersDiffer DEF PaymentsInv, ServerInv
  <1>3. f \in Bijection(S, T)
    BY <1>2 DEF Bijection, Injection, Surjection, IsInjective
  <1> HIDE DEF f
  <1>4. ExistsBijection(S, T)
    BY <1>3 DEF ExistsBijection
  <1> QED BY <1>1, <1>4, FS_Bijection

\* What a distribution is backed by is what its request remembers.
LEMMA BackedKept ==
    ASSUME NEW d, bets'[d.by] = bets[d.by]
    PROVE  Backed(d)' = Backed(d)
  <1>1. \A b : Chosen(d, b)' = Chosen(d, b)
    BY DEF Chosen
  <1>2. \A o \in Outcome : {c \in d.counted : Chosen(d, c)' = o} =
                            {c \in d.counted : Chosen(d, c) = o}
    BY <1>1
  <1>3. [o \in Outcome |-> Cardinality({c \in d.counted : Chosen(d, c)' = o})] =
        [o \in Outcome |-> Cardinality({c \in d.counted : Chosen(d, c) = o})]
    BY <1>2
  <1>4. \A b : Ending(d, b)' = Ending(d, b)
    BY <1>1, <1>3 DEF Ending
  <1> QED BY <1>4 DEF Backed

LEMMA AllowedKept ==
    ASSUME PaymentsInv, [PaymentsNext]_paymentVars, NEW d \in paidOut
    PROVE  Allowed(d)' /\ Fair(d)' /\ Covered(d)' /\ Backed(d)' = Backed(d)
  <1>1. d.by \in Req /\ Allowed(d) /\ Fair(d) /\ Covered(d) /\ TypeOK /\ Inv
    BY DEF PaymentsInv, ServerInv, PaymentsTypeOK, Distributions
  <1>2. Still(d.by)
    BY <1>1, EndedIsStill DEF Allowed
  <1>3. Counted(d.by)' = Counted(d.by)
    BY <1>1, <1>2, MemoryKept DEF Still
  <1>4. Allowed(d)'
    BY <1>1, <1>2, <1>3 DEF Allowed, Still, Rests
  <1>5. Backed(d)' = Backed(d)
    BY <1>2, BackedKept DEF Still, Rests
  <1>6. ASSUME NEW b \in Backed(d) PROVE betRow'[b].meta.payTo = betRow[b].meta.payTo
    <2>1. b \in Bet /\ bets[d.by][b] # None
      BY <1>1 DEF Backed, Allowed, Counted
    <2>2. betRow[b] # None
      BY <1>1, <2>1 DEF Inv, RequestInv, HeldBetsAreStored
    <2> QED BY <2>1, <2>2, TablesEvolve DEF BetEvolves
  <1>7. Fair(d)'
    <2>1. {betRow'[b].meta.payTo : b \in Backed(d)} = {betRow[b].meta.payTo : b \in Backed(d)}
      BY <1>6
    <2> QED BY <1>1, <1>5, <2>1 DEF Fair
  <1>8. Covered(d)'
    <2>1. \A b \in BetsOf(d.pool) : b \in BetsOf(d.pool)'
      BY TablesEvolve DEF BetEvolves, BetsOf
    <2>2. \A b \in BetsOf(d.pool) : intent'[b] # "revoked" => intent[b] # "revoked"
      BY IntentsEvolve DEF BetsOf
    <2> QED BY <1>1, <2>1, <2>2 DEF Covered
  <1> QED BY <1>4, <1>5, <1>7, <1>8

LEMMA PayIsAllowed ==
    ASSUME PaymentsInv, NEW r \in Req, NEW plan \in Valid(r),
           plan \in Plans, Underway(r), asked[r].op = "Distribute",
           asked[r].source \in Account,
           pc'[r] = "done", asked' = asked, UNCHANGED <<store, intent, local>>,
           NEW d, d = Paying(r, plan)
    PROVE  Allowed(d)' /\ Fair(d)' /\ Covered(d)'
  <1> DEFINE n == Cardinality(ToPayOut(r))
             owed == {bets[r][b].meta.payTo : b \in ToPayOut(r)}
             destinations == {plan[i].to : i \in DOMAIN plan}
  <1> PICK p, pot : p = call[r].pool /\ pot = balance[asked[r].source]
    OBVIOUS
  <1>1. /\ d.by = r /\ d.pool = p /\ d.verdict = seenPool[r].meta.resolution
        /\ d.counted = Counted(r) /\ d.plan = plan /\ d.shared = pot
        /\ d.earlier = Cardinality({e \in paidOut : e.pool = p})
    BY PayingFields
  <1>2. /\ TypeOK /\ Inv /\ SeesVerdict(r) /\ p \in Pool /\ Exists(p)
        /\ poolRow[p].meta.dest = asked[r].source
    BY DEF PaymentsInv, ServerInv, Distributing, SeesVerdict
  <1>3. Counted(r)' = Counted(r)
    BY DEF Counted, local
  <1>4. Allowed(d)'
    BY <1>1, <1>3 DEF Allowed, Underway, local
  <1>5. /\ n > 0 /\ Len(plan) = n /\ owed \subseteq destinations
        /\ Cardinality(destinations) = Len(plan)
        /\ \A i \in DOMAIN plan : plan[i].amount >= pot \div n
        /\ Total(Amounts(plan)) = pot
    BY DEF Valid, AllPaid, LeastShare
  <1>6. Backed(d)' = ToPayOut(r)
    <2>1. seenPool[r].meta.resolution \in Resolution \ {"unknown"}
      BY <1>2, CountsInPool DEF SeesVerdict
    <2>2. Backed(d)' = Backed(d)
      BY <1>1, BackedKept DEF local
    <2> QED BY <1>1, <1>2, <2>1, <2>2, BackedByRequest, ToPayOutIsBacked
  <1>7. ToPayOut(r) \subseteq Counted(r)
    BY DEF ToPayOut
  <1>8. n \in Nat /\ IsFiniteSet(owed) /\ Cardinality(owed) = n
    BY <1>7, AccountsPerBet
  <1>9. IsFiniteSet(destinations)
    <2> DEFINE f == [i \in DOMAIN plan |-> plan[i].to]
    <2>1. Len(plan) \in Nat /\ DOMAIN plan = 1..Len(plan)
      BY PlanFacts
    <2>2. IsFiniteSet(DOMAIN plan)
      <3>1. 1 \in Int /\ Len(plan) \in Int
        BY <2>1
      <3> QED BY <2>1, <3>1, FS_Interval
    <2>3. f \in Surjection(DOMAIN plan, destinations)
      BY DEF Surjection
    <2> HIDE DEF f, destinations
    <2> QED BY <2>2, <2>3, FS_Surjection
  <1>10. owed = destinations
    BY <1>5, <1>8, <1>9, FS_Subset
  <1>11. owed = {betRow'[b].meta.payTo : b \in ToPayOut(r)}
    <2>1. \A b \in ToPayOut(r) : betRow'[b].meta.payTo = bets[r][b].meta.payTo
      BY <1>2, <1>7 DEF Counted, Inv, RequestInv, HeldBetsAreStored, store
    <2> QED BY <2>1
  <1>12. Fair(d)'
    <2>1. n \in Nat \ {0}
      BY <1>5, <1>8
    <2>2. /\ {d.plan[i].to : i \in DOMAIN d.plan} = destinations
          /\ {betRow'[b].meta.payTo : b \in Backed(d)'} = destinations
      BY <1>1, <1>6, <1>10, <1>11
    <2>3. /\ Len(d.plan) = n /\ Total(Amounts(d.plan)) = d.shared
          /\ \A i \in DOMAIN d.plan : d.plan[i].amount >= d.shared \div n
      BY <1>1, <1>5
    <2> HIDE DEF n, destinations
    <2>4. Cardinality(Backed(d))' = n
      BY <1>6 DEF n
    <2> QED BY <2>1, <2>2, <2>3, <2>4 DEF Fair
  <1>13. Covered(d)'
    <2> SUFFICES ASSUME d.earlier = 0, \A b \in BetsOf(p)' : intent'[b] # "revoked"
                 PROVE  pot >= BuyIn * Cardinality(Counted(r))
      BY <1>1 DEF Covered
    <2>1. \A e \in paidOut : e.pool # p
      <3>1. IsFiniteSet({e \in paidOut : e.pool = p})
        BY FS_Subset DEF PaymentsInv, Distributions
      <3> QED BY <1>1, <3>1, FS_EmptySet
    <2>2. pot >= BuyIn * Cardinality(MatchedBets(p))
      BY <1>2, <2>1 DEF PaymentsInv, PotsHold
    <2>3. ASSUME NEW b \in Counted(r) PROVE b \in MatchedBets(p)
      <3>1. b \in Bet /\ betRow[b] # None /\ betRow[b].pool = p /\ betRow[b].paid
        BY <1>2 DEF Counted, Inv, RequestInv, HeldBetsAreStored
      <3>2. intent[b] # "none" /\ intent[b] # "revoked"
        BY <3>1 DEF PaymentsInv, Intents, BetsOf, store
      <3> QED BY <1>2, <3>1, <3>2 DEF MatchedBets, BetsOf, TypeOK
    <2>4. /\ Cardinality(Counted(r)) <= Cardinality(MatchedBets(p))
          /\ Cardinality(Counted(r)) \in Nat /\ Cardinality(MatchedBets(p)) \in Nat
      BY <2>3, MatchedIsFinite, FS_Subset, CountsInPool
    <2>5. /\ BuyIn * Cardinality(Counted(r)) <= BuyIn * Cardinality(MatchedBets(p))
          /\ BuyIn * Cardinality(Counted(r)) \in Nat
          /\ BuyIn * Cardinality(MatchedBets(p)) \in Nat
      BY <2>4, Worth
    <2>6. pot \in Nat
      BY DEF PaymentsInv, PaymentsTypeOK
    <2> QED BY <2>2, <2>5, <2>6
  <1> QED BY <1>4, <1>12, <1>13

LEMMA DistributionsStep ==
    ASSUME PaymentsInv, [PaymentsNext]_paymentVars
    PROVE  Distributions'
  <1>1. IsFiniteSet(paidOut)
    BY DEF PaymentsInv, Distributions
  <1>2. CASE UNCHANGED paidOut
    BY <1>1, <1>2, AllowedKept DEF Distributions
  <1>3. ASSUME NEW r \in Req, Pay(r) PROVE Distributions'
    <2>1. PICK plan \in Valid(r) :
            /\ Execute(r, plan) /\ plan \in Plans /\ Underway(r)
            /\ asked[r].op = "Distribute" /\ asked[r].source \in Account
            /\ pc'[r] = "done" /\ asked' = asked
            /\ UNCHANGED <<store, intent, local>>
      BY <1>3, PayFacts
    <2>2. paidOut' = paidOut \cup {Paying(r, plan)}
      BY <2>1, ExecuteIsPaying
    <2>4. IsFiniteSet(paidOut')
      BY <1>1, <2>2, FS_AddElement
    <2>5. ASSUME NEW d \in paidOut' PROVE Allowed(d)' /\ Fair(d)' /\ Covered(d)'
      <3>1. CASE d \in paidOut
        BY <3>1, AllowedKept
      <3>2. CASE d = Paying(r, plan)
        BY <2>1, <3>2, PayIsAllowed
      <3> QED BY <2>2, <3>1, <3>2
    <2> QED BY <2>4, <2>5 DEF Distributions
  <1> QED BY <1>2, <1>3, MoneySteps
          DEF money, ForwardBetUpdate, PayBuyIn, TakeBackBuyIn, Deposit


-----------------------------------------------------------------------------
(* Reports of payments, and the updates they raise *)

LEMMA AskedSteps ==
    ASSUME PaymentsInv, [PaymentsNext]_paymentVars
    PROVE  asked' = asked \/ \E r \in Req, c \in PaymentCalls : Submit(r, c)
  <1>1. ASSUME NEW r \in Req, Handle(r) PROVE asked' = asked
    BY <1>1, HandleEnds
  <1> QED BY <1>1 DEF PaymentsNext, paymentVars, Request, PayBuyIn, TakeBackBuyIn, Deposit

LEMMA Submitted ==
    ASSUME PaymentsInv, NEW r \in Req, NEW c \in PaymentCalls, Submit(r, c)
    PROVE  /\ asked[r] = None /\ asked'[r] = c /\ c \in PaymentCall
           /\ pc[r] = "idle" /\ result[r] = "none"
           /\ c.op = "BetPaid" => Reportable(c.bet)
           /\ \A s \in Req : s # r => asked'[s] = asked[s]
           /\ UNCHANGED <<vars, result, money>>
  <1>1. asked \in [Req -> PaymentCall \cup {None}] /\ Serving(r)
    BY DEF PaymentsInv, PaymentsTypeOK
  <1> QED BY <1>1, PaymentsAssumption DEF Submit, Serving

\* A new update comes from the request that reports its payment.
LEMMA NewUpdate ==
    ASSUME PaymentsInv, [PaymentsNext]_paymentVars, NEW e \in announced', e \notin announced
    PROVE  \E r \in Req :
              /\ Reports(r, e.bet) /\ Underway(r) /\ result[r] = "none"
              /\ pc[r] = "check_paid" /\ todo[r] = {}
              /\ e.pool = call[r].pool /\ e.counted = Counted(r)
              /\ asked'[r] = asked[r] /\ result'[r] = "OK"
  <1>1. PICK r \in Req : ForwardBetUpdate(r)
    BY MoneySteps DEF money, Pay, PayBuyIn, TakeBackBuyIn, Deposit
  <1>2. /\ asked[r] # None /\ asked[r].op = "BetPaid" /\ result[r] = "none"
        /\ pc[r] = "check_paid" /\ todo[r] = {} /\ asked' = asked
        /\ result' = [result EXCEPT ![r] = "OK"]
        /\ announced' = announced \cup
              {[bet |-> asked[r].bet, pool |-> call[r].pool, counted |-> Counted(r)]}
    BY <1>1 DEF ForwardBetUpdate, Conclude, Serves, ReturnPool, AllChecked, End
  <1>3. e.bet = asked[r].bet /\ e.pool = call[r].pool /\ e.counted = Counted(r)
    BY <1>2
  <1>4. Underway(r)
    BY <1>2 DEF Underway
  <1>5. asked[r] = BetPaid(asked[r].bet)
    BY <1>2, <1>4, CountsInPool, PaymentCallFields
  <1>6. result'[r] = "OK"
    BY <1>2 DEF PaymentsInv, PaymentsTypeOK
  <1> QED BY <1>2, <1>3, <1>4, <1>5, <1>6 DEF Reports

LEMMA ReportingStep ==
    ASSUME PaymentsInv, [PaymentsNext]_paymentVars
    PROVE  Reporting'
  <1>1. TypeOK /\ Inv /\ Reporting
    BY DEF PaymentsInv, ServerInv
  <1>2. ASSUME NEW r \in Req, NEW b \in Bet, asked'[r] = BetPaid(b)
        PROVE  intent'[b] # "none"
    <2>1. CASE asked'[r] = asked[r]
      BY <1>1, <1>2, <2>1, IntentsEvolve DEF Reporting, Reports
    <2>2. CASE asked'[r] # asked[r]
      <3>1. PICK s \in Req, c \in PaymentCalls : Submit(s, c)
        BY <2>2, AskedSteps
      <3>2. c = BetPaid(b)
        BY <1>2, <2>2, <3>1, Submitted
      <3> QED BY <3>1, <3>2, Submitted, BetPaidIs, IntentsEvolve DEF Reportable
    <2> QED BY <2>1, <2>2
  <1>3. ASSUME NEW r \in Req, NEW s \in Req, NEW b \in Bet,
               asked'[r] = BetPaid(b), asked'[s] = BetPaid(b)
        PROVE  r = s
    <2>1. CASE asked' = asked
      BY <1>1, <1>3, <2>1 DEF Reporting, Reports
    <2>2. ASSUME NEW t \in Req, NEW c \in PaymentCalls, Submit(t, c) PROVE r = s
      <3>1. \A q \in Req : q # t => asked'[q] = asked[q]
        BY <2>2, Submitted
      <3>2. CASE r = t \/ s = t
        <4>1. c = BetPaid(b)
          BY <1>3, <2>2, <3>2, Submitted
        <4>2. \A q \in Req : asked[q] # BetPaid(b)
          BY <2>2, <4>1, Submitted, BetPaidIs DEF Reportable
        <4> QED BY <1>3, <3>1, <4>2
      <3>3. CASE r # t /\ s # t
        BY <1>1, <1>3, <3>1, <3>3 DEF Reporting, Reports
      <3> QED BY <3>2, <3>3
    <2> QED BY <2>1, <2>2, AskedSteps
  <1>4. ASSUME NEW r \in Req, NEW b \in Bet, asked'[r] = BetPaid(b), Underway(r)'
        PROVE  betRow'[b] # None /\ betRow'[b].pool = call'[r].pool
    <2>1. CASE Onward(r)
      <3>1. betRow[b] # None /\ betRow[b].pool = call[r].pool
        BY <1>1, <1>4, <2>1 DEF Reporting, Reports, Onward
      <3> QED BY <2>1, <3>1, TablesEvolve DEF BetEvolves, Onward
    <2>2. CASE FindBet(r)
      <3>1. asked' = asked /\ asked[r].bet = b
        BY <1>4, <2>2, BetPaidIs DEF FindBet, Found
      <3>2. betRow[b] # None /\ Found(r, betRow[b].pool)
        BY <2>2, <3>1 DEF FindBet
      <3>3. Finds(r, betRow[b].pool) /\ betRow[b].pool \in Pool
        BY <2>2, <3>2, PlacedBet DEF FindBet, Starts, Serves, Finds
      <3>4. call'[r].pool = betRow[b].pool /\ betRow' = betRow
        BY <1>1, <3>3, FoundRequest DEF store
      <3> QED BY <3>2, <3>4
    <2>3. CASE FindPool(r) \/ ReadDistribution(r)
      BY <1>4, <2>3, BetPaidIs
         DEF FindPool, ReadDistribution, Starts, Serves, Found, End
    <2> QED BY <1>4, <2>1, <2>2, <2>3, FoundOrOnward
  <1>5. ASSUME NEW e \in announced'
        PROVE  \E r \in Req : asked'[r] = BetPaid(e.bet) /\ result'[r] = "OK"
    <2>1. CASE e \in announced
      <3>1. PICK r \in Req : Reports(r, e.bet) /\ result[r] = "OK"
        BY <1>1, <2>1 DEF Reporting
      <3>2. Still(r)
        BY <3>1, EndedIsStill
      <3> QED BY <3>1, <3>2 DEF Still, Reports
    <2>2. CASE e \notin announced
      BY <2>2, NewUpdate DEF Reports
    <2> QED BY <2>1, <2>2
  <1> QED BY <1>2, <1>3, <1>4, <1>5 DEF Reporting, Reports

\* A payment that nobody reported yet unsettles its pool.
LEMMA SettledBefore ==
    ASSUME PaymentsInv, [PaymentsNext]_paymentVars, NEW p \in Pool, Settled(p)'
    PROVE  /\ PaidBets(p)' = PaidBets(p)
           /\ \A b \in PaidBets(p) : intent[b] = "match"
  <1>1. intent \in [Bet -> {"none", "match", "revoked"}]
    BY DEF PaymentsInv, ServerInv, TypeOK
  <1>2. ASSUME NEW b \in PaidBets(p) PROVE b \in PaidBets(p)'
    <2>1. b \in Bet /\ betRow[b] # None /\ betRow[b].pool = p /\ intent[b] # "none"
      BY DEF PaidBets, BetsOf
    <2> QED BY <2>1, TablesEvolve, IntentsEvolve DEF BetEvolves, PaidBets, BetsOf
  <1>3. ASSUME NEW b \in PaidBets(p)' PROVE b \in PaidBets(p)
    <2>1. /\ b \in Bet /\ betRow'[b] # None /\ betRow'[b].pool = p
          /\ intent'[b] = "match" /\ \E r \in Req : asked'[r] = BetPaid(b)
      BY DEF PaidBets, BetsOf, Settled, Reports
    <2>2. betRow[b] # None
      BY <2>1, IntentsEvolve DEF PaymentsInv, Intents
    <2>3. betRow[b].pool = p
      BY <2>1, <2>2, TablesEvolve DEF BetEvolves
    <2>4. intent[b] # "none"
      <3> SUFFICES ASSUME intent[b] = "none" PROVE FALSE
        OBVIOUS
      <3>1. PayBuyIn(b)
        BY <2>1, IntentsEvolve
      <3>2. asked' = asked
        BY <3>1 DEF PayBuyIn
      <3> QED BY <2>1, <3>2 DEF PaymentsInv, Reporting, Reports
    <2> QED BY <2>1, <2>2, <2>3, <2>4 DEF PaidBets, BetsOf
  <1>4. ASSUME NEW b \in PaidBets(p) PROVE intent[b] = "match"
    <2>1. b \in Bet /\ intent[b] # "none" /\ intent'[b] = "match"
      BY <1>2 DEF PaidBets, BetsOf, Settled
    <2> QED BY <1>1, <2>1, IntentsEvolve
  <1> QED BY <1>2, <1>3, <1>4

\* Who has announced the payment of b is the request that reports it.
LEMMA AnnouncedByReporter ==
    ASSUME PaymentsInv, [PaymentsNext]_paymentVars, NEW r \in Req, NEW b \in Bet,
           Reports(r, b), NEW e \in announced', e.bet = b
    PROVE  \/ e \in announced /\ result[r] = "OK"
           \/ /\ result[r] = "none" /\ pc[r] = "check_paid" /\ todo[r] = {}
              /\ e.pool = betRow[b].pool /\ e.counted = Counted(r)
  <1>1. Reporting
    BY DEF PaymentsInv
  <1>2. CASE e \in announced
    BY <1>1, <1>2 DEF Reporting
  <1>3. CASE e \notin announced
    <2>1. PICK s \in Req :
              /\ Reports(s, b) /\ Underway(s) /\ result[s] = "none"
              /\ pc[s] = "check_paid" /\ todo[s] = {}
              /\ e.pool = call[s].pool /\ e.counted = Counted(s)
      BY <1>3, NewUpdate
    <2>2. s = r
      BY <1>1, <2>1 DEF Reporting
    <2> QED BY <1>1, <2>1, <2>2 DEF Reporting
  <1> QED BY <1>2, <1>3


\* Counting goes on until all the bets that were paid are counted.
LEMMA CountCatches ==
    ASSUME PaymentsInv, NEW r \in Req, Count(r),
           NEW P \in SUBSET BetsOf(call[r].pool), \A c \in P : intent[c] = "match",
           pc[r] = "check_paid" =>
               \A c \in P : bets[r][c] # None /\ (bets[r][c].paid \/ c \in todo[r])
    PROVE  /\ pc'[r] = "check_paid"
           /\ \A c \in P : bets'[r][c] # None /\ (bets'[r][c].paid \/ c \in todo'[r])
  <1>1. TypeOK /\ Inv /\ P \subseteq Bet
    BY DEF PaymentsInv, ServerInv, BetsOf
  <1>2. pc'[r] = "check_paid"
    BY <1>1, CountFacts
  <1>3. CASE GetBetsByPool(r)
    <2>1. SeeBets(r, BetsOf(call[r].pool))
      BY <1>3 DEF GetBetsByPool
    <2>2. ASSUME NEW c \in P
          PROVE  bets'[r][c] # None /\ (bets'[r][c].paid \/ c \in todo'[r])
      <3>1. c \in Bet /\ c \in BetsOf(call[r].pool) /\ betRow[c] # None
        BY DEF BetsOf
      <3>2. bets'[r][c] = betRow[c]
        BY <1>1, <2>1, <3>1 DEF SeeBets, TypeOK
      <3>3. todo'[r] = {b \in BetsOf(call[r].pool) : ~betRow[b].paid}
        BY <1>1, <2>1 DEF SeeBets, TypeOK
      <3> QED BY <3>1, <3>2, <3>3
    <2> QED BY <1>2, <2>2
  <1>4. CASE MarkBetAsPaid(r)
    <2> DEFINE a == paying[r]
    <2>1. /\ pc[r] = "check_paid" /\ a # None
          /\ bets' = [bets EXCEPT ![r][a].paid = TRUE]
          /\ todo' = [todo EXCEPT ![r] = @ \ {a}]
      BY <1>4 DEF MarkBetAsPaid
    <2>2. ASSUME NEW c \in P
          PROVE  bets'[r][c] # None /\ (bets'[r][c].paid \/ c \in todo'[r])
      <3>1. c \in Bet /\ bets[r][c] # None /\ (bets[r][c].paid \/ c \in todo[r])
        BY <1>1, <2>1
      <3>2. bets[r][c] \in BetRow
        BY <1>1, <3>1 DEF TypeOK
      <3>3. CASE c = a
        <4>1. bets'[r][c] = [bets[r][c] EXCEPT !.paid = TRUE]
          BY <1>1, <2>1, <3>1, <3>3 DEF TypeOK
        <4>2. [bets[r][c] EXCEPT !.paid = TRUE] \in BetRow /\ bets'[r][c].paid
          BY <3>2, <4>1 DEF BetRow
        <4> QED BY <4>1, <4>2, NoneIsNoRow
      <3>4. CASE c # a
        <4>1. bets'[r][c] = bets[r][c]
          BY <1>1, <2>1, <3>1, <3>4 DEF TypeOK
        <4>2. c \in todo[r] => c \in todo'[r]
          BY <1>1, <2>1, <3>4 DEF TypeOK
        <4> QED BY <3>1, <4>1, <4>2
      <3> QED BY <3>3, <3>4
    <2> QED BY <1>2, <2>2
  <1>5. ASSUME NEW b \in Bet, GetIntent(r, b)
        PROVE  \A c \in P : bets'[r][c] # None /\ (bets'[r][c].paid \/ c \in todo'[r])
    <2>1. /\ pc[r] = "check_paid" /\ bets' = bets
          /\ \/ todo' = todo
             \/ intent[b] # "match" /\ todo' = [todo EXCEPT ![r] = @ \ {b}]
      BY <1>5 DEF GetIntent
    <2>2. \A c \in P : c \in todo[r] => c \in todo'[r]
      BY <1>1, <2>1 DEF TypeOK
    <2> QED BY <2>1, <2>2
  <1> QED BY <1>2, <1>3, <1>4, <1>5 DEF Count

LEMMA ReporterIsAsked ==
    ASSUME NEW r, NEW b \in Bet, Reports(r, b)
    PROVE  asked[r] # None /\ asked[r].op = "BetPaid" /\ asked[r].bet = b
  BY BetPaidIs, PaymentsAssumption DEF Reports, PaymentCall

LEMMA CatchesKept ==
    ASSUME PaymentsInv, [PaymentsNext]_paymentVars, asked' = asked,
           NEW p \in Pool, NEW P, P = PaidBets(p), \A c \in P : intent[c] = "match",
           NEW r \in Req, NEW b \in P, Reports(r, b), Catches(r, b, P)
    PROVE  Catches(r, b, P)'
  <1>1. /\ TypeOK /\ Inv /\ Reporting /\ Serving(r) /\ asked[r] # None
        /\ PaymentsTypeOK
    BY ReporterIsAsked DEF PaymentsInv, ServerInv, PaidBets, BetsOf
  <1>2. b \in Bet /\ betRow[b] # None /\ betRow[b].pool = p /\ P \subseteq BetsOf(p)
        /\ P \subseteq Bet
    BY DEF PaidBets, BetsOf
  <1>3. betRow'[b].pool = p
    BY <1>2, TablesEvolve DEF BetEvolves
  <1>4. Underway(r) => call[r].pool = p
    BY <1>1, <1>2 DEF Reporting
  <1>5. ASSUME NEW e \in announced, e.pool = betRow[b].pool, P \subseteq e.counted
        PROVE  Catches(r, b, P)'
    <2>1. announced \subseteq announced'
      BY MoneySteps DEF money, Pay, ForwardBetUpdate, PayBuyIn, TakeBackBuyIn, Deposit
    <2> QED BY <1>2, <1>3, <1>5, <2>1 DEF Catches
  <1>6. CASE result[r] # "none" /\ \A e \in announced : e.bet # b
    <2>1. result'[r] # "none"
      BY <1>6, EndedIsStill DEF Still
    <2>2. \A e \in announced' : e.bet # b
      BY <1>2, <1>6, AnnouncedByReporter
    <2> QED BY <2>1, <2>2 DEF Catches
  <1>7. CASE /\ result[r] = "none"
             /\ \/ pc[r] \in {"idle", "read_bets"}
                \/ /\ pc[r] = "check_paid"
                   /\ \A c \in P : bets[r][c] # None /\ (bets[r][c].paid \/ c \in todo[r])
    <2>1. CASE Still(r)
      BY <1>7, <2>1 DEF Still, Rests, Catches
    <2>2. CASE Request(r)
      <3>1. Count(r) /\ result' = result
        BY <1>1, <2>2 DEF Request
      <3>2. pc[r] # "idle" /\ call[r].pool = p
        BY <1>1, <1>4, <3>1, CountFacts DEF Underway
      <3>3. /\ pc'[r] = "check_paid"
            /\ \A c \in P : bets'[r][c] # None /\ (bets'[r][c].paid \/ c \in todo'[r])
        BY <1>2, <1>7, <3>1, <3>2, CountCatches
      <3> QED BY <1>7, <3>1, <3>3 DEF Catches
    <2>3. CASE Handle(r) /\ result'[r] = "none"
      <3>1. PICK q \in Pool : Finds(r, q)
        BY <2>3, HandleEnds
      <3>2. pc'[r] = "read_bets"
        BY <1>1, <3>1, FoundRequest
      <3> QED BY <2>3, <3>2 DEF Catches
    <2>4. CASE Handle(r) /\ result'[r] # "none"
      <3>1. CASE \A e \in announced' : e.bet # b
        BY <2>4, <3>1 DEF Catches
      <3>2. ASSUME NEW e \in announced', e.bet = b PROVE Catches(r, b, P)'
        <4>1. /\ pc[r] = "check_paid" /\ todo[r] = {}
              /\ e.pool = p /\ e.counted = Counted(r)
          BY <1>2, <1>7, <3>2, AnnouncedByReporter
        <4>2. P \subseteq e.counted
          BY <1>2, <1>7, <4>1 DEF Counted
        <4> QED BY <1>3, <4>1, <4>2 DEF Catches
      <3> QED BY <3>1, <3>2
    <2>5. ~\E c \in PaymentCalls : Submit(r, c)
      BY <1>1, Submitted
    <2> QED BY <2>1, <2>2, <2>3, <2>4, <2>5, StillOrActive
  <1> QED BY <1>5, <1>6, <1>7 DEF Catches

LEMMA UpdatesStep ==
    ASSUME PaymentsInv, [PaymentsNext]_paymentVars
    PROVE  Updates'
  <1> SUFFICES ASSUME NEW p \in Pool, Settled(p)'
               PROVE  \E r \in Req, b \in PaidBets(p)' :
                          Reports(r, b)' /\ Catches(r, b, PaidBets(p))'
    BY DEF Updates
  <1>1. PICK P : P = PaidBets(p)
    OBVIOUS
  <1>2. PaidBets(p)' = P /\ \A b \in P : intent[b] = "match"
    BY <1>1, SettledBefore
  <1>3. P # {} /\ \A b \in P : \E r \in Req : asked'[r] = BetPaid(b)
    BY <1>2 DEF Settled, Reports
  <1>4. ASSUME NEW r \in Req, NEW b \in P, Reports(r, b)', Catches(r, b, P)'
        PROVE  \E s \in Req, c \in PaidBets(p)' :
                   Reports(s, c)' /\ Catches(s, c, PaidBets(p))'
    BY <1>2, <1>4 DEF Catches
  <1>5. CASE \A b \in P : \E r \in Req : asked[r] = BetPaid(b)
    <2>1. Settled(p)
      BY <1>1, <1>2, <1>3, <1>5 DEF Settled, Reports
    <2>2. PICK r \in Req, b \in P : Reports(r, b) /\ Catches(r, b, P)
      BY <1>1, <2>1 DEF PaymentsInv, Updates
    <2>3. CASE asked' = asked
      <3>1. Catches(r, b, P)'
        BY <1>1, <1>2, <2>2, <2>3, CatchesKept
      <3> QED BY <1>4, <2>2, <2>3, <3>1 DEF Reports
    <2>4. ASSUME NEW s \in Req, NEW c \in PaymentCalls, Submit(s, c)
          PROVE  Reports(r, b)' /\ Catches(r, b, P)'
      <3>1. asked[r] # None
        BY <1>1, <2>2, ReporterIsAsked DEF PaidBets, BetsOf
      <3>2. asked'[r] = asked[r] /\ UNCHANGED <<vars, result, money>>
        BY <2>4, <3>1, Submitted
      <3> QED BY <2>2, <3>2 DEF Reports, Catches, vars, money
    <2> QED BY <1>4, <2>3, <2>4, AskedSteps
  <1>6. CASE \E b \in P : \A r \in Req : asked[r] # BetPaid(b)
    <2>1. PICK b \in P : \A r \in Req : asked[r] # BetPaid(b)
      BY <1>6
    <2>2. PICK r \in Req : asked'[r] = BetPaid(b)
      BY <1>3
    <2>3. PICK s \in Req, c \in PaymentCalls : Submit(s, c)
      BY <2>1, <2>2, AskedSteps
    <2>4. r = s
      BY <2>1, <2>2, <2>3, Submitted
    <2>5. pc'[r] = "idle" /\ result'[r] = "none"
      BY <2>3, <2>4, Submitted DEF vars
    <2> QED BY <1>4, <2>2, <2>5 DEF Reports, Catches
  <1> QED BY <1>5, <1>6


-----------------------------------------------------------------------------
(* The feeds of those who were paid *)

\* A distribution pays the users of the bets it is backed by.
LEMMA PaysBackers ==
    ASSUME PaymentsInv, NEW d \in paidOut
    PROVE  /\ \A b \in Backed(d) : b \in Bet /\ betRow[b] # None /\ b \in Counted(d.by)
           /\ \A u : Pays(d, u) <=> \E b \in Backed(d) : betRow[b].meta.user = u
  <1>1. d.by \in Req /\ Allowed(d) /\ Fair(d) /\ OwnAccounts
    BY DEF PaymentsInv, PaymentsTypeOK, Distributions
  <1>2. \A b \in Backed(d) : b \in Bet /\ bets[d.by][b] # None /\ b \in Counted(d.by)
    BY <1>1 DEF Backed, Allowed, Counted
  <1>3. \A b \in Backed(d) : betRow[b] # None
    BY <1>1, <1>2 DEF PaymentsInv, ServerInv, Inv, RequestInv, HeldBetsAreStored
  <1>4. \A b \in Backed(d) : OwnerOf[betRow[b].meta.payTo] = betRow[b].meta.user
    BY <1>1, <1>2, <1>3 DEF OwnAccounts
  <1>5. {d.plan[i].to : i \in DOMAIN d.plan} = {betRow[b].meta.payTo : b \in Backed(d)}
    BY <1>1 DEF Fair
  <1>6. ASSUME NEW u PROVE Pays(d, u) <=> \E b \in Backed(d) : betRow[b].meta.user = u
    <2>1. ASSUME NEW i \in DOMAIN d.plan, OwnerOf[d.plan[i].to] = u
          PROVE  \E b \in Backed(d) : betRow[b].meta.user = u
      <3>1. PICK b \in Backed(d) : d.plan[i].to = betRow[b].meta.payTo
        BY <1>5
      <3> QED BY <1>4, <2>1, <3>1
    <2>2. ASSUME NEW b \in Backed(d), betRow[b].meta.user = u PROVE Pays(d, u)
      <3>1. PICK i \in DOMAIN d.plan : d.plan[i].to = betRow[b].meta.payTo
        BY <1>5
      <3> QED BY <1>4, <2>2, <3>1 DEF Pays
    <2> QED BY <2>1, <2>2 DEF Pays
  <1> QED BY <1>2, <1>3, <1>6

\* A distribution that is backed by a bet against the verdict found no bet for
\* it.
LEMMA NobodyWon ==
    ASSUME PaymentsInv, NEW d \in paidOut, NEW b \in Backed(d),
           d.verdict # "refunded", Chosen(d, b) # d.verdict
    PROVE  \A c \in d.counted : Chosen(d, c) # d.verdict
  <1>1. d.by \in Req /\ Allowed(d) /\ TypeOK /\ d.verdict \in Resolution
    BY DEF PaymentsInv, ServerInv, PaymentsTypeOK, Distributions
  <1>2. d.verdict \in Outcome
    BY <1>1, DistributedPool DEF Resolution, Outcome
  <1>3. d.counted = Counted(d.by)
    BY <1>1 DEF Allowed
  <1>4. UserResult(d.verdict, bets[d.by][b].meta.outcome, VotesOf(d.by)) # "lose"
    BY <1>3, BackedByRequest
  <1>5. VotesOf(d.by)[d.verdict] = 0
    BY <1>4 DEF UserResult, Chosen
  <1>6. On(d.by, d.verdict) = {}
    BY <1>1, <1>2, <1>5, CountedBets DEF VotesOf
  <1> QED BY <1>3, <1>6 DEF On, Chosen

\* The summary of a user who holds a counted bet is about this bet.
LEMMA UserSummaryIs ==
    ASSUME PaymentsInv, NEW r \in Req, Underway(r), NEW b \in Counted(r)
    PROVE  UserSummary(r, bets[r][b].meta.user) =
              UserResult(seenPool[r].meta.resolution, bets[r][b].meta.outcome, VotesOf(r))
  <1> PICK u : u = bets[r][b].meta.user
    OBVIOUS
  <1> DEFINE mine == {c \in Counted(r) : bets[r][c].meta.user = u}
  <1>1. mine = {b}
    BY CountsInPool, CountedUsersDiffer DEF PaymentsInv, ServerInv
  <1>2. (CHOOSE c \in mine : TRUE) = b
    BY <1>1
  <1> QED BY <1>1, <1>2 DEF UserSummary, VotesOf

LEMMA ReturnedFeed ==
    ASSUME PaymentsInv, NEW r \in Req, ReturnFeed(r),
           UserSummary(r, asked[r].user) \notin {"win", "refund"}
    PROVE  \E d \in paidOut :
              /\ Pays(d, asked[r].user) /\ d.counted \subseteq Counted(r)
              /\ \/ \E b \in d.counted : bets[r][b].meta.outcome # Chosen(d, b)
                 \/ /\ d.counted # Counted(r)
                    /\ \A b \in d.counted : Chosen(d, b) # d.verdict
  <1> PICK v, u : v = seenPool[r].meta.resolution /\ u = asked[r].user
    OBVIOUS
  <1>1. TypeOK /\ Inv /\ pc[r] = "check_paid" /\ Underway(r) /\ asked[r].op = "ReadFeed"
    BY DEF PaymentsInv, ServerInv, ReturnFeed, Conclude, Serves, ReturnPool, AllChecked,
           Underway
  <1>2. SeesVerdict(r) /\ \E d \in paidOut : ShownTo(r, d)
    BY <1>1 DEF PaymentsInv, Feed
  <1>3. PICK d \in paidOut : /\ d.pool = call[r].pool /\ Pays(d, u)
                             /\ d.counted \subseteq Counted(r)
    BY <1>1, <1>2 DEF ShownTo
  <1>4. d.verdict = v /\ v \in Resolution /\ v # "unknown" /\ d.counted = Counted(d.by)
    BY <1>1, <1>2, <1>3, DistributedPool, CountsInPool
       DEF SeesVerdict, PaymentsInv, Distributions, Allowed
  <1>5. PICK b \in Backed(d) : betRow[b].meta.user = u /\ b \in Bet
    BY <1>3, PaysBackers
  <1>6. b \in d.counted /\ b \in Counted(r)
    BY <1>3, <1>5 DEF Backed
  <1>7. bets[r][b].meta.user = u
    BY <1>1, <1>5, <1>6 DEF Counted, Inv, RequestInv, HeldBetsAreStored
  <1>8. UserResult(v, bets[r][b].meta.outcome, VotesOf(r)) \notin {"win", "refund"}
    BY <1>1, <1>6, <1>7, UserSummaryIs
  <1>9. v # "refunded" /\ VotesOf(r)[v] # 0 /\ bets[r][b].meta.outcome # v
    BY <1>8 DEF UserResult
  <1>10. ASSUME \A c \in d.counted : bets[r][c].meta.outcome = Chosen(d, c)
         PROVE  d.counted # Counted(r) /\ \A c \in d.counted : Chosen(d, c) # d.verdict
    <2>1. \A c \in d.counted : Chosen(d, c) # d.verdict
      BY <1>4, <1>5, <1>6, <1>9, <1>10, NobodyWon
    <2>2. v \in Outcome
      BY <1>4, <1>9 DEF Resolution, Outcome
    <2>3. On(r, v) # {}
      BY <1>1, <1>9, <2>2, CountedBets DEF VotesOf
    <2>4. PICK c \in Counted(r) : bets[r][c].meta.outcome = v
      BY <2>3 DEF On
    <2> QED BY <1>4, <1>10, <2>1, <2>4
  <1> QED BY <1>3, <1>10

LEMMA FeedReadableStep ==
    ASSUME PaymentsInv, [PaymentsNext]_paymentVars
    PROVE  FeedReadable'
  <1> SUFFICES ASSUME NEW r \in Req, asked'[r] # None, asked'[r].op = "ReadFeed",
                      result'[r] = "internal"
               PROVE  \E d \in paidOut' :
                        /\ Pays(d, asked'[r].user)
                        /\ d.counted \subseteq Counted(r)'
                        /\ \/ \E b \in d.counted :
                                bets'[r][b].meta.outcome # Chosen(d, b)'
                           \/ /\ d.counted # Counted(r)'
                              /\ \A b \in d.counted : Chosen(d, b)' # d.verdict
    BY DEF FeedReadable, Pays
  <1>1. asked'[r] = asked[r] /\ bets'[r] = bets[r] /\ Counted(r)' = Counted(r)
        /\ \E d \in paidOut :
              /\ Pays(d, asked[r].user) /\ d.counted \subseteq Counted(r)
              /\ \/ \E b \in d.counted : bets[r][b].meta.outcome # Chosen(d, b)
                 \/ /\ d.counted # Counted(r)
                    /\ \A b \in d.counted : Chosen(d, b) # d.verdict
    <2>1. CASE result[r] = "internal"
      <3>1. Still(r)
        BY <2>1, EndedIsStill
      <3> QED BY <2>1, <3>1, MemoryKept DEF Still, Rests, PaymentsInv, FeedReadable
    <2>2. CASE result[r] # "internal"
      <3>1. Handle(r)
        BY <2>2, StillOrActive DEF Still, Request, Submit
      <3>2. result \in [Req -> Results]
        BY DEF PaymentsInv, PaymentsTypeOK
      <3>3. ReturnFeed(r)
        BY <2>2, <3>1, <3>2 DEF Handle, FindPool, Found, Deny, FindBet, ForwardBetUpdate,
             ReadDistribution, Abandon, Pay, Conclude, End
      <3>4. /\ UserSummary(r, asked[r].user) \notin {"win", "refund"}
            /\ asked' = asked /\ bets' = bets
        BY <3>2, <3>3 DEF ReturnFeed, Conclude, End, ReturnPool, local
      <3>5. Counted(r)' = Counted(r)
        BY <3>4 DEF Counted
      <3> QED BY <3>3, <3>4, <3>5, ReturnedFeed
    <2> QED BY <2>1, <2>2
  <1>2. \A d \in paidOut : \A b : Chosen(d, b)' = Chosen(d, b)
    <2>1. \A d \in paidOut : d.by \in Req /\ Allowed(d)
      BY DEF PaymentsInv, PaymentsTypeOK, Distributions
    <2>2. \A d \in paidOut : Still(d.by)
      BY <2>1, EndedIsStill DEF Allowed
    <2> QED BY <2>2 DEF Still, Rests, Chosen
  <1> QED BY <1>1, <1>2, PaidOutGrows


-----------------------------------------------------------------------------
(* The invariant holds *)

LEMMA PaymentsInitInv == PaymentsInit => PaymentsInv
  <1> SUFFICES ASSUME PaymentsInit PROVE PaymentsInv
    OBVIOUS
  <1>1. /\ Init /\ asked = [r \in Req |-> None] /\ result = [r \in Req |-> "none"]
        /\ balance = [a \in Account |-> 0] /\ paidOut = {} /\ announced = {}
    BY DEF PaymentsInit
  <1>2. /\ \A b \in Bet : betRow[b] = None /\ intent[b] = "none"
        /\ \A p \in Pool : ~Exists(p)
        /\ \A r \in Req : pc[r] = "idle" /\ paying[r] = None
        /\ told = {}
    BY <1>1 DEF Init, Exists
  <1>3. ServerInv
    <2>1. TypeOK /\ Inv /\ MembersAndBets
      BY <1>1, TypeInit, InvInit, MembersInit
    <2>2. ToldInv
      BY <1>2 DEF ToldInv, ToldOnce, NotifierInv, Notifying
    <2>3. PoolsAndBets
      BY <1>2 DEF PoolsAndBets
    <2> QED BY <1>2, <2>1, <2>2, <2>3 DEF ServerInv
  <1>4. PaymentsTypeOK
    BY <1>1 DEF PaymentsTypeOK, Results
  <1>5. ASSUME NEW r \in Req PROVE Serving(r) /\ Distributing(r) /\ Feed(r)
    BY <1>1, <1>2 DEF Serving, Distributing, Feed, Underway
  <1>6. Intents /\ OwnAccounts
    BY <1>2 DEF Intents, OwnAccounts
  <1>7. PotsHold
    BY <1>2 DEF PotsHold
  <1>8. Distributions
    BY <1>1, FS_EmptySet DEF Distributions
  <1>9. Reporting
    BY <1>1, ReporterIsAsked DEF Reporting
  <1>10. Updates
    BY <1>2 DEF Updates, Settled, PaidBets, BetsOf
  <1>11. FeedReadable
    BY <1>1 DEF FeedReadable
  <1> QED BY <1>3, <1>4, <1>5, <1>6, <1>7, <1>8, <1>9, <1>10, <1>11 DEF PaymentsInv

LEMMA PaymentsInvStep == PaymentsInv /\ [PaymentsNext]_paymentVars => PaymentsInv'
  <1> SUFFICES ASSUME PaymentsInv, [PaymentsNext]_paymentVars PROVE PaymentsInv'
    OBVIOUS
  <1>1. ServerInv' /\ PaymentsTypeOK'
    BY ServerInvStep, PaymentsTypeStep
  <1>2. \A r \in Req : Serving(r)' /\ Distributing(r)' /\ Feed(r)'
    BY ServingStep, DistributingStep, FeedStep
  <1>3. Intents' /\ OwnAccounts' /\ PotsHold' /\ Distributions'
    BY IntentsInvStep, OwnAccountsStep, PotsHoldStep, DistributionsStep
  <1>4. Reporting' /\ Updates' /\ FeedReadable'
    BY ReportingStep, UpdatesStep, FeedReadableStep
  <1> QED BY <1>1, <1>2, <1>3, <1>4 DEF PaymentsInv

\* Everything above holds at every moment, whatever is paid, asked for and
\* counted, and by however many requests at once.
THEOREM PaymentsInvariance == PaymentsSpec => []PaymentsInv
  BY PaymentsInitInv, PaymentsInvStep, PTL DEF PaymentsSpec

\* Payment calls, their results, balances, distributions and updates are of the
\* types that the code has for them.
THEOREM PaymentTypesAreRight == PaymentsSpec => []PaymentsTypeOK
  <1>1. PaymentsInv => PaymentsTypeOK
    BY DEF PaymentsInv
  <1> QED BY <1>1, PaymentsInvariance, PTL

-----------------------------------------------------------------------------
(* What bettors are paid *)

\* Shares that are each at least the even one and together the whole pot are
\* even but for the remainder.
LEMMA EvenShares ==
    ASSUME NEW amounts \in Seq(Nat), NEW pot \in Nat, NEW n \in Nat \ {0},
           Len(amounts) = n, Total(amounts) = pot,
           \A i \in 1..n : amounts[i] >= pot \div n,
           NEW j \in 1..n
    PROVE  amounts[j] \in (pot \div n)..((pot \div n) + (pot % n))
  <1>1. PICK s \in Nat, m \in Nat : s = pot \div n /\ m = pot % n /\ pot = n * s + m
    BY DivisionFacts
  <1>2. amounts[j] + s * (n - 1) <= pot
    BY <1>1, TotalBoundsAmounts
  <1>3. PICK x \in Nat : x = amounts[j] /\ x >= s
    BY <1>1
  <1>4. s * (n - 1) = n * s - s
    BY <1>1
  <1>5. PICK y \in Nat : y = n * s
    BY <1>1
  <1>6. x + (y - s) <= y + m
    BY <1>1, <1>2, <1>3, <1>4, <1>5
  <1>7. x <= s + m
    BY <1>6
  <1> QED BY <1>1, <1>3, <1>7

\* Whoever asks for a distribution and in whatever order the bets were paid,
\* changed and counted, the handler lets through only one that pays each of
\* those whom the summaries call winners or refunded an even share, and one of
\* them perhaps the remainder.
THEOREM SharesAreAlwaysFair == PaymentsSpec => []SharesAreFair
  <1>1. ASSUME PaymentsInv, NEW d \in paidOut
        PROVE  LET n == Cardinality(Backed(d))
               IN  /\ {d.plan[i].to : i \in DOMAIN d.plan} =
                         {betRow[b].meta.payTo : b \in Backed(d)}
                   /\ Total(Amounts(d.plan)) = d.shared
                   /\ \A i \in DOMAIN d.plan :
                         d.plan[i].amount \in (d.shared \div n)..
                                              ((d.shared \div n) + (d.shared % n))
    <2> DEFINE n == Cardinality(Backed(d))
    <2>1. Fair(d) /\ d.plan \in Plans /\ d.shared \in Nat
      BY <1>1 DEF PaymentsInv, Distributions, PaymentsTypeOK
    <2>2. n \in Nat \ {0} /\ Len(d.plan) = n /\ Total(Amounts(d.plan)) = d.shared
          /\ \A i \in DOMAIN d.plan : d.plan[i].amount >= d.shared \div n
      BY <2>1 DEF Fair
    <2>3. /\ DOMAIN d.plan = 1..n
          /\ Amounts(d.plan) \in Seq(Nat) /\ Len(Amounts(d.plan)) = n
          /\ \A i \in 1..n : Amounts(d.plan)[i] = d.plan[i].amount
      BY <2>1, <2>2, PlanFacts
    <2> HIDE DEF n
    <2>4. \A i \in 1..n : d.plan[i].amount \in (d.shared \div n)..
                                               ((d.shared \div n) + (d.shared % n))
      BY <2>1, <2>2, <2>3, EvenShares
    <2> QED BY <2>1, <2>2, <2>3, <2>4 DEF Fair, n
  <1>2. PaymentsInv => SharesAreFair
    BY <1>1 DEF SharesAreFair
  <1> QED BY <1>2, PaymentsInvariance, PTL

\* However many users bet and whatever else is sent to the pool, the first
\* distribution pays the winners what the summary of the pool promised them,
\* unless a payment was taken back.
THEOREM PromiseIsAlwaysPaid == PaymentsSpec => []PromiseIsPaid
  <1>1. ASSUME PaymentsInv, NEW d \in paidOut, d.earlier = 0,
               \A b \in BetsOf(d.pool) : intent[b] # "revoked",
               NEW i \in DOMAIN d.plan
        PROVE  d.plan[i].amount >=
                   (BuyIn * Cardinality(d.counted)) \div Cardinality(Backed(d))
    <2>1. /\ Fair(d) /\ Covered(d) /\ Allowed(d) /\ d.by \in Req
          /\ d.plan \in Plans /\ d.shared \in Nat
      BY <1>1 DEF PaymentsInv, Distributions, PaymentsTypeOK
    <2>2. Cardinality(d.counted) \in Nat
      BY <1>1, <2>1, CountsInPool DEF Allowed, Underway
    <2>3. PICK n \in Nat \ {0} : n = Cardinality(Backed(d))
      BY <2>1 DEF Fair
    <2>4. PICK w \in Nat : w = BuyIn * Cardinality(d.counted)
      BY <2>2, Worth
    <2>5. d.shared >= w
      BY <1>1, <2>1, <2>4 DEF Covered
    <2>6. w \div n <= d.shared \div n /\ w \div n \in Nat /\ d.shared \div n \in Nat
      BY <2>1, <2>5, DivisionMonotone, DivisionFacts
    <2>7. d.plan[i].amount \in Nat /\ d.plan[i].amount >= d.shared \div n
      BY <2>1, <2>3, PlanFacts DEF Fair
    <2> QED BY <2>3, <2>4, <2>6, <2>7
  <1>2. PaymentsInv => PromiseIsPaid
    BY <1>1 DEF PromiseIsPaid
  <1> QED BY <1>2, PaymentsInvariance, PTL

\* The notification of a resolution and the distribution of the pool decide
\* apart who won, each on bets it counted itself: when they counted the same,
\* the users who were told to have won, or to be refunded, are those who are
\* paid.
THEOREM PaidAlwaysAsTold == PaymentsSpec => []PaidAsTold
  <1>1. ASSUME PaymentsInv, NEW e \in told, NEW d \in paidOut,
               e.pool = d.pool, CountAlike(e.by, d.by)
        PROVE  Pays(d, e.user) <=> e.result # "lose"
    <2>1. /\ TypeOK /\ Inv /\ MembersAndBets /\ Tells(e) /\ Allowed(d)
          /\ e.by \in Req /\ d.by \in Req
      BY <1>1 DEF PaymentsInv, ServerInv, Distributions, PaymentsTypeOK, TypeOK, Told
    <2>2. PICK b \in Counted(e.by) : e = EventOf(e.by, b)
      BY <2>1 DEF Tells
    <2>3. /\ e.user = bets[e.by][b].meta.user
          /\ e.result = UserResult(seenPool[e.by].meta.resolution,
                                   bets[e.by][b].meta.outcome, VotesOf(e.by))
      BY <2>2, EventFields
    <2>4. seenPool[e.by].meta.resolution = d.verdict
      BY <1>1, <2>1, DistributedPool DEF Tells
    <2>5. /\ d.counted = Counted(d.by) /\ b \in Counted(d.by) /\ b \in Bet
          /\ bets[d.by][b].meta.outcome = bets[e.by][b].meta.outcome
      BY <1>1, <2>1 DEF Allowed, CountAlike, Counted
    <2>6. VotesOf(e.by) = VotesOf(d.by)
      <3>1. \A o : {c \in Counted(e.by) : bets[e.by][c].meta.outcome = o} =
                   {c \in Counted(d.by) : bets[d.by][c].meta.outcome = o}
        BY <1>1 DEF CountAlike
      <3>2. \A o : Votes(e.by, o) = Votes(d.by, o)
        BY <3>1 DEF Votes
      <3> QED BY <3>2 DEF VotesOf
    <2>7. b \in Backed(d) <=> e.result # "lose"
      BY <2>3, <2>4, <2>5, <2>6, BackedByRequest
    <2>8. \A c \in Counted(d.by) : c \in Bet /\ betRow[c] # None
              /\ bets[d.by][c].meta.user = betRow[c].meta.user
      BY <2>1 DEF Counted, Inv, RequestInv, HeldBetsAreStored
    <2>9. betRow[b].meta.user = e.user
      BY <2>1, <2>2, <2>3 DEF Counted, Inv, RequestInv, HeldBetsAreStored
    <2>10. ASSUME NEW c \in Backed(d), betRow[c].meta.user = e.user PROVE c = b
      <3>1. c \in Counted(d.by)
        BY <1>1, PaysBackers
      <3>2. call[d.by].pool \in Pool
        BY <1>1, <2>1, DistributedPool DEF Allowed
      <3> QED BY <2>1, <2>5, <2>8, <2>9, <2>10, <3>1, <3>2, CountedUsersDiffer
    <2> QED BY <1>1, <2>7, <2>9, <2>10, PaysBackers
  <1>2. PaymentsInv => PaidAsTold
    BY <1>1 DEF PaidAsTold
  <1> QED BY <1>2, PaymentsInvariance, PTL

\* The page of a user's feed that shows a distribution fails only when the
\* result of the pool changed under it, by a bet that changed sides or was
\* counted later.
THEOREM FeedsAreReadable == PaymentsSpec => []FeedReadable
  <1>1. PaymentsInv => FeedReadable
    BY DEF PaymentsInv
  <1> QED BY <1>1, PaymentsInvariance, PTL

\* However the handlers of the reports of a pool's payments overlap, one of
\* them counts all the payments that were reported.
THEOREM LastUpdatesAreComplete == PaymentsSpec => []LastUpdateIsComplete
  <1>1. ASSUME PaymentsInv, NEW p \in Pool, PaidBets(p) # {},
               \A b \in PaidBets(p) : intent[b] = "match",
               \A b \in PaidBets(p) : \E e \in announced : e.bet = b
        PROVE  \E e \in announced : e.pool = p /\ PaidBets(p) \subseteq e.counted
    <2>1. Reporting /\ Updates
      BY <1>1 DEF PaymentsInv
    <2>2. \A b \in PaidBets(p) : \E r \in Req : Reports(r, b) /\ result[r] = "OK"
      BY <1>1, <2>1 DEF Reporting
    <2>3. Settled(p)
      BY <1>1, <2>2 DEF Settled
    <2>4. PICK r \in Req, b \in PaidBets(p) :
              Reports(r, b) /\ Catches(r, b, PaidBets(p))
      BY <2>1, <2>3 DEF Updates
    <2>5. b \in Bet /\ betRow[b].pool = p
      BY DEF PaidBets, BetsOf
    <2>6. result[r] = "OK"
      BY <2>1, <2>2, <2>4, <2>5 DEF Reporting
    <2> QED BY <1>1, <2>4, <2>5, <2>6 DEF Catches
  <1>2. PaymentsInv => LastUpdateIsComplete
    BY <1>1 DEF LastUpdateIsComplete, PaidBets
  <1> QED BY <1>2, PaymentsInvariance, PTL

-----------------------------------------------------------------------------
(* What the pool service promises without payments it keeps with them *)

\* A request that finds its pool changes nothing that users were told.
LEMMA AnswersWithPayments ==
    PaymentsInv /\ AnswersStand /\ [PaymentsNext]_paymentVars => AnswersStand'
  <1>1. ASSUME PaymentsInv, AnswersStand, [PaymentsNext]_paymentVars PROVE AnswersStand'
    <2>1. TypeOK /\ Inv
      BY <1>1 DEF PaymentsInv, ServerInv
    <2>2. CASE [Next]_vars
      BY <1>1, <2>1, <2>2, AnswersStep
    <2>3. ASSUME NEW r \in Req, NEW p \in Pool, Finds(r, p) PROVE AnswersStand'
      <3>1. /\ call'[r].op = "GetPool"
            /\ \A s \in Req : s # r => Rests(s)
            /\ UNCHANGED <<poolRow, betRow>>
        BY <2>1, <2>3, FoundRequest DEF store
      <3>2. ASSUME NEW s \in Req, call'[s] # None PROVE AnswerHolds(s)'
        <4>1. CASE s = r
          BY <3>1, <4>1, PlainAnswer
        <4>2. CASE s # r
          BY <1>1, <3>1, <3>2, <4>2 DEF AnswersStand, AnswerHolds, Rests, Exists
        <4> QED BY <4>1, <4>2
      <3> QED BY <3>2 DEF AnswersStand
    <2> QED BY <1>1, <2>2, <2>3, StepKinds
  <1> QED BY <1>1

LEMMA TellingWithPayments ==
    PaymentsInv /\ ToldConsistently /\ [PaymentsNext]_paymentVars => ToldConsistently'
  <1>1. ASSUME PaymentsInv, ToldConsistently, [PaymentsNext]_paymentVars
        PROVE  ToldConsistently'
    <2>1. TypeOK /\ Inv /\ MembersAndBets /\ ToldInv
      BY <1>1 DEF PaymentsInv, ServerInv
    <2>2. CASE [Next]_vars
      BY <1>1, <2>1, <2>2, ConsistentlyStep
    <2>3. ASSUME NEW r \in Req, NEW p \in Pool, Finds(r, p) PROVE ToldConsistently'
      <3>1. UNCHANGED told
        BY <2>1, <2>3, FoundRequest
      <3> QED BY <1>1, <3>1 DEF ToldConsistently
    <2> QED BY <1>1, <2>2, <2>3, StepKinds
  <1> QED BY <1>1

LEMMA BettorsWithPayments ==
    PaymentsInv /\ Bettors /\ [PaymentsNext]_paymentVars => Bettors'
  <1>1. ASSUME PaymentsInv, Bettors, [PaymentsNext]_paymentVars PROVE Bettors'
    <2>1. TypeOK /\ Inv
      BY <1>1 DEF PaymentsInv, ServerInv
    <2>2. CASE [Next]_vars
      BY <1>1, <2>1, <2>2, BettorsStep DEF Bettors
    <2>3. ASSUME NEW r \in Req, NEW p \in Pool, Finds(r, p) PROVE Bettors'
      <3>1. call'[r].op = "GetPool" /\ \A s \in Req : s # r => Rests(s)
        BY <2>1, <2>3, FoundRequest
      <3> QED BY <1>1, <3>1 DEF Bettors, BettorSawOpen, Rests
    <2> QED BY <1>1, <2>2, <2>3, StepKinds
  <1> QED BY <1>1

\* Among the requests of bettors, payments that are reported, distributions and
\* feeds count bets and mark them as paid: rows, signatures, memberships,
\* answers and notifications stay right all the same.
THEOREM ServerInvariance ==
    PaymentsSpec => [](TypeOK /\ SignaturesMatch /\ AnswersStand /\ MembersAndBets
                       /\ CountsAreStored /\ ToldOnce /\ ToldConsistently)
  <1>1. PaymentsInv => /\ TypeOK /\ SignaturesMatch /\ MembersAndBets /\ ToldOnce
                       /\ CountsAreStored
    BY DEF PaymentsInv, ServerInv, Inv, ToldInv, RequestInv, HeldBetsAreStored,
           CountsAreStored, Counted
  <1>2. PaymentsInit => AnswersStand /\ ToldConsistently
    BY DEF PaymentsInit, Init, AnswersStand, ToldConsistently
  <1> QED BY <1>1, <1>2, AnswersWithPayments, TellingWithPayments,
             PaymentsInvariance, PTL DEF PaymentsSpec

\* What a request that serves a payment counts, it finds with the steps of
\* GetPool: pools still do only what PoolLifecycle allows.
THEOREM ServerRefinement == PaymentsSpec => ImplementsLifecycle
  <1>1. PaymentsInit => Lifecycle!Init
    BY LifecycleInit DEF PaymentsInit
  <1>2. ASSUME PaymentsInv, [PaymentsNext]_paymentVars
        PROVE  [Lifecycle!Next]_(Lifecycle!vars)
    <2>1. TypeOK /\ Inv
      BY <1>2 DEF PaymentsInv, ServerInv
    <2>2. CASE [Next]_vars
      BY <2>1, <2>2, LifecycleStep
    <2>3. ASSUME NEW r \in Req, NEW p \in Pool, Finds(r, p) PROVE UNCHANGED Lifecycle!vars
      <3>1. UNCHANGED poolRow
        BY <2>1, <2>3, FoundRequest DEF store
      <3> QED BY <3>1 DEF Lifecycle!vars
    <2> QED BY <1>2, <2>2, <2>3, StepKinds
  <1> QED BY <1>1, <1>2, PaymentsInvariance, PTL
          DEF PaymentsSpec, ImplementsLifecycle, Lifecycle!Spec

\* Nor does a payment that is reported or paid out forget a vote, take a mark
\* back, or change a bet that is frozen.
THEOREM ServerSteps == PaymentsSpec => NoVoteForgotten /\ PaidBetFrozen /\ ClosedPoolFrozen
  <1>1. PaymentsSpec => []Bettors
    <2>1. PaymentsInit => Bettors
      BY DEF PaymentsInit, Init, Bettors, BettorSawOpen
    <2> QED BY <2>1, BettorsWithPayments, PaymentsInvariance, PTL DEF PaymentsSpec
  <1>2. ASSUME PaymentsInv, Bettors, [PaymentsNext]_paymentVars
        PROVE  /\ [\A r, s \in Req :
                     /\ pc[r] = "read_bets" /\ pc'[r] = "check_paid"
                     /\ call[s] # None /\ call[s].pool = call[r].pool
                     => Counted(s) \subseteq Counted(r)']_vars
               /\ [\A b \in Bet :
                     betRow[b] # None /\ betRow[b].paid =>
                        /\ betRow'[b] # None /\ betRow'[b].paid
                        /\ Changing(b) = {} => betRow'[b].meta = betRow[b].meta]_vars
               /\ [\A p \in Pool :
                     Exists(p) /\ ~poolRow[p].meta.isOpen /\ Betting(p) = {}
                     => Board(p)' = Board(p)]_vars
    <2>1. TypeOK /\ Inv
      BY <1>2 DEF PaymentsInv, ServerInv
    <2>2. CASE [Next]_vars
      BY <1>2, <2>1, <2>2, VotesStep, BetsEvolve, BetMetaChange, BoardStep DEF BetEvolves
    <2>3. ASSUME NEW r \in Req, NEW p \in Pool, Finds(r, p)
          PROVE  /\ UNCHANGED betRow
                 /\ \A s \in Req : pc[s] = "read_bets" => pc'[s] # "check_paid"
                 /\ \A q : Board(q)' = Board(q)
      <3>1. UNCHANGED betRow /\ pc'[r] = "read_bets" /\ \A s \in Req : s # r => Rests(s)
        BY <2>1, <2>3, FoundRequest DEF store
      <3> QED BY <3>1 DEF Rests, Board, BetsOf
    <2> QED BY <1>2, <2>2, <2>3, StepKinds
  <1> QED BY <1>1, <1>2, PaymentsInvariance, PTL
          DEF PaymentsSpec, NoVoteForgotten, PaidBetFrozen, ClosedPoolFrozen
=============================================================================
