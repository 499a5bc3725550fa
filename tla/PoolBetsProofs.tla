--------------------------- MODULE PoolBetsProofs ---------------------------
(***************************************************************************)
(* More proofs about PoolServer: who holds which bet of a pool, when a bet *)
(* may still change, and what bettors are told of a resolution.            *)
(***************************************************************************)
EXTENDS PoolServerProofs, WellFoundedInduction

(* Numbers *)

\* Numbers have a least one among them.
LEMMA LeastOf ==
    ASSUME NEW T \in SUBSET Nat, T # {}
    PROVE  \E m \in T : \A k \in T : ~(k < m)
  <1> DEFINE R == {x \in Nat \X Nat : x[1] < x[2]}
  <1>1. IsWellFoundedOn(R, Nat)
    BY NatLessThanWellFounded DEF OpToRel
  <1> HIDE DEF R
  <1>2. PICK m \in T : \A k \in T : ~(<<k, m>> \in R)
    BY <1>1, WFMin
  <1> QED BY <1>2 DEF R

-----------------------------------------------------------------------------
(* Members and bets *)

\* The row of a bet appears only with the insert that checks both unique
\* keys and writes the member.
LEMMA NewBet ==
    ASSUME TypeOK, Inv, [Next]_vars, NEW b \in Bet,
           betRow[b] = None, betRow'[b] # None
    PROVE  \E r \in Req :
              /\ b = call[r].bet /\ call[r].pool \in Pool
              /\ BetsBy(call[r].pool, call[r].user) = {}
              /\ betRow'[b].pool = call[r].pool
              /\ betRow'[b].meta.user = call[r].user
              /\ betRow'[b].meta.payTo = call[r].account
              /\ \A a \in Bet : a # b => betRow'[a] = betRow[a]
              /\ <<call[r].pool, call[r].user>> \in member'
              /\ pc[r] = "insert_bet" /\ call[r].op = "MakeBet"
  <1>1. PICK r \in Req : \/ UpdateBetOutcome(r) \/ InsertBet(r)
                         \/ MarkBetAsPaid(r)
    BY BetTableStep
  <1> DEFINE c == call[r]
  <1>2. CASE InsertBet(r)
    <2> DEFINE m == [user |-> c.user, outcome |-> c.choice, payTo |-> c.account]
               row == [pool |-> c.pool, meta |-> m, sig |-> m, paid |-> FALSE]
    <2>1. /\ pc[r] = "insert_bet" /\ c.op = "MakeBet" /\ ~BetConflict(c)
          /\ betRow' = [betRow EXCEPT ![c.bet] = row]
          /\ member' = member \cup {<<c.pool, c.user>>}
      BY <1>2 DEF InsertBet, At
    <2>2. c.bet \in Bet /\ c.pool \in Pool
      BY <2>1, CallFields DEF Inv, RequestInv, Called, TypeOK
    <2>3. \A a \in Bet : betRow'[a] = IF a = c.bet THEN row ELSE betRow[a]
      BY <2>1, <2>2 DEF TypeOK
    <2>4. /\ row.pool = c.pool /\ row.meta.user = c.user
          /\ row.meta.payTo = c.account
      OBVIOUS
    <2> HIDE DEF row
    <2>5. b = c.bet
      BY <2>3
    <2> QED BY <2>1, <2>2, <2>3, <2>4, <2>5 DEF BetConflict
  <1>3. CASE UpdateBetOutcome(r)
    <2>1. /\ call[r].op = "MakeBet" /\ pc[r] = "check_paid"
          /\ betRow'[b] # betRow[b] => b = call[r].bet
      BY <1>3 DEF UpdateBetOutcome, AllChecked, TypeOK
    <2> QED BY <2>1 DEF Inv, RequestInv, BettorHoldsBet, HeldBetsAreStored
  <1>4. CASE MarkBetAsPaid(r)
    <2>1. betRow'[b] # betRow[b] => b = paying[r]
      BY <1>4 DEF MarkBetAsPaid, Marked, TypeOK
    <2>2. b = paying[r] => betRow[b] # None
      BY <1>4 DEF MarkBetAsPaid, Inv, RequestInv, ChecksAreHeld, HeldBetsAreStored
    <2> QED BY <2>1, <2>2
  <1> QED BY <1>1, <1>2, <1>3, <1>4

LEMMA MembersGrow == [Next]_vars => member \subseteq member'
  BY DEF Next, Step, vars, store, local, Begin, Reject, Fail, CreatePool,
         CloseReadPool, ClosePool, ResolveReadPool, ResolvePool, NotifyReadPool,
         NotifyPoolResolution, MakeBetReadPool, GetBetByUser, KeepBet,
         UpdateBetOutcome, CountBets, InsertBet, GetPoolReadPool, GetBetsByPool,
         ReturnPool, MarkBetAsPaid, GetIntent, IntentSubmitted, IntentRevoked

\* A pool appears with its creator among the members.
LEMMA NewPool ==
    ASSUME TypeOK, Inv, [Next]_vars, NEW p \in Pool, ~Exists(p), Exists(p)'
    PROVE  <<p, poolRow'[p].meta.creator>> \in member'
  <1>1. PICK r \in Req : CreatePool(r) \/ ClosePool(r) \/ ResolvePool(r)
    BY PoolTableStep DEF Exists
  <1>2. CASE CreatePool(r)
    <2> DEFINE c == call[r]
               m == [creator |-> c.user, dest |-> c.account, isOpen |-> TRUE,
                     resolution |-> "unknown", closedAt |-> None]
    <2>1. poolRow' # poolRow =>
              /\ poolRow' = [poolRow EXCEPT ![c.pool] = Signed(m, m)]
              /\ member' = member \cup {<<c.pool, c.user>>}
      BY <1>2 DEF CreatePool
    <2>2. m.creator = c.user /\ Signed(m, m).meta = m
      BY DEF Signed
    <2> HIDE DEF m
    <2>3. p = c.pool /\ poolRow'[p] = Signed(m, m)
      BY <2>1 DEF Exists, TypeOK
    <2> QED BY <2>1, <2>2, <2>3 DEF Exists
  <1>3. CASE ClosePool(r)
    <2>1. Exists(call[r].pool) /\ (poolRow'[p] # poolRow[p] => p = call[r].pool)
      BY <1>3 DEF ClosePool, At, Inv, RequestInv, CloserIsCurrent, TypeOK
    <2> QED BY <2>1 DEF Exists
  <1>4. CASE ResolvePool(r)
    <2>1. Exists(call[r].pool) /\ (poolRow'[p] # poolRow[p] => p = call[r].pool)
      BY <1>4 DEF ResolvePool, At, Inv, RequestInv, ResolverIsCurrent, TypeOK
    <2> QED BY <2>1 DEF Exists
  <1> QED BY <1>1, <1>2, <1>3, <1>4

LEMMA MembersStep ==
    TypeOK /\ Inv /\ MembersAndBets /\ [Next]_vars => MembersAndBets'
  <1> SUFFICES ASSUME TypeOK, Inv, MembersAndBets, [Next]_vars
               PROVE  MembersAndBets'
    OBVIOUS
  <1>1. ASSUME NEW p \in Pool, NEW u \in User,
               NEW a \in BetsBy(p, u)', NEW b \in BetsBy(p, u)'
        PROVE  a = b
    <2>1. /\ a \in Bet /\ betRow'[a] # None /\ betRow'[a].pool = p
          /\ betRow'[a].meta.user = u
          /\ b \in Bet /\ betRow'[b] # None /\ betRow'[b].pool = p
          /\ betRow'[b].meta.user = u
      BY DEF BetsBy, BetsOf
    <2>2. \A x \in {a, b} : betRow[x] # None => x \in BetsBy(p, u)
      BY <2>1, BetsEvolve DEF BetEvolves, BetsBy, BetsOf
    <2>3. CASE betRow[a] # None /\ betRow[b] # None
      BY <2>2, <2>3 DEF MembersAndBets
    <2>4. CASE betRow[a] = None
      <3>1. BetsBy(p, u) = {} /\ \A x \in Bet : x # a => betRow'[x] = betRow[x]
        BY <2>1, <2>4, NewBet
      <3> QED BY <2>1, <2>2, <3>1
    <2>5. CASE betRow[b] = None
      <3>1. BetsBy(p, u) = {} /\ \A x \in Bet : x # b => betRow'[x] = betRow[x]
        BY <2>1, <2>5, NewBet
      <3> QED BY <2>1, <2>2, <3>1
    <2> QED BY <2>3, <2>4, <2>5
  <1>2. ASSUME NEW b \in Bet, betRow'[b] # None
        PROVE  <<betRow'[b].pool, betRow'[b].meta.user>> \in member'
    <2>1. CASE betRow[b] = None
      BY <1>2, <2>1, NewBet
    <2>2. CASE betRow[b] # None
      BY <2>2, BetsEvolve, MembersGrow DEF BetEvolves, MembersAndBets
    <2> QED BY <2>1, <2>2
  <1>3. ASSUME NEW p \in Pool, Exists(p)'
        PROVE  <<p, poolRow'[p].meta.creator>> \in member'
    <2>1. CASE ~Exists(p)
      BY <1>3, <2>1, NewPool
    <2>2. CASE Exists(p)
      BY <2>2, PoolsEvolve, MembersGrow DEF PoolEvolves, MembersAndBets
    <2> QED BY <2>1, <2>2
  <1> QED BY <1>1, <1>2, <1>3 DEF MembersAndBets, Exists

LEMMA MembersInit == Init => MembersAndBets
  BY DEF Init, MembersAndBets, BetsBy, BetsOf, Exists

\* Nobody ever holds two bets in a pool, whatever requests they send beside
\* each other, and whoever created a pool or bets in it is a member of it.
THEOREM OneBetPerMember == Spec => []MembersAndBets
  BY MembersInit, MembersStep, Invariance, PTL DEF Spec

-----------------------------------------------------------------------------
(* When a bet may still change *)

\* A request on its way to place or to change a bet found its pool open.
BettorSawOpen(r) ==
    /\ pc[r] \in {"read_bet", "check_paid", "count_bets", "insert_bet"}
    /\ call[r].op = "MakeBet"
    => seenPool[r].meta.isOpen

LEMMA BettorsStep ==
    ASSUME TypeOK, Inv, [Next]_vars, NEW r \in Req, BettorSawOpen(r)
    PROVE  BettorSawOpen(r)'
  <1> USE DEF TypeOK, local, Goto, Answer, At, AllChecked
  <1>1. CASE Rests(r)
    BY <1>1 DEF Rests, BettorSawOpen
  <1>2. CASE Reject(r) \/ Fail(r) \/ \E c \in Calls : Begin(r, c)
    BY <1>2 DEF Reject, Fail, Begin, FirstStep, BettorSawOpen
  <1>3. CASE \/ CreatePool(r) \/ CloseReadPool(r) \/ ClosePool(r)
             \/ ResolveReadPool(r) \/ ResolvePool(r)
             \/ NotifyReadPool(r) \/ NotifyPoolResolution(r)
             \/ GetPoolReadPool(r) \/ ReturnPool(r)
    BY <1>3 DEF CreatePool, CloseReadPool, ClosePool, ResolveReadPool,
                ResolvePool, NotifyReadPool, NotifyPoolResolution,
                GetPoolReadPool, ReturnPool, BettorSawOpen
  <1>4. CASE GetBetsByPool(r)
    BY <1>4 DEF GetBetsByPool, Inv, RequestInv, HasPool, BettorSawOpen
  <1>5. CASE MakeBetReadPool(r)
    BY <1>5 DEF MakeBetReadPool, AcceptsBets, SeePool, BettorSawOpen
  <1>6. CASE GetBetByUser(r) \/ KeepBet(r) \/ UpdateBetOutcome(r)
    BY <1>6 DEF GetBetByUser, KeepBet, UpdateBetOutcome, BettorSawOpen
  <1>7. CASE CountBets(r) \/ InsertBet(r)
    BY <1>7 DEF CountBets, InsertBet, BettorSawOpen
  <1>8. CASE MarkBetAsPaid(r) \/ \E b \in Bet : GetIntent(r, b)
    BY <1>8 DEF MarkBetAsPaid, GetIntent, BettorSawOpen
  <1> QED BY <1>1, <1>2, <1>3, <1>4, <1>5, <1>6, <1>7, <1>8, RestOrMove
             DEF Moves, Step

Bettors == \A r \in Req : BettorSawOpen(r)

LEMMA BettorsInvariance == Spec => []Bettors
  <1>1. Init => Bettors
    BY DEF Init, Bettors, BettorSawOpen
  <1>2. TypeOK /\ Inv /\ Bettors /\ [Next]_vars => Bettors'
    BY BettorsStep DEF Bettors
  <1> QED BY <1>1, <1>2, Invariance, PTL DEF Spec

\* Who changes what a bet counts for: a request that took it for unpaid, or
\* one that places it.
LEMMA BetMetaChange ==
    ASSUME TypeOK, Inv, [Next]_vars, NEW b \in Bet,
           betRow[b] # None, betRow'[b].meta # betRow[b].meta
    PROVE  \E r \in Changing(b) : call[r].pool = betRow[b].pool
  <1>1. PICK r \in Req : \/ UpdateBetOutcome(r) \/ InsertBet(r)
                         \/ MarkBetAsPaid(r)
    BY BetTableStep
  <1>2. CASE UpdateBetOutcome(r)
    <2>1. /\ call[r].op = "MakeBet" /\ pc[r] = "check_paid"
          /\ ~bets[r][call[r].bet].paid
          /\ b = call[r].bet
      BY <1>2 DEF UpdateBetOutcome, AllChecked, TypeOK
    <2>2. bets[r][b] # None /\ betRow[b].pool = call[r].pool
      BY <2>1 DEF Inv, RequestInv, BettorHoldsBet, HeldBetsAreStored
    <2> QED BY <2>1, <2>2 DEF Changing
  <1>3. CASE InsertBet(r)
    BY <1>3 DEF InsertBet, BetConflict, TypeOK
  <1>4. CASE MarkBetAsPaid(r)
    <2> DEFINE a == paying[r]
    <2>1. betRow' = [betRow EXCEPT ![a].paid = TRUE]
      BY <1>4 DEF MarkBetAsPaid, Marked
    <2>2. betRow[b] \in BetRow
      BY DEF TypeOK
    <2>3. betRow'[b] = betRow[b] \/ betRow'[b] = [betRow[b] EXCEPT !.paid = TRUE]
      BY <2>1 DEF TypeOK
    <2> QED BY <2>2, <2>3 DEF BetRow
  <1> QED BY <1>1, <1>2, <1>3, <1>4

\* A mark is never taken back, and the outcome of a marked bet changes only
\* by a request that had read the bet before.
THEOREM PaidBetsAreFrozen == Spec => PaidBetFrozen
  <1>1. TypeOK /\ Inv /\ [Next]_vars =>
            [\A b \in Bet :
                betRow[b] # None /\ betRow[b].paid =>
                   /\ betRow'[b] # None /\ betRow'[b].paid
                   /\ Changing(b) = {} => betRow'[b].meta = betRow[b].meta]_vars
    BY BetsEvolve, BetMetaChange DEF BetEvolves
  <1> QED BY <1>1, Invariance, PTL DEF Spec, PaidBetFrozen

LEMMA BoardStep ==
    ASSUME TypeOK, Inv, Bettors, [Next]_vars, NEW p \in Pool, Betting(p) = {}
    PROVE  Board(p)' = Board(p)
  <1> SUFFICES ASSUME NEW b \in Bet
               PROVE  (IF b \in BetsOf(p)' THEN betRow'[b].meta ELSE None)
                      = (IF b \in BetsOf(p) THEN betRow[b].meta ELSE None)
    BY DEF Board
  <1>1. CASE betRow[b] # None
    <2>1. b \in BetsOf(p)' <=> b \in BetsOf(p)
      BY <1>1, BetsEvolve DEF BetEvolves, BetsOf
    <2>2. ASSUME b \in BetsOf(p), betRow'[b].meta # betRow[b].meta PROVE FALSE
      <3>1. PICK r \in Changing(b) : call[r].pool = p
        BY <1>1, <2>2, BetMetaChange DEF BetsOf
      <3> QED BY <3>1 DEF Changing, Betting, Bettors, BettorSawOpen
    <2> QED BY <2>1, <2>2
  <1>2. CASE betRow[b] = None /\ betRow'[b] # None
    <2>1. PICK r \in Req : /\ betRow'[b].pool = call[r].pool
                           /\ pc[r] = "insert_bet" /\ call[r].op = "MakeBet"
      BY <1>2, NewBet
    <2>2. betRow'[b].pool # p
      BY <2>1 DEF Betting, Bettors, BettorSawOpen
    <2> QED BY <1>2, <2>2 DEF BetsOf
  <1>3. CASE betRow[b] = None /\ betRow'[b] = None
    BY <1>3 DEF BetsOf
  <1> QED BY <1>1, <1>2, <1>3

\* The bets of a closed pool change only by requests that had found it open:
\* once those are through, what a resolution pays out is settled.
THEOREM ClosedPoolsAreFrozen == Spec => ClosedPoolFrozen
  <1>1. TypeOK /\ Inv /\ Bettors /\ [Next]_vars =>
            [\A p \in Pool :
                Exists(p) /\ ~poolRow[p].meta.isOpen /\ Betting(p) = {}
                => Board(p)' = Board(p)]_vars
    BY BoardStep
  <1> QED BY <1>1, Invariance, BettorsInvariance, PTL DEF Spec, ClosedPoolFrozen

-----------------------------------------------------------------------------
(* What bettors are told of a resolution *)

\* Request r resolved its pool and has not finished to tell of it.
Notifying(r) == /\ pc[r] \in {"notify", "read_bets", "check_paid"}
                /\ call[r].op = "ResolvePool"

ResolutionOf(p) == poolRow[p].meta.resolution

\* The one request that resolved a pool tells of it, with the resolution that
\* the pool has, and nobody told of it before.
NotifierInv(r) ==
    Notifying(r) =>
        /\ Exists(call[r].pool) /\ ResolutionOf(call[r].pool) # "unknown"
        /\ pc[r] # "notify" =>
               seenPool[r].meta.resolution = ResolutionOf(call[r].pool)
        /\ \A s \in Req : Notifying(s) /\ call[s].pool = call[r].pool => s = r
        /\ \A e \in told : e.pool # call[r].pool

ToldInv ==
    /\ \A r \in Req : NotifierInv(r)
    /\ \A e \in told : ResolutionOf(e.pool) # "unknown"
    /\ ToldOnce

\* The two ways in which a step can leave a request notifying.
Resolving(r) ==
    /\ pc'[r] = "notify" /\ call'[r] = call[r]
    /\ call[r].op = "ResolvePool" /\ call[r].pool \in Pool
    /\ Exists(call[r].pool) /\ ResolutionOf(call[r].pool) = "unknown"
    /\ ResolutionOf(call[r].pool)' # "unknown"
Telling(r) ==
    /\ Notifying(r) /\ call'[r] = call[r]
    /\ call[r].pool \in Pool
    /\ \/ pc'[r] = pc[r] /\ seenPool'[r] = seenPool[r]
       \/ pc[r] # "notify" /\ seenPool'[r] = seenPool[r]
       \/ /\ pc[r] = "notify" /\ UNCHANGED poolRow
          /\ seenPool'[r] = poolRow[call[r].pool]
    /\ pc'[r] # "done"

LEMMA NotifierMoves ==
    ASSUME TypeOK, Inv, [Next]_vars, NEW r \in Req, Notifying(r)'
    PROVE  Resolving(r) \/ Telling(r)
  <1> USE DEF TypeOK, store, local, Goto, Answer, At, AllChecked
  <1>1. CASE Rests(r)
    <2>1. Notifying(r) /\ call[r] \in Call
      BY <1>1 DEF Rests, Notifying, Inv, RequestInv, Called
    <2> QED BY <1>1, <2>1, CallFields DEF Rests, Notifying, Telling
  <1>2. CASE Reject(r) \/ Fail(r) \/ \E c \in Calls : Begin(r, c)
    BY <1>2 DEF Reject, Fail, Begin, FirstStep, Notifying
  <1>3. CASE \/ CreatePool(r) \/ CloseReadPool(r) \/ ClosePool(r)
             \/ ResolveReadPool(r) \/ NotifyPoolResolution(r)
             \/ GetPoolReadPool(r) \/ ReturnPool(r)
             \/ MakeBetReadPool(r) \/ GetBetByUser(r) \/ KeepBet(r)
             \/ UpdateBetOutcome(r) \/ CountBets(r) \/ InsertBet(r)
    BY <1>3 DEF CreatePool, CloseReadPool, ClosePool, ResolveReadPool,
                NotifyPoolResolution, GetPoolReadPool, ReturnPool,
                MakeBetReadPool, GetBetByUser, KeepBet, UpdateBetOutcome,
                CountBets, InsertBet, Notifying
  <1>4. CASE ResolvePool(r)
    <2> DEFINE p == call[r].pool
    <2>1. call[r] \in Call /\ call[r].op = "ResolvePool" /\ pc[r] = "resolve"
      BY <1>4 DEF ResolvePool, Inv, RequestInv, Called
    <2>2. p \in Pool /\ Exists(p) /\ call[r].choice \in {"refunded", "yes", "no"}
      BY <2>1, CallFields DEF Inv, RequestInv, ResolverIsCurrent
    <2>3. /\ Resolvable(poolRow[p]) /\ pc'[r] = "notify" /\ call' = call
          /\ poolRow' = [poolRow EXCEPT ![p] =
                Signed([poolRow[p].meta EXCEPT !.resolution = call[r].choice],
                       [seenPool[r].meta EXCEPT !.resolution = call[r].choice])]
      BY <1>4 DEF ResolvePool, Notifying
    <2>4. poolRow[p].meta \in PoolMeta
      BY <2>2, PoolRowFields DEF Exists
    <2>5. ResolutionOf(p)' = call[r].choice
      <3>1. poolRow'[p].meta = [poolRow[p].meta EXCEPT !.resolution = call[r].choice]
        BY <2>2, <2>3 DEF Signed
      <3>2. poolRow'[p].meta.resolution = call[r].choice
        BY <2>4, <3>1 DEF PoolMeta
      <3> QED BY <2>3, <3>2 DEF ResolutionOf
    <2> QED BY <2>1, <2>2, <2>3, <2>5 DEF Resolving, Resolvable, ResolutionOf
  <1>5. CASE \/ NotifyReadPool(r) \/ GetBetsByPool(r) \/ MarkBetAsPaid(r)
             \/ \E b \in Bet : GetIntent(r, b)
    <2>1. pc[r] \in {"notify", "read_bets", "check_paid"} /\ call' = call
      BY <1>5 DEF NotifyReadPool, GetBetsByPool, MarkBetAsPaid, GetIntent
    <2>2. call[r] \in Call
      BY <2>1 DEF Inv, RequestInv, Called
    <2>3. Notifying(r) /\ call[r].pool \in Pool
      BY <2>1, <2>2, CallFields DEF Notifying
    <2>4. \/ pc[r] # "notify" /\ seenPool'[r] = seenPool[r]
          \/ /\ pc[r] = "notify" /\ UNCHANGED poolRow
             /\ seenPool'[r] = poolRow[call[r].pool]
      BY <1>5 DEF NotifyReadPool, GetBetsByPool, MarkBetAsPaid, GetIntent, SeePool
    <2> QED BY <2>1, <2>3, <2>4 DEF Telling, Notifying
  <1> QED BY <1>1, <1>2, <1>3, <1>4, <1>5, RestOrMove DEF Moves, Step

\* A resolution that is made stands.
LEMMA ResolutionStands ==
    ASSUME TypeOK, Inv, [Next]_vars, NEW p \in Pool,
           Exists(p), ResolutionOf(p) # "unknown"
    PROVE  Exists(p)' /\ ResolutionOf(p)' = ResolutionOf(p)
  BY PoolsEvolve DEF PoolEvolves, ResolutionOf, Resolvable, Exists, Inv,
                     ResolvedAreClosed

LEMMA ToldTableStep ==
    [Next]_vars => \/ UNCHANGED told
                   \/ \E r \in Req : NotifyPoolResolution(r)
  BY DEF Next, Step, vars, store, local, Begin, Reject, Fail, CreatePool,
         CloseReadPool, ClosePool, ResolveReadPool, ResolvePool, NotifyReadPool,
         MakeBetReadPool, GetBetByUser, KeepBet, UpdateBetOutcome, CountBets,
         InsertBet, GetPoolReadPool, GetBetsByPool, ReturnPool, MarkBetAsPaid,
         GetIntent, IntentSubmitted, IntentRevoked

\* Bets that one request counts are of different users.
LEMMA CountedUsersDiffer ==
    ASSUME TypeOK, Inv, MembersAndBets, NEW r \in Req, call[r].pool \in Pool,
           NEW a \in Counted(r), NEW b \in Counted(r),
           bets[r][a].meta.user = bets[r][b].meta.user
    PROVE  a = b
  <1> DEFINE p == call[r].pool
             u == bets[r][a].meta.user
  <1>1. /\ a \in Bet /\ bets[r][a] # None
        /\ b \in Bet /\ bets[r][b] # None
    BY DEF Counted
  <1>2. /\ betRow[a] # None /\ betRow[a].pool = p /\ betRow[a].meta.user = u
        /\ betRow[b] # None /\ betRow[b].pool = p /\ betRow[b].meta.user = u
    BY <1>1 DEF Inv, RequestInv, HeldBetsAreStored
  <1>3. u \in User
    BY <1>1, BetRowFields DEF TypeOK
  <1>4. a \in BetsBy(p, u) /\ b \in BetsBy(p, u)
    BY <1>1, <1>2 DEF BetsBy, BetsOf
  <1> QED BY <1>3, <1>4 DEF MembersAndBets

\* The event that r raises for bet b.
VotesOf(r) == [o \in Outcome |-> Votes(r, o)]
EventOf(r, b) ==
    [by |-> r, pool |-> call[r].pool, user |-> bets[r][b].meta.user,
     result |-> UserResult(seenPool[r].meta.resolution,
                           bets[r][b].meta.outcome, VotesOf(r)),
     resolution |-> seenPool[r].meta.resolution,
     yes |-> VotesOf(r)["yes"], no |-> VotesOf(r)["no"]]

LEMMA EventsOfBets == \A r : ResolutionEvents(r) = {EventOf(r, b) : b \in Counted(r)}
  BY DEF ResolutionEvents, EventOf, VotesOf

LEMMA EventFields ==
    \A r, b : /\ EventOf(r, b).by = r /\ EventOf(r, b).pool = call[r].pool
              /\ EventOf(r, b).user = bets[r][b].meta.user
              /\ EventOf(r, b).resolution = seenPool[r].meta.resolution
              /\ EventOf(r, b).result =
                    UserResult(seenPool[r].meta.resolution,
                               bets[r][b].meta.outcome, VotesOf(r))
              /\ EventOf(r, b).yes = Votes(r, "yes")
              /\ EventOf(r, b).no = Votes(r, "no")
  BY DEF EventOf, VotesOf, Outcome

LEMMA NotifiersStep ==
    ASSUME TypeOK, Inv, ToldInv, [Next]_vars, NEW r \in Req
    PROVE  NotifierInv(r)'
  <1> SUFFICES ASSUME Notifying(r)' PROVE NotifierInv(r)'
    BY DEF NotifierInv
  <1> PICK p : p = call[r].pool
    OBVIOUS
  <1>0. NotifierInv(r) /\ \A s \in Req : NotifierInv(s)
    BY DEF ToldInv
  <1>1. Resolving(r) \/ Telling(r)
    BY NotifierMoves
  <1>2. call'[r] = call[r] /\ p \in Pool /\ Exists(p)
    BY <1>0, <1>1 DEF Resolving, Telling, NotifierInv
  <1>3. Exists(p)' /\ ResolutionOf(p)' # "unknown"
    <2>1. CASE Resolving(r)
      BY <1>2, <2>1, PoolsEvolve DEF Resolving, PoolEvolves, ResolutionOf
    <2>2. CASE Telling(r)
      BY <1>0, <1>2, <2>2, ResolutionStands DEF Telling, NotifierInv
    <2> QED BY <1>1, <2>1, <2>2
  <1>4. pc'[r] # "notify" => seenPool'[r].meta.resolution = ResolutionOf(p)'
    <2>1. CASE Resolving(r)
      BY <2>1 DEF Resolving
    <2>2. CASE Telling(r)
      <3>1. ResolutionOf(p)' = ResolutionOf(p)
        BY <1>0, <1>2, <2>2, ResolutionStands DEF Telling, NotifierInv
      <3> QED BY <1>0, <2>2, <3>1 DEF Telling, NotifierInv, ResolutionOf
    <2> QED BY <1>1, <2>1, <2>2
  <1>5. ASSUME NEW s \in Req, Notifying(s)', call'[s].pool = p PROVE s = r
    <2>1. Resolving(s) \/ Telling(s)
      BY <1>5, NotifierMoves
    <2>2. call'[s] = call[s] /\ call[s].pool = p
      BY <1>5, <2>1 DEF Resolving, Telling
    <2>3. CASE Telling(r) /\ Telling(s)
      BY <1>0, <2>2, <2>3 DEF Telling, NotifierInv
    <2>4. CASE Resolving(r) /\ Telling(s)
      BY <1>0, <2>2, <2>4 DEF Resolving, Telling, NotifierInv
    <2>5. CASE Telling(r) /\ Resolving(s)
      BY <1>0, <2>2, <2>5 DEF Resolving, Telling, NotifierInv
    <2>6. CASE Resolving(r) /\ Resolving(s)
      <3>1. pc[r] # "notify" /\ pc[s] # "notify"
        BY <1>0, <2>2, <2>6 DEF Resolving, NotifierInv, Notifying
      <3>2. Moves(r) /\ Moves(s)
        BY <2>6, <3>1, RestOrMove DEF Resolving, Rests
      <3>3. r # s => Rests(s)
        BY <3>2, OthersRest
      <3> QED BY <2>6, <3>1, <3>3 DEF Resolving, Rests
    <2> QED BY <1>1, <2>1, <2>3, <2>4, <2>5, <2>6
  <1>6. ASSUME NEW e \in told' PROVE e.pool # p
    <2>1. CASE e \in told
      <3>1. ResolutionOf(e.pool) # "unknown"
        BY <2>1 DEF ToldInv
      <3> QED BY <1>0, <1>1, <2>1, <3>1 DEF Resolving, Telling, NotifierInv
    <2>2. CASE e \notin told
      <3>1. PICK s \in Req : NotifyPoolResolution(s)
        BY <2>2, ToldTableStep
      <3>2. e \in ResolutionEvents(s) /\ Notifying(s) /\ pc'[s] = "done"
        BY <2>2, <3>1 DEF NotifyPoolResolution, AllChecked, Notifying, Goto, TypeOK
      <3>3. e.pool = call[s].pool
        BY <3>2, EventsOfBets, EventFields
      <3>4. s # r
        BY <3>2 DEF Notifying
      <3>5. Telling(r) \/ ResolutionOf(p) = "unknown"
        BY <1>1 DEF Resolving
      <3> QED BY <1>0, <3>2, <3>3, <3>4, <3>5 DEF NotifierInv, Telling
    <2> QED BY <2>1, <2>2
  <1> QED BY <1>2, <1>3, <1>4, <1>5, <1>6 DEF NotifierInv, Notifying, Exists, ResolutionOf

LEMMA ToldStep ==
    ASSUME TypeOK, Inv, MembersAndBets, ToldInv, [Next]_vars
    PROVE  ToldInv'
  <1>1. \A r \in Req : NotifierInv(r)'
    BY NotifiersStep
  <1>2. ASSUME NEW e \in told
        PROVE  /\ Exists(e.pool)' /\ ResolutionOf(e.pool)' = e.resolution
               /\ ResolutionOf(e.pool)' # "unknown"
    <2>1. /\ e.pool \in Pool /\ Exists(e.pool)
          /\ ResolutionOf(e.pool) = e.resolution /\ e.resolution # "unknown"
      BY DEF ToldInv, ToldOnce, TypeOK, Told, ResolutionOf
    <2> QED BY <2>1, ResolutionStands
  <1>3. CASE UNCHANGED told
    BY <1>1, <1>2, <1>3 DEF ToldInv, ToldOnce, ResolutionOf, Exists
  <1>4. ASSUME NEW r \in Req, NotifyPoolResolution(r) PROVE ToldInv'
    <2> DEFINE p == call[r].pool
    <2>1. /\ Notifying(r) /\ pc[r] = "check_paid"
          /\ told' = told \cup ResolutionEvents(r) /\ UNCHANGED poolRow
      BY <1>4 DEF NotifyPoolResolution, AllChecked, Notifying, store
    <2>2. /\ Exists(p) /\ ResolutionOf(p) # "unknown"
          /\ seenPool[r].meta.resolution = ResolutionOf(p)
          /\ \A e \in told : e.pool # p
      BY <2>1 DEF ToldInv, NotifierInv
    <2>3. p \in Pool
      BY <2>1, CallFields DEF Inv, RequestInv, Called, TypeOK
    <2>4. \A e \in ResolutionEvents(r) :
              /\ e.by = r /\ e.pool = p /\ e.resolution = ResolutionOf(p)
      BY <2>2, EventsOfBets, EventFields
    <2>5. \A e, f \in ResolutionEvents(r) : e.user = f.user => e = f
      <3> SUFFICES ASSUME NEW e \in ResolutionEvents(r),
                          NEW f \in ResolutionEvents(r), e.user = f.user
                   PROVE  e = f
        OBVIOUS
      <3>1. PICK a \in Counted(r) : e = EventOf(r, a)
        BY EventsOfBets
      <3>2. PICK b \in Counted(r) : f = EventOf(r, b)
        BY EventsOfBets
      <3>3. a = b
        BY <2>3, <3>1, <3>2, EventFields, CountedUsersDiffer
      <3> QED BY <3>1, <3>2, <3>3
    <2>6. ToldOnce'
      <3> SUFFICES ASSUME NEW e \in told', NEW f \in told', e.pool = f.pool
                   PROVE  /\ e.by = f.by
                          /\ e.user = f.user => e = f
                          /\ Exists(e.pool)'
                          /\ ResolutionOf(e.pool)' = e.resolution
        BY DEF ToldOnce, ResolutionOf, Exists
      <3>1. CASE e \in told /\ f \in told
        BY <3>1, <1>2 DEF ToldInv, ToldOnce
      <3>2. CASE e \in ResolutionEvents(r) /\ f \in ResolutionEvents(r)
        BY <3>2, <2>1, <2>2, <2>4, <2>5 DEF Exists, ResolutionOf
      <3> QED BY <3>1, <3>2, <2>1, <2>2, <2>4
    <2> QED BY <1>1, <1>2, <2>1, <2>2, <2>4, <2>6 DEF ToldInv, ResolutionOf
  <1> QED BY <1>3, <1>4, ToldTableStep

LEMMA ToldInvariance == Spec => []ToldInv
  <1>1. Init => ToldInv
    BY DEF Init, ToldInv, ToldOnce, NotifierInv, Notifying
  <1> QED BY <1>1, ToldStep, Invariance, OneBetPerMember, PTL DEF Spec

\* However many requests try to resolve a pool, one of them tells each bettor
\* of it, once, and what it tells is the resolution that stands.
THEOREM ToldOnlyOnce == Spec => []ToldOnce
  <1>1. ToldInv => ToldOnce
    BY DEF ToldInv
  <1> QED BY <1>1, ToldInvariance, PTL

-----------------------------------------------------------------------------
(* The events of a resolution add up *)

\* What ToldConsistently says of an event e and the events R of its pool.
AddsUp(e, R) ==
    LET ending(x) == {f \in R : f.result = x}
    IN  /\ Cardinality(R) = e.yes + e.no
        /\ ending("refund") \in {{}, R}
        /\ e.result = "lose" => ending("win") # {}
        /\ e.resolution = "yes" /\ e.yes > 0 => Cardinality(ending("win")) = e.yes
        /\ e.resolution = "no" /\ e.no > 0 => Cardinality(ending("win")) = e.no
        /\ e.resolution = "refunded" => ending("refund") = R

LEMMA ConsistentlyIsAddsUp ==
    ToldConsistently <=>
        \A e \in told : AddsUp(e, {f \in told : f.pool = e.pool})
  BY DEF ToldConsistently, AddsUp

\* The bets that r counts on outcome o.
On(r, o) == {b \in Counted(r) : bets[r][b].meta.outcome = o}

LEMMA CountedBets ==
    ASSUME TypeOK, NEW r \in Req
    PROVE  /\ IsFiniteSet(Counted(r))
           /\ Counted(r) = On(r, "yes") \cup On(r, "no")
           /\ \A o \in Outcome : /\ IsFiniteSet(On(r, o))
                                 /\ Cardinality(On(r, o)) = Votes(r, o)
                                 /\ Votes(r, o) \in Nat
                                 /\ Votes(r, o) = 0 <=> On(r, o) = {}
           /\ Cardinality(Counted(r)) = Votes(r, "yes") + Votes(r, "no")
  <1>1. Counted(r) \subseteq Bet
    BY DEF Counted
  <1>2. IsFiniteSet(Counted(r))
    BY <1>1, BetAssumption, FS_Subset
  <1>3. \A o : On(r, o) \subseteq Counted(r)
    BY DEF On
  <1>4. \A o \in Outcome : /\ IsFiniteSet(On(r, o))
                           /\ Cardinality(On(r, o)) = Votes(r, o)
                           /\ Votes(r, o) \in Nat
    <2> SUFFICES ASSUME NEW o \in Outcome
                 PROVE  /\ IsFiniteSet(On(r, o))
                        /\ Cardinality(On(r, o)) = Votes(r, o)
                        /\ Votes(r, o) \in Nat
      OBVIOUS
    <2>1. IsFiniteSet(On(r, o))
      BY <1>2, <1>3, FS_Subset
    <2> QED BY <2>1, VotesAreNat DEF On, Votes
  <1>5. \A o \in Outcome : Votes(r, o) = 0 <=> On(r, o) = {}
    BY <1>4, FS_EmptySet
  <1>6. Counted(r) = On(r, "yes") \cup On(r, "no")
    <2>1. \A b \in Counted(r) : bets[r][b] \in BetRow
      BY DEF Counted, TypeOK
    <2>2. \A b \in Counted(r) : bets[r][b].meta.outcome \in Outcome
      BY <2>1, BetRowFields
    <2> QED BY <2>2 DEF On, Outcome
  <1>7. On(r, "yes") \cap On(r, "no") = {}
    BY DEF On
  <1>8. "yes" \in Outcome /\ "no" \in Outcome
    BY DEF Outcome
  <1>9. Cardinality(Counted(r)) = Votes(r, "yes") + Votes(r, "no")
    <2>1. Cardinality(On(r, "yes") \cup On(r, "no")) =
            Cardinality(On(r, "yes")) + Cardinality(On(r, "no"))
              - Cardinality(On(r, "yes") \cap On(r, "no"))
      BY <1>4, <1>8, FS_Union
    <2>2. Cardinality(On(r, "yes") \cap On(r, "no")) = 0
      BY <1>7, FS_EmptySet
    <2> QED BY <1>4, <1>6, <1>8, <2>1, <2>2
  <1> QED BY <1>2, <1>4, <1>5, <1>6, <1>9

\* As many events as bets.
LEMMA EventsPerBet ==
    ASSUME TypeOK, Inv, MembersAndBets, NEW r \in Req, call[r].pool \in Pool,
           NEW S \in SUBSET Counted(r), IsFiniteSet(S)
    PROVE  Cardinality({EventOf(r, b) : b \in S}) = Cardinality(S)
  <1> DEFINE T == {EventOf(r, b) : b \in S}
             f == [b \in S |-> EventOf(r, b)]
  <1>1. \A a, b \in S : f[a] = f[b] => a = b
    BY EventFields, CountedUsersDiffer
  <1>2. f \in Bijection(S, T)
    BY <1>1 DEF Bijection, Injection, Surjection, IsInjective
  <1>3. ExistsBijection(S, T)
    BY <1>2 DEF ExistsBijection
  <1> HIDE DEF T
  <1> QED BY <1>3, FS_Bijection DEF T

LEMMA EventsAddUp ==
    ASSUME TypeOK, Inv, MembersAndBets, ToldInv, NEW r \in Req,
           Notifying(r), pc[r] = "check_paid", NEW e \in ResolutionEvents(r)
    PROVE  AddsUp(e, ResolutionEvents(r))
  <1> PICK verdict : verdict = seenPool[r].meta.resolution
    OBVIOUS
  <1> DEFINE R == ResolutionEvents(r)
             C == Counted(r)
             ending(x) == {f \in R : f.result = x}
             nobody == verdict = "refunded" \/ Votes(r, verdict) = 0
  <1>1. call[r].pool \in Pool
    BY CallFields DEF Inv, RequestInv, Called, TypeOK, Notifying
  <1>2. verdict \in {"refunded", "yes", "no"}
    <2>1. verdict # "unknown" /\ verdict = ResolutionOf(call[r].pool)
          /\ Exists(call[r].pool)
      BY DEF ToldInv, NotifierInv, Notifying
    <2>2. poolRow[call[r].pool] \in PoolRow
      BY <1>1, <2>1 DEF TypeOK, Exists
    <2>3. verdict \in Resolution
      BY <2>1, <2>2, PoolRowFields, PoolMetaFields DEF ResolutionOf
    <2> QED BY <2>1, <2>3 DEF Resolution
  <1>3. R = {EventOf(r, b) : b \in C}
    BY EventsOfBets
  <1>4. \A b \in C : EventOf(r, b).result =
            IF nobody THEN "refund"
            ELSE IF bets[r][b].meta.outcome = verdict THEN "win" ELSE "lose"
    <2>1. verdict # "refunded" => VotesOf(r)[verdict] = Votes(r, verdict)
      BY <1>2 DEF VotesOf, Outcome
    <2> QED BY <2>1, EventFields DEF UserResult
  <1>5. \A f \in R : /\ f.yes = Votes(r, "yes") /\ f.no = Votes(r, "no")
                     /\ f.resolution = verdict
    BY <1>3, EventFields
  <1>6. Cardinality(R) = e.yes + e.no
    <2>1. Cardinality(R) = Cardinality(C)
      BY <1>1, <1>3, EventsPerBet, CountedBets
    <2> QED BY <2>1, <1>5, CountedBets
  <1>7. ending("refund") = IF nobody THEN R ELSE {}
    BY <1>3, <1>4
  <1>8. ~nobody => ending("win") = {EventOf(r, b) : b \in On(r, verdict)}
    BY <1>3, <1>4 DEF On
  <1>9. ~nobody => /\ ending("win") # {}
                   /\ Cardinality(ending("win")) = Votes(r, verdict)
    <2> SUFFICES ASSUME ~nobody
                 PROVE  /\ ending("win") # {}
                        /\ Cardinality(ending("win")) = Votes(r, verdict)
      OBVIOUS
    <2>1. verdict \in Outcome
      BY <1>2 DEF Outcome
    <2>2. On(r, verdict) # {} /\ IsFiniteSet(On(r, verdict))
          /\ Cardinality(On(r, verdict)) = Votes(r, verdict)
      BY <2>1, CountedBets
    <2>3. On(r, verdict) \in SUBSET C
      BY DEF On
    <2>4. Cardinality({EventOf(r, b) : b \in On(r, verdict)}) = Votes(r, verdict)
      BY <1>1, <2>2, <2>3, EventsPerBet
    <2> QED BY <1>8, <2>2, <2>4
  <1>10. e.result = "lose" => ~nobody
    BY <1>3, <1>4
  <1>11. Votes(r, "yes") \in Nat /\ Votes(r, "no") \in Nat
    BY VotesAreNat DEF Outcome
  <1> HIDE DEF R
  <1>12. /\ ending("refund") \in {{}, R}
         /\ e.result = "lose" => ending("win") # {}
         /\ e.resolution = "refunded" => ending("refund") = R
    BY <1>5, <1>7, <1>9, <1>10 DEF R
  <1>13. /\ e.resolution = "yes" /\ e.yes > 0 => Cardinality(ending("win")) = e.yes
         /\ e.resolution = "no" /\ e.no > 0 => Cardinality(ending("win")) = e.no
    BY <1>5, <1>9, <1>11 DEF R
  <1> QED BY <1>6, <1>12, <1>13 DEF AddsUp, R

LEMMA ConsistentlyStep ==
    ASSUME TypeOK, Inv, MembersAndBets, ToldInv, ToldConsistently, [Next]_vars
    PROVE  ToldConsistently'
  <1>1. CASE UNCHANGED told
    BY <1>1 DEF ToldConsistently
  <1>2. ASSUME NEW r \in Req, NotifyPoolResolution(r) PROVE ToldConsistently'
    <2> PICK p : p = call[r].pool
      OBVIOUS
    <2> PICK R : R = ResolutionEvents(r)
      OBVIOUS
    <2>1. /\ Notifying(r) /\ pc[r] = "check_paid" /\ told' = told \cup R
      BY <1>2 DEF NotifyPoolResolution, AllChecked, Notifying
    <2>2. (\A e \in told : e.pool # p) /\ \A e \in R : e.pool = p
      BY <2>1, EventsOfBets, EventFields DEF ToldInv, NotifierInv
    <2>3. ASSUME NEW e \in told' PROVE AddsUp(e, {f \in told' : f.pool = e.pool})
      <3>1. CASE e \in told
        <4>1. {f \in told' : f.pool = e.pool} = {f \in told : f.pool = e.pool}
          BY <2>1, <2>2, <3>1
        <4> QED BY <3>1, <4>1, ConsistentlyIsAddsUp
      <3>2. CASE e \in R
        <4>1. {f \in told' : f.pool = e.pool} = R
          BY <2>1, <2>2, <3>2
        <4> QED BY <2>1, <3>2, <4>1, EventsAddUp
      <3> QED BY <2>1, <3>1, <3>2
    <2> QED BY <2>3 DEF ToldConsistently, AddsUp
  <1> QED BY <1>1, <1>2, ToldTableStep

\* What the bettors of a pool are told adds up: every counted bet is told,
\* there are as many winners as votes for the verdict, and nobody loses
\* where nobody wins.
THEOREM ToldIsConsistent == Spec => []ToldConsistently
  <1>1. Init => ToldConsistently
    BY DEF Init, ToldConsistently
  <1> QED BY <1>1, ConsistentlyStep, Invariance, OneBetPerMember,
             ToldInvariance, PTL DEF Spec
=============================================================================
