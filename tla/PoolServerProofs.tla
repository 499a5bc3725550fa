-------------------------- MODULE PoolServerProofs --------------------------
(***************************************************************************)
(* Proofs about PoolServer, for any number of pools, users, bets and       *)
(* concurrent requests.                                                    *)
(***************************************************************************)
EXTENDS PoolServer, FiniteSetTheorems, TLAPS

-----------------------------------------------------------------------------
(* The inductive invariant *)

\* A request has a call once it began, and holds nothing before.
Called(r) ==
    IF pc[r] = "idle"
    THEN /\ bets[r] = NoBets /\ todo[r] = {} /\ paying[r] = None
         /\ reply[r] = "none"
    ELSE call[r] # None

\* A request about to close a pool saw it open, and as it is now unless
\* another request has closed it; likewise for one about to resolve it.
CloserIsCurrent(r) ==
    pc[r] = "close" =>
        /\ Exists(call[r].pool) /\ seenPool[r] # None
        /\ poolRow[call[r].pool].meta.isOpen =>
              poolRow[call[r].pool].meta = seenPool[r].meta

ResolverIsCurrent(r) ==
    pc[r] = "resolve" =>
        /\ Exists(call[r].pool) /\ seenPool[r] # None
        /\ ~seenPool[r].meta.isOpen
        /\ poolRow[call[r].pool].meta.resolution = "unknown" =>
              poolRow[call[r].pool].meta = seenPool[r].meta

\* A notification is about a pool that exists, and who reads or checks bets
\* has read their pool.
HasPool(r) ==
    /\ pc[r] = "notify" => Exists(call[r].pool)
    /\ pc[r] = "read_bet" => seenPool[r] # None
    /\ pc[r] = "read_bets" => seenPool[r] # None /\ call[r].op # "MakeBet"
    /\ pc[r] = "check_paid" => seenPool[r] # None

\* A bet row that a request holds still is the stored one but for its
\* outcome and the mark, and it is held with a mark only if stored with one.
HeldBetsAreStored(r) ==
    \A b \in Bet : bets[r][b] # None =>
        /\ betRow[b] # None
        /\ bets[r][b].pool = call[r].pool
        /\ betRow[b].pool = call[r].pool
        /\ bets[r][b].meta.user = betRow[b].meta.user
        /\ bets[r][b].meta.payTo = betRow[b].meta.payTo
        /\ bets[r][b].paid => betRow[b].paid

ChecksAreHeld(r) ==
    /\ \A b \in todo[r] : bets[r][b] # None
    /\ paying[r] # None => paying[r] \in todo[r] /\ pc[r] \in {"check_paid", "done"}

\* A MakeBet that checks a payment holds the bet it is asked to change.
BettorHoldsBet(r) ==
    pc[r] = "check_paid" /\ call[r].op = "MakeBet" =>
        /\ bets[r][call[r].bet] # None
        /\ bets[r][call[r].bet].meta.user = call[r].user
        /\ bets[r][call[r].bet].meta.payTo = call[r].account

RequestInv(r) ==
    /\ Called(r)
    /\ CloserIsCurrent(r) /\ ResolverIsCurrent(r) /\ HasPool(r)
    /\ HeldBetsAreStored(r) /\ ChecksAreHeld(r) /\ BettorHoldsBet(r)

\* A pool is resolved only when closed.
ResolvedAreClosed ==
    \A p \in Pool : Exists(p) /\ poolRow[p].meta.isOpen =>
                        poolRow[p].meta.resolution = "unknown"

Inv == ResolvedAreClosed /\ SignaturesMatch /\ \A r \in Req : RequestInv(r)

-----------------------------------------------------------------------------
(* Facts about the data *)

LEMMA NoneIsNoRow ==
    /\ \A x \in PoolRow : x # None
    /\ \A x \in BetRow : x # None
    /\ \A x \in Call : x # None
    /\ \A b \in Bet : b # None
  BY NoneAssumption

LEMMA CallFields ==
    ASSUME NEW c \in Call
    PROVE  /\ c.user \in User /\ c.pool \in Pool
           /\ c.op = "CreatePool" => c.account \in Account
           /\ c.op = "ClosePool" => c.at \in Time
           /\ c.op = "ResolvePool" => c.choice \in {"refunded", "yes", "no"}
           /\ c.op = "MakeBet" => /\ c.bet \in Bet /\ c.choice \in Outcome
                                  /\ c.account \in Account
           /\ c.op \in {"CreatePool", "ClosePool", "ResolvePool", "MakeBet",
                        "GetPool"}
  BY DEF Call, CreateCall, CloseCall, ResolveCall, BetCall, GetCall

LEMMA PoolRowFields ==
    ASSUME NEW row \in PoolRow
    PROVE  /\ row.meta \in PoolMeta /\ row.sig \in PoolMeta
  BY DEF PoolRow

LEMMA PoolMetaFields ==
    ASSUME NEW m \in PoolMeta
    PROVE  /\ m.creator \in User /\ m.dest \in Account
           /\ m.isOpen \in BOOLEAN /\ m.resolution \in Resolution
           /\ m.closedAt \in Time \cup {None}
  BY DEF PoolMeta

LEMMA SignedRow ==
    ASSUME NEW m \in PoolMeta, NEW n \in PoolMeta
    PROVE  /\ Signed(m, n) \in PoolRow
           /\ Signed(m, n).meta = m /\ Signed(m, n).sig = n
  BY DEF PoolRow, Signed

LEMMA BetRowFields ==
    ASSUME NEW row \in BetRow
    PROVE  /\ row.pool \in Pool /\ row.meta \in BetMeta /\ row.sig \in BetMeta
           /\ row.paid \in BOOLEAN
           /\ row.meta.user \in User /\ row.meta.outcome \in Outcome
           /\ row.meta.payTo \in Account
  BY DEF BetRow, BetMeta

\* What the two updates of a bet make of its row.
LEMMA BetRowUpdates ==
    ASSUME NEW row \in BetRow, NEW new \in BetMeta
    PROVE  LET row2 == WithOutcome(row, new)
               row3 == [row EXCEPT !.paid = TRUE]
           IN  /\ row2 \in BetRow /\ row3 \in BetRow
               /\ row2.pool = row.pool /\ row2.paid = row.paid
               /\ row2.sig = new /\ row2.meta.user = row.meta.user
               /\ row2.meta.payTo = row.meta.payTo
               /\ row2.meta.outcome = new.outcome
               /\ row3.pool = row.pool /\ row3.meta = row.meta
               /\ row3.sig = row.sig /\ row3.paid
  BY DEF BetRow, BetMeta, WithOutcome

LEMMA PoolMetaUpdates ==
    ASSUME NEW m \in PoolMeta, NEW at \in Time,
           NEW v \in {"refunded", "yes", "no"}
    PROVE  /\ [m EXCEPT !.isOpen = FALSE, !.closedAt = at] \in PoolMeta
           /\ [m EXCEPT !.resolution = v] \in PoolMeta
  BY DEF PoolMeta, Resolution

-----------------------------------------------------------------------------
(* Type correctness *)

LEMMA TypeInit == Init => TypeOK
  BY DEF Init, TypeOK, Steps, Replies, NoBets

LEMMA VotesAreNat ==
    ASSUME NEW r \in Req, NEW o \in Outcome
    PROVE  Votes(r, o) \in Nat
  <1> DEFINE S == {b \in Counted(r) : bets[r][b].meta.outcome = o}
  <1>1. IsFiniteSet(S)
    <2>1. S \subseteq Bet
      BY DEF Counted
    <2> QED BY <2>1, BetAssumption, FS_Subset
  <1> QED BY <1>1, FS_CardinalityType DEF Votes

LEMMA SeeBetsType ==
    ASSUME TypeOK, NEW r \in Req, NEW B \in SUBSET Bet, SeeBets(r, B)
    PROVE  /\ bets' \in [Req -> [Bet -> BetRow \cup {None}]]
           /\ todo' \in [Req -> SUBSET Bet]
  BY DEF SeeBets, TypeOK

LEMMA TypeStep == TypeOK /\ Inv /\ [Next]_vars => TypeOK'
  <1> SUFFICES ASSUME TypeOK, Inv, [Next]_vars PROVE TypeOK'
    OBVIOUS
  <1> USE DEF store, local
  <1>1. ASSUME NEW r \in Req, CreatePool(r) PROVE TypeOK'
    <2> DEFINE c == call[r]
               m == [creator |-> c.user, dest |-> c.account, isOpen |-> TRUE,
                     resolution |-> "unknown", closedAt |-> None]
    <2>1. c \in Call /\ c.op = "CreatePool"
      BY <1>1 DEF Inv, RequestInv, Called, CreatePool, At, TypeOK
    <2>2. c.pool \in Pool /\ c.user \in User /\ m \in PoolMeta
      BY <2>1, CallFields DEF PoolMeta, Resolution
    <2>3. Signed(m, m) \in PoolRow
      BY <2>2, SignedRow
    <2> HIDE DEF m
    <2>4. /\ poolRow' \in [Pool -> PoolRow \cup {None}]
          /\ member' \subseteq Pool \X User
      <3>1. \/ UNCHANGED <<poolRow, member>>
            \/ /\ poolRow' = [poolRow EXCEPT ![c.pool] = Signed(m, m)]
               /\ member' = member \cup {<<c.pool, c.user>>}
        BY <1>1 DEF CreatePool, m
      <3> QED BY <3>1, <2>2, <2>3 DEF TypeOK
    <2>5. pc' \in [Req -> Steps] /\ reply' \in [Req -> Replies]
      BY <1>1 DEF CreatePool, Answer, Goto, TypeOK, Steps, Replies
    <2> QED BY <1>1, <2>4, <2>5 DEF CreatePool, TypeOK
  <1>2. ASSUME NEW r \in Req, CloseReadPool(r) PROVE TypeOK'
    <2>1. call[r].pool \in Pool
      BY <1>2, CallFields DEF Inv, RequestInv, Called, CloseReadPool, At, TypeOK
    <2>2. pc' \in [Req -> Steps] /\ reply' \in [Req -> Replies]
      BY <1>2 DEF CloseReadPool, Answer, Goto, TypeOK, Steps, Replies
    <2>3. seenPool' \in [Req -> PoolRow \cup {None}]
      BY <1>2, <2>1 DEF CloseReadPool, SeePool, TypeOK
    <2> QED BY <1>2, <2>2, <2>3 DEF CloseReadPool, TypeOK
  <1>3. ASSUME NEW r \in Req, ClosePool(r) PROVE TypeOK'
    <2> DEFINE p == call[r].pool
               Closed(m) == [m EXCEPT !.isOpen = FALSE, !.closedAt = call[r].at]
    <2>1. p \in Pool /\ call[r].at \in Time
      BY <1>3, CallFields DEF Inv, RequestInv, Called, ClosePool, At, TypeOK
    <2>2. poolRow[p] \in PoolRow /\ seenPool[r] \in PoolRow
      BY <1>3, <2>1 DEF ClosePool, At, Inv, RequestInv, CloserIsCurrent, Exists, TypeOK
    <2>3. Closed(poolRow[p].meta) \in PoolMeta /\ Closed(seenPool[r].meta) \in PoolMeta
      BY <2>1, <2>2, PoolRowFields, PoolMetaUpdates
    <2>4. Signed(Closed(poolRow[p].meta), Closed(seenPool[r].meta)) \in PoolRow
      BY <2>3, SignedRow
    <2>5. poolRow' \in [Pool -> PoolRow \cup {None}]
      BY <1>3, <2>4, <2>2 DEF ClosePool, TypeOK
    <2>6. pc' \in [Req -> Steps] /\ reply' \in [Req -> Replies]
      BY <1>3 DEF ClosePool, Answer, Goto, TypeOK, Steps, Replies
    <2> QED BY <1>3, <2>5, <2>6 DEF ClosePool, TypeOK
  <1>4. ASSUME NEW r \in Req, ResolveReadPool(r) PROVE TypeOK'
    <2>1. call[r].pool \in Pool
      BY <1>4, CallFields DEF Inv, RequestInv, Called, ResolveReadPool, At, TypeOK
    <2>2. pc' \in [Req -> Steps] /\ reply' \in [Req -> Replies]
      BY <1>4 DEF ResolveReadPool, Answer, Goto, TypeOK, Steps, Replies
    <2>3. seenPool' \in [Req -> PoolRow \cup {None}]
      BY <1>4, <2>1 DEF ResolveReadPool, SeePool, TypeOK
    <2> QED BY <1>4, <2>2, <2>3 DEF ResolveReadPool, TypeOK
  <1>5. ASSUME NEW r \in Req, ResolvePool(r) PROVE TypeOK'
    <2> DEFINE p == call[r].pool
               Resolved(m) == [m EXCEPT !.resolution = call[r].choice]
    <2>1. p \in Pool /\ call[r].choice \in {"refunded", "yes", "no"}
      BY <1>5, CallFields DEF Inv, RequestInv, Called, ResolvePool, At, TypeOK
    <2>2. poolRow[p] \in PoolRow /\ seenPool[r] \in PoolRow
      BY <1>5, <2>1 DEF ResolvePool, At, Inv, RequestInv, ResolverIsCurrent, Exists, TypeOK
    <2>3. Resolved(poolRow[p].meta) \in PoolMeta /\ Resolved(seenPool[r].meta) \in PoolMeta
      BY <2>1, <2>2, PoolRowFields DEF PoolMeta, Resolution
    <2>4. Signed(Resolved(poolRow[p].meta), Resolved(seenPool[r].meta)) \in PoolRow
      BY <2>3, SignedRow
    <2>5. poolRow' \in [Pool -> PoolRow \cup {None}]
      BY <1>5, <2>4, <2>2 DEF ResolvePool, TypeOK
    <2>6. pc' \in [Req -> Steps] /\ reply' \in [Req -> Replies]
      BY <1>5 DEF ResolvePool, Answer, Goto, TypeOK, Steps, Replies
    <2> QED BY <1>5, <2>5, <2>6 DEF ResolvePool, TypeOK
  <1>6. ASSUME NEW r \in Req, NotifyReadPool(r) PROVE TypeOK'
    <2>1. call[r].pool \in Pool
      BY <1>6, CallFields DEF Inv, RequestInv, Called, NotifyReadPool, At, TypeOK
    <2> QED BY <1>6, <2>1 DEF NotifyReadPool, SeePool, Goto, TypeOK, Steps
  <1>7. ASSUME NEW r \in Req, NotifyPoolResolution(r) PROVE TypeOK'
    <2>1. call[r] \in Call /\ call[r].pool \in Pool
      BY <1>7, CallFields DEF Inv, RequestInv, Called, NotifyPoolResolution, AllChecked, TypeOK
    <2>2. seenPool[r].meta.resolution \in Resolution
      BY <1>7, PoolRowFields, PoolMetaFields
         DEF Inv, RequestInv, HasPool, NotifyPoolResolution, AllChecked, TypeOK
    <2>3. \A b \in Counted(r) : bets[r][b] \in BetRow
      BY DEF Counted, TypeOK
    <2>4. ResolutionEvents(r) \subseteq Told
      <3> DEFINE verdict == seenPool[r].meta.resolution
                 votes == [o \in Outcome |-> Votes(r, o)]
      <3>1. votes["yes"] \in Nat /\ votes["no"] \in Nat
        BY VotesAreNat DEF Outcome
      <3>2. \A o : UserResult(verdict, o, votes) \in {"win", "lose", "refund"}
        BY DEF UserResult
      <3>3. \A b \in Counted(r) : bets[r][b].meta.user \in User
        BY <2>3, BetRowFields
      <3> HIDE DEF votes
      <3>4. \A b \in Counted(r) :
              [by |-> r, pool |-> call[r].pool, user |-> bets[r][b].meta.user,
               result |-> UserResult(verdict, bets[r][b].meta.outcome, votes),
               resolution |-> verdict, yes |-> votes["yes"], no |-> votes["no"]]
              \in Told
        BY <2>1, <2>2, <3>1, <3>2, <3>3 DEF Told
      <3> QED BY <3>4 DEF ResolutionEvents, votes
    <2> QED BY <1>7, <2>4 DEF NotifyPoolResolution, Goto, TypeOK, Steps
  <1>8. ASSUME NEW r \in Req, MakeBetReadPool(r) PROVE TypeOK'
    <2>1. call[r].pool \in Pool
      BY <1>8, CallFields DEF Inv, RequestInv, Called, MakeBetReadPool, At, TypeOK
    <2>2. pc' \in [Req -> Steps] /\ reply' \in [Req -> Replies]
      BY <1>8 DEF MakeBetReadPool, Answer, Goto, TypeOK, Steps, Replies
    <2>3. seenPool' \in [Req -> PoolRow \cup {None}]
      BY <1>8, <2>1 DEF MakeBetReadPool, SeePool, TypeOK
    <2> QED BY <1>8, <2>2, <2>3 DEF MakeBetReadPool, TypeOK
  <1>9. ASSUME NEW r \in Req, GetBetByUser(r) PROVE TypeOK'
    <2>1. pc' \in [Req -> Steps] /\ reply' \in [Req -> Replies]
      BY <1>9 DEF GetBetByUser, Answer, Goto, TypeOK, Steps, Replies
    <2>2. /\ bets' \in [Req -> [Bet -> BetRow \cup {None}]]
          /\ todo' \in [Req -> SUBSET Bet]
      <3>1. BetsBy(call[r].pool, call[r].user) \subseteq Bet
        BY DEF BetsBy, BetsOf
      <3>2. CASE SeeBets(r, BetsBy(call[r].pool, call[r].user))
        BY <3>1, <3>2, SeeBetsType
      <3>3. CASE UNCHANGED <<bets, todo>>
        BY <3>3 DEF TypeOK
      <3> QED BY <1>9, <3>2, <3>3 DEF GetBetByUser
    <2> QED BY <1>9, <2>1, <2>2 DEF GetBetByUser, TypeOK
  <1>10. ASSUME NEW r \in Req, KeepBet(r) PROVE TypeOK'
    BY <1>10 DEF KeepBet, Answer, Goto, TypeOK, Steps, Replies
  <1>11. ASSUME NEW r \in Req, UpdateBetOutcome(r) PROVE TypeOK'
    <2> DEFINE c == call[r]
               new == [user |-> c.user, outcome |-> c.choice, payTo |-> c.account]
    <2>1. c \in Call /\ c.op = "MakeBet" /\ bets[r][c.bet] # None
      BY <1>11 DEF UpdateBetOutcome, AllChecked, Inv, RequestInv, Called, BettorHoldsBet, TypeOK
    <2>2. c.bet \in Bet /\ new \in BetMeta
      BY <2>1, CallFields DEF BetMeta
    <2>3. betRow[c.bet] \in BetRow
      BY <2>1, <2>2 DEF Inv, RequestInv, HeldBetsAreStored, TypeOK
    <2>4. WithOutcome(betRow[c.bet], new) \in BetRow
      BY <2>2, <2>3, BetRowUpdates
    <2>5. betRow' \in [Bet -> BetRow \cup {None}]
      BY <1>11, <2>4 DEF UpdateBetOutcome, TypeOK
    <2> QED BY <1>11, <2>5 DEF UpdateBetOutcome, Goto, TypeOK, Steps
  <1>12. ASSUME NEW r \in Req, CountBets(r) PROVE TypeOK'
    BY <1>12 DEF CountBets, Answer, Goto, TypeOK, Steps, Replies
  <1>13. ASSUME NEW r \in Req, InsertBet(r) PROVE TypeOK'
    <2> DEFINE c == call[r]
               m == [user |-> c.user, outcome |-> c.choice, payTo |-> c.account]
    <2>1. c \in Call /\ c.op = "MakeBet"
      BY <1>13 DEF InsertBet, At, Inv, RequestInv, Called, TypeOK
    <2>2. c.bet \in Bet /\ c.user \in User /\ c.pool \in Pool /\ m \in BetMeta
      BY <2>1, CallFields DEF BetMeta
    <2>3. [pool |-> c.pool, meta |-> m, sig |-> m, paid |-> FALSE] \in BetRow
      BY <2>2 DEF BetRow
    <2>4. betRow' \in [Bet -> BetRow \cup {None}] /\ member' \subseteq Pool \X User
      BY <1>13, <2>2, <2>3 DEF InsertBet, TypeOK
    <2>5. pc' \in [Req -> Steps] /\ reply' \in [Req -> Replies]
      BY <1>13 DEF InsertBet, Answer, Goto, TypeOK, Steps, Replies
    <2> QED BY <1>13, <2>4, <2>5 DEF InsertBet, TypeOK
  <1>14. ASSUME NEW r \in Req, GetPoolReadPool(r) PROVE TypeOK'
    <2>1. call[r].pool \in Pool
      BY <1>14, CallFields DEF Inv, RequestInv, Called, GetPoolReadPool, At, TypeOK
    <2>2. pc' \in [Req -> Steps] /\ reply' \in [Req -> Replies]
      BY <1>14 DEF GetPoolReadPool, Answer, Goto, TypeOK, Steps, Replies
    <2>3. seenPool' \in [Req -> PoolRow \cup {None}]
      BY <1>14, <2>1 DEF GetPoolReadPool, SeePool, TypeOK
    <2> QED BY <1>14, <2>2, <2>3 DEF GetPoolReadPool, TypeOK
  <1>15. ASSUME NEW r \in Req, GetBetsByPool(r) PROVE TypeOK'
    <2>1. /\ bets' \in [Req -> [Bet -> BetRow \cup {None}]]
          /\ todo' \in [Req -> SUBSET Bet]
      BY <1>15, SeeBetsType DEF GetBetsByPool, BetsOf
    <2> QED BY <1>15, <2>1 DEF GetBetsByPool, Goto, TypeOK, Steps
  <1>16. ASSUME NEW r \in Req, ReturnPool(r) PROVE TypeOK'
    BY <1>16 DEF ReturnPool, Answer, Goto, TypeOK, Steps, Replies
  <1>17. ASSUME NEW r \in Req, MarkBetAsPaid(r) PROVE TypeOK'
    <2> DEFINE b == paying[r]
    <2>1. b \in Bet /\ b \in todo[r] /\ bets[r][b] # None /\ betRow[b] # None
      BY <1>17 DEF MarkBetAsPaid, Inv, RequestInv, ChecksAreHeld, HeldBetsAreStored, TypeOK
    <2>2. betRow[b] \in BetRow /\ bets[r][b] \in BetRow
      BY <2>1 DEF TypeOK
    <2>3. /\ [betRow[b] EXCEPT !.paid = TRUE] \in BetRow
          /\ [bets[r][b] EXCEPT !.paid = TRUE] \in BetRow
      BY <2>2 DEF BetRow
    <2>4. betRow' \in [Bet -> BetRow \cup {None}]
      BY <1>17, <2>3 DEF MarkBetAsPaid, Marked, TypeOK
    <2>5. bets' \in [Req -> [Bet -> BetRow \cup {None}]]
      BY <1>17, <2>3 DEF MarkBetAsPaid, TypeOK
    <2>6. todo' \in [Req -> SUBSET Bet] /\ paying' \in [Req -> Bet \cup {None}]
      BY <1>17 DEF MarkBetAsPaid, TypeOK
    <2> QED BY <1>17, <2>4, <2>5, <2>6 DEF MarkBetAsPaid, TypeOK
  <1>18. ASSUME NEW r \in Req, NEW b \in Bet, GetIntent(r, b) PROVE TypeOK'
    <2>1. todo' \in [Req -> SUBSET Bet] /\ paying' \in [Req -> Bet \cup {None}]
      <3>1. \/ paying' = [paying EXCEPT ![r] = b] /\ UNCHANGED todo
            \/ todo' = [todo EXCEPT ![r] = @ \ {b}] /\ UNCHANGED paying
        BY <1>18 DEF GetIntent
      <3> QED BY <3>1 DEF TypeOK
    <2> QED BY <1>18, <2>1 DEF GetIntent, TypeOK
  <1>19. ASSUME NEW r \in Req, Reject(r) \/ Fail(r) PROVE TypeOK'
    BY <1>19 DEF Reject, Fail, Answer, Goto, TypeOK, Steps, Replies
  <1>20. ASSUME NEW r \in Req, NEW c \in Calls, Begin(r, c) PROVE TypeOK'
    BY <1>20, CallsAssumption DEF Begin, FirstStep, Goto, TypeOK, Steps
  <1>21. ASSUME NEW b \in Bet, IntentSubmitted(b) \/ IntentRevoked(b)
         PROVE  TypeOK'
    BY <1>21 DEF IntentSubmitted, IntentRevoked, TypeOK
  <1>22. ASSUME UNCHANGED vars PROVE TypeOK'
    BY <1>22 DEF vars, TypeOK
  <1> QED BY <1>1, <1>2, <1>3, <1>4, <1>5, <1>6, <1>7, <1>8, <1>9, <1>10, <1>11,
             <1>12, <1>13, <1>14, <1>15, <1>16, <1>17, <1>18, <1>19, <1>20,
             <1>21, <1>22 DEF Next, Step

-----------------------------------------------------------------------------
(* What a step does to the tables, and to a request that does not take it *)

LEMMA PoolTableStep ==
    [Next]_vars => \/ UNCHANGED poolRow
                   \/ \E r \in Req : CreatePool(r) \/ ClosePool(r) \/ ResolvePool(r)
  BY DEF Next, Step, vars, store, local, Begin, Reject, Fail, CloseReadPool,
         ResolveReadPool, NotifyReadPool, NotifyPoolResolution, MakeBetReadPool,
         GetBetByUser, KeepBet, UpdateBetOutcome, CountBets, InsertBet,
         GetPoolReadPool, GetBetsByPool, ReturnPool, MarkBetAsPaid, GetIntent,
         IntentSubmitted, IntentRevoked

LEMMA BetTableStep ==
    [Next]_vars => \/ UNCHANGED betRow
                   \/ \E r \in Req : \/ UpdateBetOutcome(r) \/ InsertBet(r)
                                     \/ MarkBetAsPaid(r)
  BY DEF Next, Step, vars, store, local, Begin, Reject, Fail, CreatePool,
         CloseReadPool, ClosePool, ResolveReadPool, ResolvePool, NotifyReadPool,
         NotifyPoolResolution, MakeBetReadPool, GetBetByUser, KeepBet, CountBets,
         GetPoolReadPool, GetBetsByPool, ReturnPool, GetIntent,
         IntentSubmitted, IntentRevoked

\* Request r takes a step.
Moves(r) == Step(r) \/ Reject(r) \/ Fail(r) \/ \E c \in Calls : Begin(r, c)

\* Request r takes no step.
Rests(r) ==
    /\ pc'[r] = pc[r] /\ call'[r] = call[r] /\ reply'[r] = reply[r]
    /\ seenPool'[r] = seenPool[r] /\ bets'[r] = bets[r]
    /\ todo'[r] = todo[r] /\ paying'[r] = paying[r]

LEMMA OthersRest ==
    ASSUME TypeOK, NEW s \in Req, NEW r \in Req, r # s, Moves(s)
    PROVE  Rests(r)
  <1> USE DEF Rests, TypeOK, store, local, Goto, Answer
  <1>1. CASE Reject(s) \/ Fail(s)
    BY <1>1 DEF Reject, Fail
  <1>2. CASE \E c \in Calls : Begin(s, c)
    BY <1>2 DEF Begin
  <1>3. CASE CreatePool(s) \/ CloseReadPool(s) \/ ClosePool(s)
    BY <1>3 DEF CreatePool, CloseReadPool, ClosePool, SeePool
  <1>4. CASE ResolveReadPool(s) \/ ResolvePool(s)
    BY <1>4 DEF ResolveReadPool, ResolvePool, SeePool
  <1>5. CASE NotifyReadPool(s) \/ NotifyPoolResolution(s)
    BY <1>5 DEF NotifyReadPool, NotifyPoolResolution, SeePool
  <1>6. CASE MakeBetReadPool(s) \/ GetBetByUser(s)
    BY <1>6 DEF MakeBetReadPool, GetBetByUser, SeePool, SeeBets
  <1>7. CASE KeepBet(s) \/ UpdateBetOutcome(s) \/ CountBets(s) \/ InsertBet(s)
    BY <1>7 DEF KeepBet, UpdateBetOutcome, CountBets, InsertBet
  <1>8. CASE GetPoolReadPool(s) \/ GetBetsByPool(s) \/ ReturnPool(s)
    BY <1>8 DEF GetPoolReadPool, GetBetsByPool, ReturnPool, SeePool, SeeBets
  <1>9. CASE MarkBetAsPaid(s)
    BY <1>9 DEF MarkBetAsPaid
  <1>10. CASE \E b \in Bet : GetIntent(s, b)
    BY <1>10 DEF GetIntent
  <1> QED BY <1>1, <1>2, <1>3, <1>4, <1>5, <1>6, <1>7, <1>8, <1>9, <1>10
             DEF Moves, Step

LEMMA RestOrMove ==
    ASSUME TypeOK, [Next]_vars, NEW r \in Req
    PROVE  Moves(r) \/ Rests(r)
  <1>1. CASE \E s \in Req : Moves(s)
    BY <1>1, OthersRest
  <1>2. CASE \E b \in Bet : IntentSubmitted(b) \/ IntentRevoked(b)
    BY <1>2 DEF IntentSubmitted, IntentRevoked, local, Rests
  <1>3. CASE UNCHANGED vars
    BY <1>3 DEF vars, Rests
  <1> QED BY <1>1, <1>2, <1>3 DEF Next, Moves

\* The changes a step can make to the row of pool p, whose metadata becomes m.
Creates(p, m) ==
    /\ ~Exists(p) /\ ~DestTaken(m.dest)
    /\ m.isOpen /\ m.resolution = "unknown" /\ m.closedAt = None
Closes(p, m) ==
    /\ Exists(p) /\ poolRow[p].meta.isOpen
    /\ \E at \in Time :
          m = [poolRow[p].meta EXCEPT !.isOpen = FALSE, !.closedAt = at]
Resolves(p, m) ==
    /\ Exists(p) /\ Resolvable(poolRow[p])
    /\ \E v \in {"refunded", "yes", "no"} :
          m = [poolRow[p].meta EXCEPT !.resolution = v]

PoolChange ==
    \E p \in Pool, m \in PoolMeta :
        /\ poolRow' = [poolRow EXCEPT ![p] = Signed(m, m)]
        /\ Creates(p, m) \/ Closes(p, m) \/ Resolves(p, m)

LEMMA PoolTableEffect ==
    TypeOK /\ Inv /\ [Next]_vars => UNCHANGED poolRow \/ PoolChange
  <1> SUFFICES ASSUME TypeOK, Inv, [Next]_vars PROVE UNCHANGED poolRow \/ PoolChange
    OBVIOUS
  <1>1. ASSUME NEW r \in Req, CreatePool(r) PROVE UNCHANGED poolRow \/ PoolChange
    <2> DEFINE c == call[r]
               m == [creator |-> c.user, dest |-> c.account, isOpen |-> TRUE,
                     resolution |-> "unknown", closedAt |-> None]
    <2>1. c \in Call /\ c.op = "CreatePool"
      BY <1>1 DEF Inv, RequestInv, Called, CreatePool, At, TypeOK
    <2>2. c.pool \in Pool /\ m \in PoolMeta
      BY <2>1, CallFields DEF PoolMeta, Resolution
    <2>3. m.isOpen /\ m.resolution = "unknown" /\ m.closedAt = None /\ m.dest = c.account
      OBVIOUS
    <2>4. \/ UNCHANGED poolRow
          \/ /\ poolRow' = [poolRow EXCEPT ![c.pool] = Signed(m, m)]
             /\ ~Exists(c.pool) /\ ~DestTaken(c.account)
      BY <1>1 DEF CreatePool
    <2> HIDE DEF m
    <2> QED BY <2>2, <2>3, <2>4 DEF PoolChange, Creates
  <1>2. ASSUME NEW r \in Req, ClosePool(r) PROVE UNCHANGED poolRow \/ PoolChange
    <2> DEFINE c == call[r]
               row == poolRow[c.pool]
               m == [row.meta EXCEPT !.isOpen = FALSE, !.closedAt = c.at]
    <2>1. c \in Call /\ c.op = "ClosePool"
      BY <1>2 DEF Inv, RequestInv, Called, ClosePool, At, TypeOK
    <2>2. c.pool \in Pool /\ c.at \in Time
      BY <2>1, CallFields
    <2>3. Exists(c.pool) /\ (row.meta.isOpen => row.meta = seenPool[r].meta)
      BY <1>2 DEF Inv, RequestInv, CloserIsCurrent, ClosePool, At
    <2>4. row \in PoolRow
      BY <2>2, <2>3 DEF Exists, TypeOK
    <2>5. m \in PoolMeta
      BY <2>2, <2>4, PoolRowFields, PoolMetaUpdates
    <2>6. poolRow' = [poolRow EXCEPT ![c.pool] =
              IF Closable(row)
              THEN Signed(m, [seenPool[r].meta EXCEPT !.isOpen = FALSE, !.closedAt = c.at])
              ELSE row]
      BY <1>2 DEF ClosePool
    <2>7. CASE Closable(row)
      <3>1. poolRow' = [poolRow EXCEPT ![c.pool] = Signed(m, m)]
        BY <2>3, <2>6, <2>7 DEF Closable
      <3>2. Closes(c.pool, m)
        BY <2>2, <2>3, <2>7 DEF Closes, Closable
      <3> QED BY <3>1, <3>2, <2>2, <2>5 DEF PoolChange
    <2>8. CASE ~Closable(row)
      BY <2>2, <2>6, <2>8 DEF TypeOK
    <2> QED BY <2>7, <2>8
  <1>3. ASSUME NEW r \in Req, ResolvePool(r) PROVE UNCHANGED poolRow \/ PoolChange
    <2> DEFINE c == call[r]
               row == poolRow[c.pool]
               m == [row.meta EXCEPT !.resolution = c.choice]
    <2>1. c \in Call /\ c.op = "ResolvePool"
      BY <1>3 DEF Inv, RequestInv, Called, ResolvePool, At, TypeOK
    <2>2. c.pool \in Pool /\ c.choice \in {"refunded", "yes", "no"}
      BY <2>1, CallFields
    <2>3. /\ Exists(c.pool)
          /\ row.meta.resolution = "unknown" => row.meta = seenPool[r].meta
      BY <1>3 DEF Inv, RequestInv, ResolverIsCurrent, ResolvePool, At
    <2>4. row \in PoolRow
      BY <2>2, <2>3 DEF Exists, TypeOK
    <2>5. m \in PoolMeta
      BY <2>2, <2>4, PoolRowFields DEF PoolMeta, Resolution
    <2>6. \/ UNCHANGED poolRow
          \/ /\ Resolvable(row)
             /\ poolRow' = [poolRow EXCEPT ![c.pool] =
                   Signed(m, [seenPool[r].meta EXCEPT !.resolution = c.choice])]
      BY <1>3 DEF ResolvePool
    <2>7. CASE Resolvable(row) /\ ~UNCHANGED poolRow
      <3>1. poolRow' = [poolRow EXCEPT ![c.pool] = Signed(m, m)]
        BY <2>3, <2>6, <2>7 DEF Resolvable
      <3>2. Resolves(c.pool, m)
        BY <2>2, <2>3, <2>7 DEF Resolves
      <3> QED BY <3>1, <3>2, <2>2, <2>5 DEF PoolChange
    <2> QED BY <2>6, <2>7
  <1> QED BY <1>1, <1>2, <1>3, PoolTableStep

\* What the row of a pool may become, as the requests that read it before
\* need to know.
PoolEvolves(p) ==
    Exists(p) =>
        /\ Exists(p)'
        /\ poolRow'[p].meta.creator = poolRow[p].meta.creator
        /\ poolRow'[p].meta.dest = poolRow[p].meta.dest
        /\ \/ poolRow'[p] = poolRow[p]
           \/ /\ poolRow[p].meta.isOpen /\ ~poolRow'[p].meta.isOpen
              /\ poolRow'[p].meta.resolution = poolRow[p].meta.resolution
           \/ /\ Resolvable(poolRow[p]) /\ ~poolRow'[p].meta.isOpen
              /\ poolRow'[p].meta.resolution # "unknown"

LEMMA PoolsEvolve ==
    TypeOK /\ Inv /\ [Next]_vars => \A p \in Pool : PoolEvolves(p)
  <1> SUFFICES ASSUME TypeOK, PoolChange, NEW q \in Pool PROVE PoolEvolves(q)
    BY PoolTableEffect DEF PoolEvolves, Exists
  <1>1. PICK p \in Pool, m \in PoolMeta :
            /\ poolRow' = [poolRow EXCEPT ![p] = Signed(m, m)]
            /\ Creates(p, m) \/ Closes(p, m) \/ Resolves(p, m)
    BY DEF PoolChange
  <1>2. CASE q # p
    BY <1>1, <1>2 DEF PoolEvolves, Exists, TypeOK
  <1>3. CASE q = p /\ Exists(p)
    <2>1. poolRow'[p] = Signed(m, m) /\ poolRow'[p].meta = m /\ poolRow'[p] # None
      BY <1>1, SignedRow, NoneIsNoRow DEF TypeOK
    <2>2. poolRow[p].meta \in PoolMeta
      BY <1>3, PoolRowFields DEF Exists, TypeOK
    <2>3. CASE Closes(p, m)
      BY <2>1, <2>2, <2>3, <1>3 DEF Closes, PoolEvolves, Exists, PoolMeta
    <2>4. CASE Resolves(p, m)
      BY <2>1, <2>2, <2>4, <1>3 DEF Resolves, Resolvable, PoolEvolves, Exists, PoolMeta
    <2> QED BY <1>1, <1>3, <2>3, <2>4 DEF Creates
  <1> QED BY <1>2, <1>3 DEF PoolEvolves

\* The change a step can make to the row of bet b, which becomes row.
BetChange ==
    \E b \in Bet, row \in BetRow :
        /\ betRow' = [betRow EXCEPT ![b] = row]
        /\ \/ betRow[b] = None /\ row.sig = row.meta
           \/ /\ betRow[b] # None
              /\ row.pool = betRow[b].pool
              /\ row.meta.user = betRow[b].meta.user
              /\ row.meta.payTo = betRow[b].meta.payTo
              /\ betRow[b].paid => row.paid
              /\ betRow[b].sig = betRow[b].meta => row.sig = row.meta

LEMMA BetTableEffect ==
    TypeOK /\ Inv /\ [Next]_vars => UNCHANGED betRow \/ BetChange
  <1> SUFFICES ASSUME TypeOK, Inv, [Next]_vars PROVE UNCHANGED betRow \/ BetChange
    OBVIOUS
  <1>1. ASSUME NEW r \in Req, UpdateBetOutcome(r) PROVE BetChange
    <2> DEFINE c == call[r]
               old == betRow[c.bet]
               new == [user |-> c.user, outcome |-> c.choice, payTo |-> c.account]
    <2>1. c \in Call /\ c.op = "MakeBet" /\ pc[r] = "check_paid"
      BY <1>1 DEF UpdateBetOutcome, AllChecked, Inv, RequestInv, Called, TypeOK
    <2>2. c.bet \in Bet /\ new \in BetMeta
      BY <2>1, CallFields DEF BetMeta
    <2>3. /\ bets[r][c.bet] # None
          /\ bets[r][c.bet].meta.user = c.user
          /\ bets[r][c.bet].meta.payTo = c.account
      BY <2>1 DEF Inv, RequestInv, BettorHoldsBet
    <2>4. /\ old # None
          /\ old.meta.user = c.user /\ old.meta.payTo = c.account
      BY <2>2, <2>3 DEF Inv, RequestInv, HeldBetsAreStored
    <2>5. old \in BetRow
      BY <2>2, <2>4 DEF TypeOK
    <2>6. WithOutcome(old, new) \in BetRow
      BY <2>2, <2>5, BetRowUpdates
    <2>7. WithOutcome(old, new).meta = new
      BY <2>2, <2>4, <2>5 DEF WithOutcome, BetRow, BetMeta
    <2>8. betRow' = [betRow EXCEPT ![c.bet] = WithOutcome(old, new)]
      BY <1>1 DEF UpdateBetOutcome
    <2> DEFINE row == WithOutcome(old, new)
    <2>9. /\ row.pool = old.pool /\ row.sig = new /\ row.paid = old.paid
          /\ row.meta.user = old.meta.user /\ row.meta.payTo = old.meta.payTo
      BY <2>2, <2>5, BetRowUpdates
    <2> HIDE DEF row
    <2>10. row.sig = row.meta
      BY <2>7, <2>9 DEF row
    <2> HIDE DEF new
    <2>11. row \in BetRow /\ betRow' = [betRow EXCEPT ![c.bet] = row]
      BY <2>6, <2>8 DEF row
    <2> QED BY <2>2, <2>4, <2>9, <2>10, <2>11 DEF BetChange
  <1>2. ASSUME NEW r \in Req, InsertBet(r) PROVE UNCHANGED betRow \/ BetChange
    <2> DEFINE c == call[r]
               m == [user |-> c.user, outcome |-> c.choice, payTo |-> c.account]
               row == [pool |-> c.pool, meta |-> m, sig |-> m, paid |-> FALSE]
    <2>1. c \in Call /\ c.op = "MakeBet"
      BY <1>2 DEF InsertBet, At, Inv, RequestInv, Called, TypeOK
    <2>2. c.bet \in Bet /\ c.pool \in Pool /\ m \in BetMeta
      BY <2>1, CallFields DEF BetMeta
    <2>3. row \in BetRow /\ row.sig = row.meta
      BY <2>2 DEF BetRow
    <2>4. \/ UNCHANGED betRow
          \/ betRow' = [betRow EXCEPT ![c.bet] = row] /\ betRow[c.bet] = None
      BY <1>2 DEF InsertBet, BetConflict
    <2> HIDE DEF row
    <2> QED BY <2>2, <2>3, <2>4 DEF BetChange
  <1>3. ASSUME NEW r \in Req, MarkBetAsPaid(r) PROVE BetChange
    <2> DEFINE b == paying[r]
               row == [betRow[b] EXCEPT !.paid = TRUE]
    <2>1. b \in Bet /\ betRow[b] # None
      BY <1>3 DEF MarkBetAsPaid, Inv, RequestInv, ChecksAreHeld,
                  HeldBetsAreStored, TypeOK
    <2>2. betRow[b] \in BetRow
      BY <2>1 DEF TypeOK
    <2>3. /\ row \in BetRow /\ row.pool = betRow[b].pool /\ row.paid
          /\ row.meta = betRow[b].meta /\ row.sig = betRow[b].sig
      BY <2>2 DEF BetRow
    <2>4. betRow' = [betRow EXCEPT ![b] = row]
      BY <1>3 DEF MarkBetAsPaid, Marked
    <2> HIDE DEF row
    <2> QED BY <2>1, <2>3, <2>4 DEF BetChange
  <1> QED BY <1>1, <1>2, <1>3, BetTableStep

\* What the row of a bet may become.
BetEvolves(b) ==
    betRow[b] # None =>
        /\ betRow'[b] # None
        /\ betRow'[b].pool = betRow[b].pool
        /\ betRow'[b].meta.user = betRow[b].meta.user
        /\ betRow'[b].meta.payTo = betRow[b].meta.payTo
        /\ betRow[b].paid => betRow'[b].paid

LEMMA BetsEvolve ==
    TypeOK /\ Inv /\ [Next]_vars => \A b \in Bet : BetEvolves(b)
  <1> SUFFICES ASSUME TypeOK, BetChange, NEW a \in Bet PROVE BetEvolves(a)
    BY BetTableEffect DEF BetEvolves
  <1>1. PICK b \in Bet, row \in BetRow :
            /\ betRow' = [betRow EXCEPT ![b] = row]
            /\ \/ betRow[b] = None /\ row.sig = row.meta
               \/ /\ betRow[b] # None
                  /\ row.pool = betRow[b].pool
                  /\ row.meta.user = betRow[b].meta.user
                  /\ row.meta.payTo = betRow[b].meta.payTo
                  /\ betRow[b].paid => row.paid
    BY DEF BetChange
  <1>2. betRow'[a] = IF a = b THEN row ELSE betRow[a]
    BY <1>1 DEF TypeOK
  <1> QED BY <1>1, <1>2, NoneIsNoRow DEF BetEvolves

-----------------------------------------------------------------------------
(* The steps preserve the invariant *)

LEMMA InvInit == Init => Inv
  BY DEF Init, Inv, ResolvedAreClosed, SignaturesMatch, Exists, RequestInv,
         Called, CloserIsCurrent, ResolverIsCurrent, HasPool,
         HeldBetsAreStored, ChecksAreHeld, BettorHoldsBet, NoBets

LEMMA SignaturesStep ==
    TypeOK /\ Inv /\ [Next]_vars => SignaturesMatch'
  <1> SUFFICES ASSUME TypeOK, Inv, [Next]_vars PROVE SignaturesMatch'
    OBVIOUS
  <1>1. ASSUME NEW q \in Pool, Exists(q)' PROVE poolRow'[q].sig = poolRow'[q].meta
    <2>1. CASE UNCHANGED poolRow
      BY <1>1, <2>1 DEF Inv, SignaturesMatch, Exists
    <2>2. CASE PoolChange
      <3>1. PICK p \in Pool, m \in PoolMeta :
                poolRow' = [poolRow EXCEPT ![p] = Signed(m, m)]
        BY <2>2 DEF PoolChange
      <3>2. poolRow'[q] = IF q = p THEN Signed(m, m) ELSE poolRow[q]
        BY <3>1 DEF TypeOK
      <3> QED BY <1>1, <3>2, SignedRow DEF Inv, SignaturesMatch, Exists
    <2> QED BY <2>1, <2>2, PoolTableEffect
  <1>2. ASSUME NEW a \in Bet, betRow'[a] # None PROVE betRow'[a].sig = betRow'[a].meta
    <2>1. CASE UNCHANGED betRow
      BY <1>2, <2>1 DEF Inv, SignaturesMatch
    <2>2. CASE BetChange
      <3>1. PICK b \in Bet, row \in BetRow :
                /\ betRow' = [betRow EXCEPT ![b] = row]
                /\ \/ row.sig = row.meta
                   \/ /\ betRow[b] # None
                      /\ betRow[b].sig = betRow[b].meta => row.sig = row.meta
        BY <2>2 DEF BetChange
      <3>2. betRow'[a] = IF a = b THEN row ELSE betRow[a]
        BY <3>1 DEF TypeOK
      <3> QED BY <1>2, <3>1, <3>2 DEF Inv, SignaturesMatch
    <2> QED BY <2>1, <2>2, BetTableEffect
  <1> QED BY <1>1, <1>2 DEF SignaturesMatch, Exists

LEMMA ResolvedAreClosedStep ==
    TypeOK /\ Inv /\ [Next]_vars => ResolvedAreClosed'
  <1> SUFFICES ASSUME TypeOK, Inv, [Next]_vars, NEW q \in Pool,
                      Exists(q)', poolRow'[q].meta.isOpen
               PROVE  poolRow'[q].meta.resolution = "unknown"
    BY DEF ResolvedAreClosed, Exists
  <1>1. CASE UNCHANGED poolRow
    BY <1>1 DEF Inv, ResolvedAreClosed, Exists
  <1>2. CASE PoolChange
    <2>1. PICK p \in Pool, m \in PoolMeta :
              /\ poolRow' = [poolRow EXCEPT ![p] = Signed(m, m)]
              /\ Creates(p, m) \/ Closes(p, m) \/ Resolves(p, m)
      BY <1>2 DEF PoolChange
    <2>2. poolRow'[q] = IF q = p THEN Signed(m, m) ELSE poolRow[q]
      BY <2>1 DEF TypeOK
    <2>3. CASE q # p
      BY <2>2, <2>3 DEF Inv, ResolvedAreClosed, Exists
    <2>4. CASE q = p
      <3>1. m.isOpen
        BY <2>2, <2>4, SignedRow
      <3>2. Exists(p) => poolRow[p].meta \in PoolMeta
        BY PoolRowFields DEF Exists, TypeOK
      <3>3. ~Closes(p, m) /\ ~Resolves(p, m)
        BY <3>1, <3>2 DEF Closes, Resolves, Resolvable, PoolMeta
      <3> QED BY <2>1, <2>2, <2>4, <3>3, SignedRow DEF Creates
    <2> QED BY <2>3, <2>4
  <1> QED BY <1>1, <1>2, PoolTableEffect

\* A request that rests keeps its part of the invariant.
LEMMA RestingStep ==
    ASSUME TypeOK, Inv, [Next]_vars, NEW r \in Req, Rests(r)
    PROVE  RequestInv(r)'
  <1>1. Called(r) /\ ChecksAreHeld(r) /\ BettorHoldsBet(r)
    BY DEF Inv, RequestInv
  <1>2. Called(r)' /\ ChecksAreHeld(r)' /\ BettorHoldsBet(r)'
    BY <1>1 DEF Rests, Called, ChecksAreHeld, BettorHoldsBet
  <1>3. pc[r] # "idle" => call[r].pool \in Pool
    BY CallFields DEF Inv, RequestInv, Called, TypeOK
  <1> DEFINE p == call[r].pool
  <1>4. CloserIsCurrent(r)'
    <2> SUFFICES ASSUME pc[r] = "close"
                 PROVE  /\ Exists(p)' /\ seenPool[r] # None
                        /\ poolRow'[p].meta.isOpen =>
                              poolRow'[p].meta = seenPool[r].meta
      BY DEF Rests, CloserIsCurrent, Exists
    <2>1. /\ Exists(p) /\ seenPool[r] # None
          /\ poolRow[p].meta.isOpen => poolRow[p].meta = seenPool[r].meta
      BY DEF Inv, RequestInv, CloserIsCurrent
    <2>2. PoolEvolves(p)
      BY <1>3, PoolsEvolve
    <2> QED BY <2>1, <2>2 DEF PoolEvolves
  <1>5. ResolverIsCurrent(r)'
    <2> SUFFICES ASSUME pc[r] = "resolve"
                 PROVE  /\ Exists(p)' /\ seenPool[r] # None
                        /\ ~seenPool[r].meta.isOpen
                        /\ poolRow'[p].meta.resolution = "unknown" =>
                              poolRow'[p].meta = seenPool[r].meta
      BY DEF Rests, ResolverIsCurrent, Exists
    <2>1. /\ Exists(p) /\ seenPool[r] # None
          /\ ~seenPool[r].meta.isOpen
          /\ poolRow[p].meta.resolution = "unknown" =>
                poolRow[p].meta = seenPool[r].meta
      BY DEF Inv, RequestInv, ResolverIsCurrent
    <2>2. PoolEvolves(p)
      BY <1>3, PoolsEvolve
    <2>3. poolRow[p].meta.isOpen => poolRow[p].meta.resolution = "unknown"
      BY <1>3, <2>1 DEF Inv, ResolvedAreClosed
    <2> QED BY <2>1, <2>2, <2>3 DEF PoolEvolves
  <1>6. HasPool(r)'
    BY <1>3, PoolsEvolve
       DEF Inv, RequestInv, HasPool, PoolEvolves, Rests, Exists
  <1>7. HeldBetsAreStored(r)'
    BY BetsEvolve DEF Inv, RequestInv, HeldBetsAreStored, BetEvolves, Rests
  <1> QED BY <1>2, <1>4, <1>5, <1>6, <1>7 DEF RequestInv

LEMMA HeldBetsStep ==
    ASSUME TypeOK, Inv, [Next]_vars, NEW r \in Req,
           call'[r] = call[r], bets'[r] = bets[r]
    PROVE  HeldBetsAreStored(r)'
  BY BetsEvolve DEF Inv, RequestInv, HeldBetsAreStored, BetEvolves

\* A step that leaves the bets in hand alone and goes where nothing is
\* required of what was read.
LEMMA PlainStep ==
    ASSUME TypeOK, Inv, [Next]_vars, NEW r \in Req,
           pc[r] \notin {"idle", "done"},
           pc'[r] \notin {"idle", "close", "resolve", "notify", "read_bet",
                          "read_bets", "check_paid"},
           call'[r] = call[r], bets'[r] = bets[r],
           todo'[r] = todo[r], paying'[r] = paying[r],
           pc[r] = "check_paid" => pc'[r] = "done" \/ paying[r] = None
    PROVE  RequestInv(r)'
  <1>1. HeldBetsAreStored(r)'
    BY HeldBetsStep
  <1>2. ChecksAreHeld(r)' /\ Called(r)'
    BY DEF Inv, RequestInv, ChecksAreHeld, Called
  <1> QED BY <1>1, <1>2 DEF RequestInv, CloserIsCurrent, ResolverIsCurrent,
                            HasPool, BettorHoldsBet

\* A step that reads the row of its pool, which exists.
LEMMA ReadPoolStep ==
    ASSUME TypeOK, Inv, [Next]_vars, NEW r \in Req,
           pc[r] \notin {"idle", "check_paid", "done"},
           Exists(call[r].pool), UNCHANGED poolRow,
           pc'[r] \in {"close", "resolve", "read_bet", "read_bets"},
           pc'[r] = "read_bets" => call[r].op # "MakeBet",
           pc'[r] = "resolve" => ~poolRow[call[r].pool].meta.isOpen,
           seenPool'[r] = poolRow[call[r].pool],
           call'[r] = call[r], bets'[r] = bets[r],
           todo'[r] = todo[r], paying'[r] = paying[r]
    PROVE  RequestInv(r)'
  <1>1. HeldBetsAreStored(r)'
    BY HeldBetsStep
  <1>2. ChecksAreHeld(r)' /\ Called(r)'
    BY DEF Inv, RequestInv, ChecksAreHeld, Called
  <1>3. CloserIsCurrent(r)' /\ ResolverIsCurrent(r)' /\ HasPool(r)'
    BY DEF CloserIsCurrent, ResolverIsCurrent, HasPool, Exists
  <1> QED BY <1>1, <1>2, <1>3 DEF RequestInv, BettorHoldsBet

LEMMA PoolRequestsStep ==
    ASSUME TypeOK, Inv, [Next]_vars, NEW r \in Req,
           \/ CreatePool(r) \/ CloseReadPool(r) \/ ClosePool(r)
           \/ ResolveReadPool(r) \/ ResolvePool(r)
           \/ NotifyReadPool(r) \/ NotifyPoolResolution(r)
    PROVE  RequestInv(r)'
  <1> USE DEF TypeOK, store, local, Goto, Answer, At
  <1>1. CASE CreatePool(r)
    BY <1>1, PlainStep DEF CreatePool
  <1>2. CASE CloseReadPool(r)
    <2>1. CASE pc'[r] = "done"
      BY <1>2, <2>1, PlainStep DEF CloseReadPool
    <2>2. CASE pc'[r] # "done"
      BY <1>2, <2>2, ReadPoolStep DEF CloseReadPool, SeePool
    <2> QED BY <2>1, <2>2
  <1>3. CASE ClosePool(r)
    BY <1>3, PlainStep DEF ClosePool
  <1>4. CASE ResolveReadPool(r)
    <2>1. CASE pc'[r] = "done"
      BY <1>4, <2>1, PlainStep DEF ResolveReadPool
    <2>2. CASE pc'[r] # "done"
      BY <1>4, <2>2, ReadPoolStep DEF ResolveReadPool, SeePool
    <2> QED BY <2>1, <2>2
  <1>5. CASE ResolvePool(r)
    <2>1. CASE pc'[r] = "done"
      BY <1>5, <2>1, PlainStep DEF ResolvePool
    <2>2. CASE pc'[r] # "done"
      <3>1. pc[r] = "resolve" /\ pc'[r] = "notify" /\ UNCHANGED local
        BY <1>5, <2>2 DEF ResolvePool
      <3>2. Exists(call[r].pool) /\ call[r].pool \in Pool
        BY <3>1, CallFields DEF Inv, RequestInv, ResolverIsCurrent, Called
      <3>3. Exists(call[r].pool)' /\ HeldBetsAreStored(r)'
        BY <3>1, <3>2, PoolsEvolve, HeldBetsStep DEF PoolEvolves, Exists
      <3>4. ChecksAreHeld(r)' /\ Called(r)'
        BY <3>1 DEF Inv, RequestInv, ChecksAreHeld, Called
      <3> QED BY <3>1, <3>3, <3>4 DEF RequestInv, CloserIsCurrent,
                  ResolverIsCurrent, HasPool, BettorHoldsBet, Exists
    <2> QED BY <2>1, <2>2
  <1>6. CASE NotifyReadPool(r)
    <2>1. Exists(call[r].pool)
      BY <1>6 DEF NotifyReadPool, Inv, RequestInv, HasPool
    <2> QED BY <1>6, <2>1, ReadPoolStep DEF NotifyReadPool, SeePool
  <1>7. CASE NotifyPoolResolution(r)
    BY <1>7, PlainStep DEF NotifyPoolResolution, AllChecked
  <1> QED BY <1>1, <1>2, <1>3, <1>4, <1>5, <1>6, <1>7

\* A step that reads bets of the pool, with the rows as they are stored.
LEMMA SeeBetsStep ==
    ASSUME TypeOK, Inv, [Next]_vars, NEW r \in Req, pc[r] # "idle",
           NEW B \in SUBSET BetsOf(call[r].pool), SeeBets(r, B),
           UNCHANGED betRow, pc'[r] = "check_paid",
           call'[r] = call[r], paying'[r] = None,
           seenPool'[r] = seenPool[r], seenPool[r] # None,
           call[r].op = "MakeBet" =>
               /\ call[r].bet \in B
               /\ betRow[call[r].bet].meta.user = call[r].user
               /\ betRow[call[r].bet].meta.payTo = call[r].account
    PROVE  RequestInv(r)'
  <1>1. \A b \in B : b \in Bet /\ betRow[b] # None /\ betRow[b].pool = call[r].pool
    BY DEF BetsOf
  <1>2. /\ \A b \in Bet : bets'[r][b] = IF b \in B THEN betRow[b] ELSE None
        /\ todo'[r] = {b \in B : ~betRow[b].paid}
    BY DEF SeeBets, TypeOK
  <1>3. HeldBetsAreStored(r)'
    BY <1>1, <1>2 DEF HeldBetsAreStored
  <1>4. ChecksAreHeld(r)' /\ BettorHoldsBet(r)'
    BY <1>1, <1>2 DEF ChecksAreHeld, BettorHoldsBet
  <1>5. Called(r)' /\ HasPool(r)'
    BY DEF Inv, RequestInv, Called, HasPool
  <1> QED BY <1>3, <1>4, <1>5 DEF RequestInv, CloserIsCurrent, ResolverIsCurrent

LEMMA BetRequestsStep ==
    ASSUME TypeOK, Inv, [Next]_vars, NEW r \in Req,
           \/ MakeBetReadPool(r) \/ GetBetByUser(r) \/ KeepBet(r)
           \/ UpdateBetOutcome(r) \/ CountBets(r) \/ InsertBet(r)
           \/ GetPoolReadPool(r) \/ GetBetsByPool(r) \/ ReturnPool(r)
    PROVE  RequestInv(r)'
  <1> USE DEF TypeOK, store, local, Goto, Answer, At
  <1>1. CASE MakeBetReadPool(r)
    <2>1. CASE pc'[r] = "done"
      BY <1>1, <2>1, PlainStep DEF MakeBetReadPool
    <2>2. CASE pc'[r] # "done"
      BY <1>1, <2>2, ReadPoolStep DEF MakeBetReadPool, SeePool
    <2> QED BY <2>1, <2>2
  <1>2. CASE GetBetByUser(r)
    <2> DEFINE c == call[r]
               mine == BetsBy(c.pool, c.user)
    <2>1. CASE ~SeeBets(r, mine)
      BY <1>2, <2>1, PlainStep DEF GetBetByUser
    <2>2. CASE SeeBets(r, mine) /\ pc'[r] # "check_paid"
      BY <1>2, <2>2, PlainStep DEF GetBetByUser
    <2>3. CASE SeeBets(r, mine) /\ pc'[r] = "check_paid"
      <3>1. /\ pc[r] = "read_bet" /\ mine # {}
            /\ \A b \in mine : SameBet(b, c)
            /\ UNCHANGED <<betRow, call, seenPool, paying>>
        BY <1>2, <2>3 DEF GetBetByUser
      <3>2. c.bet \in mine /\ betRow[c.bet].meta.payTo = c.account
        BY <3>1 DEF SameBet
      <3>3. mine \in SUBSET BetsOf(c.pool) /\ betRow[c.bet].meta.user = c.user
        BY <3>2 DEF BetsBy
      <3>4. seenPool[r] # None /\ paying[r] = None
        BY <1>2, <3>1 DEF Inv, RequestInv, HasPool, ChecksAreHeld
      <3> HIDE DEF mine
      <3> QED BY <2>3, <3>1, <3>2, <3>3, <3>4, SeeBetsStep
    <2> QED BY <2>1, <2>2, <2>3
  <1>3. CASE KeepBet(r) \/ UpdateBetOutcome(r)
    BY <1>3, PlainStep DEF KeepBet, UpdateBetOutcome, AllChecked
  <1>4. CASE CountBets(r) \/ InsertBet(r)
    BY <1>4, PlainStep DEF CountBets, InsertBet
  <1>5. CASE GetPoolReadPool(r)
    <2>1. CASE pc'[r] = "done"
      BY <1>5, <2>1, PlainStep DEF GetPoolReadPool
    <2>2. CASE pc'[r] # "done"
      BY <1>5, <2>2, ReadPoolStep DEF GetPoolReadPool, SeePool
    <2> QED BY <2>1, <2>2
  <1>6. CASE GetBetsByPool(r)
    <2>1. pc[r] = "read_bets" /\ pc'[r] = "check_paid"
          /\ SeeBets(r, BetsOf(call[r].pool))
          /\ UNCHANGED <<betRow, call, seenPool, paying>>
      BY <1>6 DEF GetBetsByPool
    <2>2. seenPool[r] # None /\ paying[r] = None
      BY <2>1 DEF Inv, RequestInv, HasPool, ChecksAreHeld
    <2>3. call[r].op # "MakeBet"
      BY <2>1 DEF Inv, RequestInv, HasPool
    <2> QED BY <2>1, <2>2, <2>3, SeeBetsStep
  <1>7. CASE ReturnPool(r)
    BY <1>7, PlainStep DEF ReturnPool, AllChecked
  <1> QED BY <1>1, <1>2, <1>3, <1>4, <1>5, <1>6, <1>7

LEMMA PaymentStep ==
    ASSUME TypeOK, Inv, [Next]_vars, NEW r \in Req,
           MarkBetAsPaid(r) \/ \E b \in Bet : GetIntent(r, b)
    PROVE  RequestInv(r)'
  <1>1. CASE MarkBetAsPaid(r)
    <2> DEFINE a == paying[r]
    <2>1. /\ pc[r] = "check_paid" /\ pc' = pc /\ call' = call
          /\ seenPool' = seenPool /\ paying'[r] = None
          /\ todo'[r] = todo[r] \ {a}
          /\ betRow' = [betRow EXCEPT ![a].paid = TRUE]
          /\ bets' = [bets EXCEPT ![r][a].paid = TRUE]
      BY <1>1 DEF MarkBetAsPaid, Marked, TypeOK
    <2>2. a \in Bet /\ bets[r][a] # None /\ betRow[a] # None
      BY <1>1 DEF MarkBetAsPaid, Inv, RequestInv, ChecksAreHeld,
                  HeldBetsAreStored, TypeOK
    <2>3. bets[r][a] \in BetRow /\ betRow[a] \in BetRow
      BY <2>2 DEF TypeOK
    <2>4. /\ bets'[r][a] # None
          /\ bets'[r][a].pool = bets[r][a].pool
          /\ bets'[r][a].meta = bets[r][a].meta
      <3>1. bets'[r][a] = [bets[r][a] EXCEPT !.paid = TRUE]
        BY <2>1, <2>2 DEF TypeOK
      <3>2. [bets[r][a] EXCEPT !.paid = TRUE] \in BetRow
        BY <2>3 DEF BetRow
      <3> QED BY <2>3, <3>1, <3>2, NoneIsNoRow DEF BetRow
    <2>5. betRow'[a].paid
      BY <2>1, <2>2, <2>3 DEF BetRow, TypeOK
    <2>6. \A b \in Bet : b # a => bets'[r][b] = bets[r][b]
      BY <2>1, <2>2 DEF TypeOK
    <2>7. HeldBetsAreStored(r)'
      <3> SUFFICES ASSUME NEW b \in Bet, bets'[r][b] # None
                   PROVE  /\ betRow'[b] # None
                          /\ bets'[r][b].pool = call[r].pool
                          /\ betRow'[b].pool = call[r].pool
                          /\ bets'[r][b].meta.user = betRow'[b].meta.user
                          /\ bets'[r][b].meta.payTo = betRow'[b].meta.payTo
                          /\ bets'[r][b].paid => betRow'[b].paid
        BY <2>1 DEF HeldBetsAreStored
      <3>1. BetEvolves(b)
        BY BetsEvolve
      <3>2. b # a => bets'[r][b] = bets[r][b] /\ bets[r][b] # None
        BY <2>6
      <3>3. b = a => bets[r][b] # None
        BY <2>2
      <3>4. /\ betRow[b] # None
            /\ bets[r][b].pool = call[r].pool /\ betRow[b].pool = call[r].pool
            /\ bets[r][b].meta.user = betRow[b].meta.user
            /\ bets[r][b].meta.payTo = betRow[b].meta.payTo
            /\ bets[r][b].paid => betRow[b].paid
        BY <3>2, <3>3 DEF Inv, RequestInv, HeldBetsAreStored
      <3> QED BY <3>1, <3>2, <3>4, <2>4, <2>5 DEF BetEvolves
    <2>8. ChecksAreHeld(r)' /\ BettorHoldsBet(r)'
      <3>1. \A b \in todo'[r] : bets'[r][b] # None
        BY <2>1, <2>6 DEF Inv, RequestInv, ChecksAreHeld, TypeOK
      <3>2. \A b \in Bet : bets[r][b] # None =>
                /\ bets'[r][b] # None /\ bets'[r][b].meta = bets[r][b].meta
        BY <2>4, <2>6
      <3>3. call[r].op = "MakeBet" => call[r].bet \in Bet
        BY <2>1, CallFields DEF Inv, RequestInv, Called, TypeOK
      <3>4. BettorHoldsBet(r)
        BY DEF Inv, RequestInv
      <3>5. BettorHoldsBet(r)'
        BY <2>1, <3>2, <3>3, <3>4 DEF BettorHoldsBet
      <3> QED BY <2>1, <3>1, <3>5 DEF ChecksAreHeld
    <2> QED BY <2>1, <2>7, <2>8 DEF RequestInv, Called, HasPool, Inv,
                CloserIsCurrent, ResolverIsCurrent
  <1>2. ASSUME NEW b \in Bet, GetIntent(r, b) PROVE RequestInv(r)'
    <2>1. /\ pc[r] = "check_paid" /\ b \in todo[r] /\ paying[r] = None
          /\ UNCHANGED <<pc, call, seenPool, bets>>
          /\ \/ paying'[r] = b /\ todo'[r] = todo[r]
             \/ todo'[r] = todo[r] \ {b} /\ paying'[r] = None
      BY <1>2 DEF GetIntent, TypeOK
    <2>2. HeldBetsAreStored(r)'
      BY <2>1, HeldBetsStep
    <2>3. ChecksAreHeld(r)'
      BY <2>1 DEF Inv, RequestInv, ChecksAreHeld
    <2>4. BettorHoldsBet(r)'
      BY <2>1 DEF Inv, RequestInv, BettorHoldsBet
    <2> QED BY <2>1, <2>2, <2>3, <2>4
               DEF Inv, RequestInv, Called, HasPool, CloserIsCurrent,
                   ResolverIsCurrent
  <1> QED BY <1>1, <1>2

LEMMA InvStep == TypeOK /\ Inv /\ [Next]_vars => Inv'
  <1> SUFFICES ASSUME TypeOK, Inv, [Next]_vars PROVE Inv'
    OBVIOUS
  <1>1. ASSUME NEW r \in Req PROVE RequestInv(r)'
    <2>1. CASE Rests(r)
      BY <2>1, RestingStep
    <2>2. CASE Reject(r) \/ Fail(r)
      BY <2>2, PlainStep DEF Reject, Fail, Answer, Goto, local, TypeOK
    <2>3. ASSUME NEW c \in Calls, Begin(r, c) PROVE RequestInv(r)'
      <3>1. /\ pc[r] = "idle" /\ pc'[r] \in {"create", "read_pool"}
            /\ call'[r] # None
            /\ bets'[r] = bets[r] /\ todo'[r] = todo[r] /\ paying'[r] = paying[r]
        BY <2>3, CallsAssumption, NoneIsNoRow
           DEF Begin, FirstStep, Goto, TypeOK
      <3>2. bets[r] = NoBets /\ todo[r] = {} /\ paying[r] = None
        BY <3>1 DEF Inv, RequestInv, Called
      <3> QED BY <3>1, <3>2 DEF RequestInv, Called, CloserIsCurrent,
                  ResolverIsCurrent, HasPool, HeldBetsAreStored,
                  ChecksAreHeld, BettorHoldsBet, NoBets
    <2>4. CASE Step(r)
      BY <2>4, PoolRequestsStep, BetRequestsStep, PaymentStep DEF Step
    <2> QED BY <2>1, <2>2, <2>3, <2>4, RestOrMove DEF Moves
  <1> QED BY <1>1, SignaturesStep, ResolvedAreClosedStep DEF Inv

-----------------------------------------------------------------------------
(* Theorems *)

THEOREM Invariance == Spec => [](TypeOK /\ Inv)
  <1>1. Init => TypeOK /\ Inv
    BY TypeInit, InvInit
  <1>2. TypeOK /\ Inv /\ [Next]_vars => (TypeOK /\ Inv)'
    BY TypeStep, InvStep
  <1> QED BY <1>1, <1>2, PTL DEF Spec

\* Every row, request and event is of the type the code declares for it.
THEOREM TypeCorrectness == Spec => []TypeOK
  BY Invariance, PTL

\* However closings, resolutions and changes of a bet interleave, the stored
\* signature is the one over the stored metadata.
THEOREM SignaturesAlwaysMatch == Spec => []SignaturesMatch
  <1>1. Inv => SignaturesMatch
    BY DEF Inv
  <1> QED BY <1>1, Invariance, PTL

\* No summary counts a bet that is not marked as paid.
THEOREM CountedBetsAreStored == Spec => []CountsAreStored
  <1>1. Inv => CountsAreStored
    BY DEF Inv, RequestInv, HeldBetsAreStored, CountsAreStored, Counted
  <1> QED BY <1>1, Invariance, PTL

LEMMA VotesStep ==
    ASSUME TypeOK, Inv, [Next]_vars, NEW r \in Req, NEW s \in Req,
           pc[r] = "read_bets", pc'[r] = "check_paid",
           call[s] # None, call[s].pool = call[r].pool
    PROVE  Counted(s) \subseteq Counted(r)'
  <1>1. GetBetsByPool(r)
    <2>1. Moves(r)
      BY RestOrMove DEF Rests
    <2> QED BY <2>1
        DEF Moves, Step, Reject, Fail, Begin, CreatePool, CloseReadPool,
            ClosePool, ResolveReadPool, ResolvePool, NotifyReadPool,
            NotifyPoolResolution, MakeBetReadPool, GetBetByUser, KeepBet,
            UpdateBetOutcome, CountBets, InsertBet, GetPoolReadPool, ReturnPool,
            MarkBetAsPaid, GetIntent, AllChecked, At, Answer, Goto, TypeOK
  <1>2. \A b \in BetsOf(call[r].pool) : bets'[r][b] = betRow[b]
    BY <1>1 DEF GetBetsByPool, SeeBets, BetsOf, TypeOK
  <1>3. ASSUME NEW b \in Counted(s) PROVE b \in Counted(r)'
    <2>1. b \in Bet /\ bets[s][b] # None /\ bets[s][b].paid
      BY DEF Counted
    <2>2. betRow[b] # None /\ betRow[b].pool = call[r].pool /\ betRow[b].paid
      BY <2>1 DEF Inv, RequestInv, HeldBetsAreStored
    <2>3. bets'[r][b] = betRow[b]
      BY <1>2, <2>1, <2>2 DEF BetsOf
    <2> QED BY <2>1, <2>2, <2>3 DEF Counted
  <1> QED BY <1>3

\* A summary that starts counts every bet that an earlier one counted.
THEOREM VotesAreNeverForgotten == Spec => NoVoteForgotten
  <1>1. TypeOK /\ Inv /\ [Next]_vars =>
            [\A r, s \in Req :
                /\ pc[r] = "read_bets" /\ pc'[r] = "check_paid"
                /\ call[s] # None /\ call[s].pool = call[r].pool
                => Counted(s) \subseteq Counted(r)']_vars
    BY VotesStep
  <1> QED BY <1>1, Invariance, PTL DEF Spec, NoVoteForgotten

-----------------------------------------------------------------------------
(* The answers that were given *)

LEMMA AnswerKept ==
    ASSUME TypeOK, Inv, [Next]_vars, NEW r \in Req, call[r] # None,
           AnswerHolds(r), call'[r] = call[r], reply'[r] = reply[r]
    PROVE  AnswerHolds(r)'
  <1> DEFINE c == call[r]
  <1>1. c \in Call
    BY DEF TypeOK
  <1>2. PoolEvolves(c.pool)
    BY <1>1, CallFields, PoolsEvolve
  <1>3. c.op = "MakeBet" => BetEvolves(c.bet)
    BY <1>1, CallFields, BetsEvolve
  <1>4. Exists(c.pool) /\ ~poolRow[c.pool].meta.isOpen =>
            Exists(c.pool)' /\ ~poolRow'[c.pool].meta.isOpen
    BY <1>2 DEF PoolEvolves
  <1>5. Exists(c.pool) /\ poolRow[c.pool].meta.resolution # "unknown" =>
            poolRow'[c.pool].meta.resolution = poolRow[c.pool].meta.resolution
    BY <1>2 DEF PoolEvolves, Resolvable
  <1>6. c.op = "ResolvePool" => c.choice # "unknown"
    BY <1>1, CallFields
  <1> QED BY <1>2, <1>3, <1>4, <1>5, <1>6
             DEF AnswerHolds, PoolEvolves, BetEvolves, Exists

\* Answers that claim nothing about the tables.
LEMMA PlainAnswer ==
    ASSUME NEW r \in Req,
           \/ reply'[r] \notin {"OK", "DIFFERENT_OUTCOME_DECLARED",
                                "BET_OUTCOME_SOLIDIFIED"}
           \/ call'[r].op = "GetPool"
    PROVE  AnswerHolds(r)'
  BY DEF AnswerHolds

LEMMA AnswerGiven ==
    ASSUME TypeOK, Inv, [Next]_vars, NEW r \in Req, Step(r),
           reply'[r] # reply[r]
    PROVE  AnswerHolds(r)'
  <1> USE DEF store, local, Answer, Goto, At
  <1> DEFINE c == call[r]
  <1>0. reply \in [Req -> Replies] /\ pc \in [Req -> Steps]
    BY DEF TypeOK
  <1>1. c \in Call /\ c.pool \in Pool /\ call'[r] = c
    <2>1. pc[r] # "idle" /\ call' = call
      BY DEF Step, CreatePool, CloseReadPool, ClosePool, ResolveReadPool,
             ResolvePool, NotifyReadPool, NotifyPoolResolution,
             MakeBetReadPool, GetBetByUser, KeepBet, UpdateBetOutcome,
             CountBets, InsertBet, GetPoolReadPool, GetBetsByPool, ReturnPool,
             MarkBetAsPaid, GetIntent, AllChecked
    <2> QED BY <2>1, CallFields DEF Inv, RequestInv, Called, TypeOK
  <1>2. CASE CreatePool(r)
    <2>1. CASE reply'[r] # "OK"
      BY <1>0, <1>2, <2>1, PlainAnswer DEF CreatePool
    <2>2. CASE reply'[r] = "OK"
      <3> DEFINE m == [creator |-> c.user, dest |-> c.account, isOpen |-> TRUE,
                       resolution |-> "unknown", closedAt |-> None]
      <3>1. c.op = "CreatePool" /\ poolRow' = [poolRow EXCEPT ![c.pool] = Signed(m, m)]
        BY <1>0, <1>2, <2>2 DEF CreatePool
      <3>2. m \in PoolMeta /\ m.creator = c.user /\ m.dest = c.account
        BY <1>1, <3>1, CallFields DEF PoolMeta, Resolution
      <3>3. poolRow'[c.pool] = Signed(m, m)
        BY <1>1, <3>1 DEF TypeOK
      <3> HIDE DEF m
      <3>4. poolRow'[c.pool] # None /\ poolRow'[c.pool].meta = m
        BY <3>2, <3>3, SignedRow, NoneIsNoRow
      <3> QED BY <1>1, <3>1, <3>2, <3>4 DEF AnswerHolds, Exists
    <2> QED BY <2>1, <2>2
  <1>3. CASE CloseReadPool(r)
    BY <1>0, <1>1, <1>3, PlainAnswer DEF CloseReadPool, AnswerHolds, Exists
  <1>4. CASE ClosePool(r)
    <2>1. c.op = "ClosePool" /\ Exists(c.pool)
      BY <1>4 DEF ClosePool, Inv, RequestInv, CloserIsCurrent
    <2>2. PoolEvolves(c.pool)
      BY <1>1, PoolsEvolve
    <2>3. ~Closable(poolRow[c.pool]) => ~poolRow[c.pool].meta.isOpen
      BY <1>1, <2>1 DEF Closable, Inv, ResolvedAreClosed
    <2>4. Closable(poolRow[c.pool]) => ~poolRow'[c.pool].meta.isOpen
      <3> SUFFICES ASSUME Closable(poolRow[c.pool])
                   PROVE  ~poolRow'[c.pool].meta.isOpen
        OBVIOUS
      <3>1. poolRow[c.pool] \in PoolRow
        BY <1>1, <2>1 DEF Exists, TypeOK
      <3>2. poolRow'[c.pool] =
              Signed([poolRow[c.pool].meta EXCEPT !.isOpen = FALSE, !.closedAt = c.at],
                     [seenPool[r].meta EXCEPT !.isOpen = FALSE, !.closedAt = c.at])
        BY <1>1, <1>4 DEF ClosePool, TypeOK
      <3>3. poolRow[c.pool].meta \in PoolMeta
        BY <3>1, PoolRowFields
      <3>4. poolRow'[c.pool].meta =
              [poolRow[c.pool].meta EXCEPT !.isOpen = FALSE, !.closedAt = c.at]
        BY <3>2 DEF Signed
      <3>5. poolRow'[c.pool].meta.isOpen = FALSE
        BY <3>3, <3>4 DEF PoolMeta
      <3> QED BY <3>5
    <2>5. Exists(c.pool)' /\ ~poolRow'[c.pool].meta.isOpen
      BY <2>1, <2>2, <2>3, <2>4 DEF PoolEvolves
    <2> QED BY <1>1, <2>1, <2>5 DEF AnswerHolds, Exists
  <1>5. CASE ResolveReadPool(r)
    BY <1>0, <1>1, <1>5, PlainAnswer DEF ResolveReadPool, AnswerHolds, Exists
  <1>6. CASE ResolvePool(r)
    <2>1. CASE reply'[r] # "OK"
      BY <1>0, <1>6, <2>1, PlainAnswer DEF ResolvePool
    <2>2. CASE reply'[r] = "OK"
      <3>1. c.op = "ResolvePool" /\ Exists(c.pool) /\ poolRow[c.pool] \in PoolRow
        BY <1>1, <1>6 DEF ResolvePool, Inv, RequestInv, ResolverIsCurrent,
                          Exists, TypeOK
      <3>2. poolRow' = [poolRow EXCEPT ![c.pool] =
                Signed([poolRow[c.pool].meta EXCEPT !.resolution = c.choice],
                       [seenPool[r].meta EXCEPT !.resolution = c.choice])]
        BY <1>0, <1>6, <2>2 DEF ResolvePool
      <3>3. poolRow'[c.pool].meta = [poolRow[c.pool].meta EXCEPT !.resolution = c.choice]
        BY <1>1, <3>2 DEF Signed, TypeOK
      <3>4. poolRow[c.pool].meta \in PoolMeta
        BY <3>1, PoolRowFields
      <3>5. poolRow'[c.pool].meta.resolution = c.choice
        BY <3>3, <3>4 DEF PoolMeta
      <3>6. Exists(c.pool)'
        BY <1>1, <3>1, PoolsEvolve DEF PoolEvolves
      <3> QED BY <1>1, <3>1, <3>5, <3>6, <2>2 DEF AnswerHolds, Exists
    <2> QED BY <2>1, <2>2
  <1>7. CASE GetPoolReadPool(r) \/ ReturnPool(r)
    BY <1>0, <1>1, <1>7, PlainAnswer DEF GetPoolReadPool, ReturnPool
  <1>8. CASE MakeBetReadPool(r) \/ GetBetByUser(r) \/ CountBets(r)
    BY <1>0, <1>8, PlainAnswer DEF MakeBetReadPool, GetBetByUser, CountBets
  <1>9. CASE KeepBet(r)
    <2>1. c.op = "MakeBet" /\ c.bet \in Bet /\ UNCHANGED <<betRow, bets>>
      BY <1>1, <1>9, CallFields DEF KeepBet
    <2>2. /\ bets[r][c.bet] # None
          /\ bets[r][c.bet].meta.user = c.user
          /\ bets[r][c.bet].meta.payTo = c.account
      BY <1>9, <2>1 DEF KeepBet, AllChecked, Inv, RequestInv, BettorHoldsBet
    <2>3. /\ betRow[c.bet] # None
          /\ betRow[c.bet].pool = c.pool
          /\ betRow[c.bet].meta.user = c.user
          /\ betRow[c.bet].meta.payTo = c.account
          /\ bets[r][c.bet].paid => betRow[c.bet].paid
      BY <2>1, <2>2 DEF Inv, RequestInv, HeldBetsAreStored
    <2>4. reply'[r] = "BET_OUTCOME_SOLIDIFIED" => bets[r][c.bet].paid
      BY <1>0, <1>9 DEF KeepBet
    <2> QED BY <1>1, <2>1, <2>3, <2>4 DEF AnswerHolds
  <1>10. CASE InsertBet(r)
    <2>1. CASE reply'[r] # "OK"
      BY <1>0, <1>10, <2>1, PlainAnswer DEF InsertBet
    <2>2. CASE reply'[r] = "OK"
      <3> DEFINE m == [user |-> c.user, outcome |-> c.choice, payTo |-> c.account]
                 row == [pool |-> c.pool, meta |-> m, sig |-> m, paid |-> FALSE]
      <3>1. c.op = "MakeBet" /\ betRow' = [betRow EXCEPT ![c.bet] = row]
        BY <1>0, <1>10, <2>2 DEF InsertBet
      <3>2. c.bet \in Bet /\ m \in BetMeta
        BY <1>1, <3>1, CallFields DEF BetMeta
      <3>3. row \in BetRow
        BY <1>1, <3>2 DEF BetRow
      <3>4. betRow'[c.bet] = row
        BY <3>1, <3>2 DEF TypeOK
      <3>5. row # None
        BY <3>3, NoneIsNoRow
      <3>6. row.pool = c.pool /\ row.meta.user = c.user /\ row.meta.payTo = c.account
        OBVIOUS
      <3> HIDE DEF row
      <3> QED BY <1>1, <2>2, <3>1, <3>4, <3>5, <3>6 DEF AnswerHolds
    <2> QED BY <2>1, <2>2
  <1>11. reply' = reply \/ \/ CreatePool(r) \/ CloseReadPool(r) \/ ClosePool(r)
                           \/ ResolveReadPool(r) \/ ResolvePool(r)
                           \/ GetPoolReadPool(r) \/ ReturnPool(r)
                           \/ MakeBetReadPool(r) \/ GetBetByUser(r)
                           \/ CountBets(r) \/ KeepBet(r) \/ InsertBet(r)
    BY DEF Step, NotifyReadPool, NotifyPoolResolution, UpdateBetOutcome,
           GetBetsByPool, MarkBetAsPaid, GetIntent
  <1> QED BY <1>2, <1>3, <1>4, <1>5, <1>6, <1>7, <1>8, <1>9, <1>10, <1>11

LEMMA AnswersStep ==
    TypeOK /\ Inv /\ AnswersStand /\ [Next]_vars => AnswersStand'
  <1> SUFFICES ASSUME TypeOK, Inv, AnswersStand, [Next]_vars,
                      NEW r \in Req, call'[r] # None
               PROVE  AnswerHolds(r)'
    BY DEF AnswersStand
  <1>1. CASE call[r] # None /\ call'[r] = call[r] /\ reply'[r] = reply[r]
    BY <1>1, AnswerKept DEF AnswersStand
  <1>2. CASE Rests(r)
    BY <1>1, <1>2 DEF Rests
  <1>3. CASE Step(r)
    <2>1. call' = call
      BY <1>3 DEF Step, local, CreatePool, CloseReadPool, ClosePool,
           ResolveReadPool, ResolvePool, NotifyReadPool, NotifyPoolResolution,
           MakeBetReadPool, GetBetByUser, KeepBet, UpdateBetOutcome, CountBets,
           InsertBet, GetPoolReadPool, GetBetsByPool, ReturnPool, MarkBetAsPaid,
           GetIntent
    <2> QED BY <1>1, <1>3, <2>1, AnswerGiven
  <1>4. CASE Reject(r)
    BY <1>4, PlainAnswer DEF Reject, Answer, TypeOK
  <1>5. CASE Fail(r)
    <2>1. call' = call /\ (reply'[r] = reply[r] \/ reply'[r] = "unavailable")
      BY <1>5 DEF Fail, local, TypeOK
    <2> QED BY <1>1, <2>1, PlainAnswer
  <1>6. CASE \E c \in Calls : Begin(r, c)
    <2>1. reply'[r] = "none"
      BY <1>6 DEF Begin, Inv, RequestInv, Called
    <2> QED BY <2>1, PlainAnswer
  <1> QED BY <1>2, <1>3, <1>4, <1>5, <1>6, RestOrMove DEF Moves

\* What a request was told of the tables remains true of them for ever.
THEOREM AnswersAlwaysStand == Spec => []AnswersStand
  <1>1. Init => AnswersStand
    BY DEF Init, AnswersStand
  <1> QED BY <1>1, AnswersStep, Invariance, PTL DEF Spec

-----------------------------------------------------------------------------
(* The refinement of PoolLifecycle *)

LEMMA LifecycleInit == Init => Lifecycle!Init
  BY DEF Init, Lifecycle!Init, StageOf, TermsOf, ClosedAtOf

\* The state of PoolLifecycle.
LifeStage == [q \in Pool |-> StageOf(poolRow[q])]
LifeTerms == [q \in Pool |-> TermsOf(poolRow[q])]
LifeClosedAt == [q \in Pool |-> ClosedAtOf(poolRow[q])]

\* What a change of the row of p does to it.
LEMMA LifecycleView ==
    ASSUME TypeOK, NEW p \in Pool, NEW m \in PoolMeta,
           poolRow' = [poolRow EXCEPT ![p] = Signed(m, m)]
    PROVE  /\ LifeStage' = [LifeStage EXCEPT ![p] =
                      IF m.isOpen THEN "open"
                      ELSE IF m.resolution = "unknown" THEN "closed"
                      ELSE m.resolution]
           /\ LifeTerms' = [LifeTerms EXCEPT ![p] =
                      [creator |-> m.creator, dest |-> m.dest]]
           /\ LifeClosedAt' = [LifeClosedAt EXCEPT ![p] = m.closedAt]
  <1> DEFINE row == Signed(m, m)
  <1>1. row # None /\ row.meta = m
    BY SignedRow, NoneIsNoRow
  <1>2. \A q \in Pool : poolRow'[q] = IF q = p THEN row ELSE poolRow[q]
    BY DEF TypeOK
  <1> HIDE DEF row
  <1>3. \A q \in Pool : q # p =>
            /\ LifeStage'[q] = LifeStage[q]
            /\ LifeTerms'[q] = LifeTerms[q]
            /\ LifeClosedAt'[q] = LifeClosedAt[q]
    BY <1>2 DEF LifeStage, LifeTerms, LifeClosedAt, StageOf, TermsOf, ClosedAtOf
  <1>4. /\ LifeStage'[p] = IF m.isOpen THEN "open"
                           ELSE IF m.resolution = "unknown" THEN "closed"
                           ELSE m.resolution
        /\ LifeTerms'[p] = [creator |-> m.creator, dest |-> m.dest]
        /\ LifeClosedAt'[p] = m.closedAt
    BY <1>1, <1>2 DEF LifeStage, LifeTerms, LifeClosedAt, StageOf, TermsOf, ClosedAtOf
  <1>5. \A f, g, x : /\ f = [q \in Pool |-> f[q]] /\ g = [q \in Pool |-> g[q]]
                     /\ g[p] = x /\ \A q \in Pool : q # p => g[q] = f[q]
                     => g = [f EXCEPT ![p] = x]
    OBVIOUS
  <1>6. /\ LifeStage = [q \in Pool |-> LifeStage[q]]
        /\ LifeTerms = [q \in Pool |-> LifeTerms[q]]
        /\ LifeClosedAt = [q \in Pool |-> LifeClosedAt[q]]
    BY DEF LifeStage, LifeTerms, LifeClosedAt
  <1>7. /\ LifeStage' = [q \in Pool |-> LifeStage'[q]]
        /\ LifeTerms' = [q \in Pool |-> LifeTerms'[q]]
        /\ LifeClosedAt' = [q \in Pool |-> LifeClosedAt'[q]]
    BY DEF LifeStage, LifeTerms, LifeClosedAt
  <1> QED BY <1>3, <1>4, <1>5, <1>6, <1>7

\* The actions of PoolLifecycle over that state.
LEMMA LifecycleActions ==
    ASSUME NEW p \in Pool
    PROVE  /\ \A t \in Lifecycle!Terms : Lifecycle!Create(p, t) <=>
                /\ LifeStage[p] = "absent"
                /\ \A q \in Pool : LifeTerms[q] # None => LifeTerms[q].dest # t.dest
                /\ LifeStage' = [LifeStage EXCEPT ![p] = "open"]
                /\ LifeTerms' = [LifeTerms EXCEPT ![p] = t]
                /\ LifeClosedAt' = LifeClosedAt
           /\ \A at \in Time : Lifecycle!Close(p, at) <=>
                /\ LifeStage[p] = "open"
                /\ LifeStage' = [LifeStage EXCEPT ![p] = "closed"]
                /\ LifeClosedAt' = [LifeClosedAt EXCEPT ![p] = at]
                /\ LifeTerms' = LifeTerms
           /\ \A v : Lifecycle!Resolve(p, v) <=>
                /\ LifeStage[p] = "closed"
                /\ LifeStage' = [LifeStage EXCEPT ![p] = v]
                /\ LifeTerms' = LifeTerms /\ LifeClosedAt' = LifeClosedAt
  BY Zenon DEF Lifecycle!Create, Lifecycle!Close, Lifecycle!Resolve,
               LifeStage, LifeTerms, LifeClosedAt

LEMMA LifecycleStep ==
    TypeOK /\ Inv /\ [Next]_vars => [Lifecycle!Next]_(Lifecycle!vars)
  <1> SUFFICES ASSUME TypeOK, Inv, [Next]_vars
               PROVE  Lifecycle!Next \/ UNCHANGED Lifecycle!vars
    OBVIOUS
  <1>1. CASE UNCHANGED poolRow
    BY <1>1 DEF Lifecycle!vars
  <1>2. ASSUME NEW p \in Pool, NEW m \in PoolMeta,
               poolRow' = [poolRow EXCEPT ![p] = Signed(m, m)],
               Creates(p, m) \/ Closes(p, m) \/ Resolves(p, m)
        PROVE  Lifecycle!Next
    <2> DEFINE t == [creator |-> m.creator, dest |-> m.dest]
    <2>1. m.creator \in User /\ m.dest \in Account /\ t \in Lifecycle!Terms
      BY PoolMetaFields DEF Lifecycle!Terms
    <2>2. Exists(p) => poolRow[p].meta \in PoolMeta
      BY PoolRowFields DEF Exists, TypeOK
    <2>3. CASE Creates(p, m)
      <3>1. \A q \in Pool : TermsOf(poolRow[q]) # None =>
                                TermsOf(poolRow[q]).dest # t.dest
        BY <2>3 DEF Creates, DestTaken, Exists, TermsOf
      <3>2. StageOf(poolRow[p]) = "absent" /\ ClosedAtOf(poolRow[p]) = m.closedAt
        BY <2>3 DEF Creates, Exists, StageOf, ClosedAtOf
      <3>3. Lifecycle!Create(p, t)
        <4>1. /\ LifeStage[p] = "absent" /\ LifeClosedAt[p] = m.closedAt
              /\ \A q \in Pool : LifeTerms[q] # None => LifeTerms[q].dest # t.dest
          BY <3>1, <3>2 DEF LifeStage, LifeTerms, LifeClosedAt
        <4>2. /\ LifeStage' = [LifeStage EXCEPT ![p] = "open"]
              /\ LifeTerms' = [LifeTerms EXCEPT ![p] = t]
              /\ LifeClosedAt' = [LifeClosedAt EXCEPT ![p] = m.closedAt]
          BY <1>2, <2>3, LifecycleView DEF Creates
        <4>3. LifeClosedAt' = LifeClosedAt
          BY <4>1, <4>2 DEF LifeClosedAt
        <4> QED BY <2>1, <4>1, <4>2, <4>3, LifecycleActions
      <3> QED BY <2>1, <3>3 DEF Lifecycle!Next
    <2>4. CASE Closes(p, m)
      <3>1. PICK at \in Time :
                m = [poolRow[p].meta EXCEPT !.isOpen = FALSE, !.closedAt = at]
        BY <2>4 DEF Closes
      <3>2. /\ m.isOpen = FALSE /\ m.closedAt = at
            /\ m.resolution = poolRow[p].meta.resolution
            /\ m.creator = poolRow[p].meta.creator
            /\ m.dest = poolRow[p].meta.dest
        BY <2>2, <2>4, <3>1 DEF Closes, PoolMeta
      <3>3. m.resolution = "unknown"
        BY <2>4, <3>2 DEF Closes, Inv, ResolvedAreClosed
      <3>4. StageOf(poolRow[p]) = "open" /\ TermsOf(poolRow[p]) = t
        BY <2>4, <3>2 DEF Closes, Exists, StageOf, TermsOf
      <3>5. Lifecycle!Close(p, at)
        <4>1. LifeStage[p] = "open" /\ LifeTerms[p] = t
          BY <3>4 DEF LifeStage, LifeTerms
        <4>2. /\ LifeStage' = [LifeStage EXCEPT ![p] = "closed"]
              /\ LifeTerms' = [LifeTerms EXCEPT ![p] = t]
              /\ LifeClosedAt' = [LifeClosedAt EXCEPT ![p] = at]
          BY <1>2, <3>2, <3>3, LifecycleView
        <4>3. LifeTerms' = LifeTerms
          BY <4>1, <4>2 DEF LifeTerms
        <4> QED BY <4>1, <4>2, <4>3, LifecycleActions
      <3> QED BY <3>5 DEF Lifecycle!Next
    <2>5. CASE Resolves(p, m)
      <3>1. PICK v \in {"refunded", "yes", "no"} :
                m = [poolRow[p].meta EXCEPT !.resolution = v]
        BY <2>5 DEF Resolves
      <3>2. /\ m.resolution = v
            /\ m.isOpen = poolRow[p].meta.isOpen
            /\ m.closedAt = poolRow[p].meta.closedAt
            /\ m.creator = poolRow[p].meta.creator
            /\ m.dest = poolRow[p].meta.dest
        BY <2>2, <2>5, <3>1 DEF Resolves, PoolMeta
      <3>3. StageOf(poolRow[p]) = "closed" /\ TermsOf(poolRow[p]) = t
            /\ ClosedAtOf(poolRow[p]) = m.closedAt /\ ~m.isOpen
        BY <2>5, <3>2 DEF Resolves, Resolvable, Exists, StageOf, TermsOf, ClosedAtOf
      <3>4. Lifecycle!Resolve(p, v)
        <4>1. LifeStage[p] = "closed" /\ LifeTerms[p] = t
              /\ LifeClosedAt[p] = m.closedAt
          BY <3>3 DEF LifeStage, LifeTerms, LifeClosedAt
        <4>2. /\ LifeStage' = [LifeStage EXCEPT ![p] = v]
              /\ LifeTerms' = [LifeTerms EXCEPT ![p] = t]
              /\ LifeClosedAt' = [LifeClosedAt EXCEPT ![p] = m.closedAt]
          <5>1. v # "unknown"
            OBVIOUS
          <5> QED BY <1>2, <3>2, <3>3, <5>1, LifecycleView
        <4>3. LifeTerms' = LifeTerms /\ LifeClosedAt' = LifeClosedAt
          BY <4>1, <4>2 DEF LifeTerms, LifeClosedAt
        <4> QED BY <4>1, <4>2, <4>3, LifecycleActions
      <3> QED BY <3>4 DEF Lifecycle!Next, Lifecycle!Verdict
    <2> QED BY <1>2, <2>3, <2>4, <2>5
  <1> QED BY <1>1, <1>2, PoolTableEffect DEF PoolChange

\* Whatever the requests, to each pool only that happens which PoolLifecycle
\* allows: it is created, closed and resolved at most once, in this order.
THEOREM Refinement == Spec => ImplementsLifecycle
  BY LifecycleInit, LifecycleStep, Invariance, PTL
     DEF Spec, ImplementsLifecycle, Lifecycle!Spec
=============================================================================
