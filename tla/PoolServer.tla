----------------------------- MODULE PoolServer -----------------------------
(***************************************************************************)
(* The pool service: the RPC handlers of pool/server.go and the            *)
(* notification of pool/event.go, run concurrently over the tables of      *)
(* pool/postgres.  Every handler is a sequence of steps, one per statement *)
(* it sends to the database or to the Code payment system; between two     *)
(* steps any other request may run.  A step that only computes is part of  *)
(* the step that read what it computes on.                                 *)
(*                                                                         *)
(* A signature is modelled by the metadata it was made over.  Requests     *)
(* come from registered users for themselves: a request the handler turns  *)
(* away on its contents (registration, timestamps, signatures, ownership   *)
(* of an account) is a Reject step.                                        *)
(***************************************************************************)
EXTENDS Naturals, FiniteSets

CONSTANTS
    Pool,               \* pool ids
    User,               \* user ids
    Bet,                \* bet ids; also the ids of their payment intents
    Account,            \* token accounts: funding and payout destinations
    Time,               \* closing times that clients supply
    Req,                \* request executions, each serving one call
    Calls,              \* the calls a client may make
    MaxParticipants,    \* bets a pool accepts
    None                \* the absent value

Resolution == {"unknown", "refunded", "yes", "no"}
Outcome == {"yes", "no"}

\* The signed part of a pool and of a bet, and the rows that store them.
PoolMeta == [creator: User, dest: Account, isOpen: BOOLEAN,
             resolution: Resolution, closedAt: Time \cup {None}]
PoolRow == [meta: PoolMeta, sig: PoolMeta]

BetMeta == [user: User, outcome: Outcome, payTo: Account]
BetRow == [pool: Pool, meta: BetMeta, sig: BetMeta, paid: BOOLEAN]

\* The calls of the service; fields that a call does not use are fixed.
CreateCall == [op: {"CreatePool"}, user: User, pool: Pool, bet: {None},
               choice: {"unknown"}, account: Account, at: {None}]
CloseCall == [op: {"ClosePool"}, user: User, pool: Pool, bet: {None},
              choice: {"unknown"}, account: {None}, at: Time]
ResolveCall == [op: {"ResolvePool"}, user: User, pool: Pool, bet: {None},
                choice: {"refunded", "yes", "no"}, account: {None}, at: {None}]
BetCall == [op: {"MakeBet"}, user: User, pool: Pool, bet: Bet,
            choice: Outcome, account: Account, at: {None}]
GetCall == [op: {"GetPool"}, user: User, pool: Pool, bet: {None},
            choice: {"unknown"}, account: {None}, at: {None}]
Call == CreateCall \cup CloseCall \cup ResolveCall \cup BetCall \cup GetCall

ASSUME CallsAssumption == Calls \subseteq Call
ASSUME MaxAssumption == MaxParticipants \in Nat
\* Bet ids are public keys, of a fixed length.
ASSUME BetAssumption == IsFiniteSet(Bet)
ASSUME NoneAssumption ==
    /\ None \notin PoolRow /\ None \notin BetRow /\ None \notin Call
    /\ None \notin Bet /\ None \notin Time

VARIABLES
    poolRow,    \* the pools table, by pool id
    betRow,     \* the bets table, by bet id
    member,     \* the pool members table: pairs <<pool, user>>
    intent,     \* external: the payment intent with a bet's id
    pc,         \* pc[r]: the next step of request r
    call,       \* call[r]: what r was asked
    seenPool,   \* seenPool[r]: the pool row r read last
    bets,       \* bets[r]: the bet rows r read, by bet id
    todo,       \* todo[r]: those of them whose payment r has still to check
    paying,     \* paying[r]: the bet r found an intent for and is about to mark
    reply,      \* reply[r]: the answer of r
    told        \* the PoolResolved events handed to the event bus

store == <<poolRow, betRow, member>>
local == <<call, seenPool, bets, todo, paying>>
vars == <<poolRow, betRow, member, intent, pc, call, seenPool, bets, todo,
          paying, reply, told>>

Steps == {"idle", "create", "read_pool", "close", "resolve", "notify",
          "read_bet", "read_bets", "check_paid", "count_bets", "insert_bet",
          "done"}
Replies == {"none", "OK", "NOT_FOUND", "DENIED", "POOL_OPEN", "POOL_CLOSED",
            "DIFFERENT_OUTCOME_DECLARED", "RENDEZVOUS_EXISTS",
            "FUNDING_DESTINATION_EXISTS", "MULTIPLE_BETS",
            "BET_OUTCOME_SOLIDIFIED", "MAX_BETS_RECEIVED", "rejected",
            "internal", "unavailable"}
Told == [by: Req, pool: Pool, user: User, result: {"win", "lose", "refund"},
         resolution: Resolution, yes: Nat, no: Nat]

NoBets == [b \in Bet |-> None]

-----------------------------------------------------------------------------
(* The store: pool/postgres/model.go *)

\* Mutants, for the runs: each is a plausible slip in the definition whose
\* name it extends.
ClosableEvenClosed(row) == row.meta.resolution = "unknown"
ResolvableEvenResolved(row) == ~row.meta.isOpen
AcceptsBetsUntilResolved(row) == row.meta.resolution = "unknown"

\* dbClosePool updates the row WHERE "isOpen" = TRUE AND "resolution" = 0.
Closable(row) == row.meta.isOpen /\ row.meta.resolution = "unknown"

\* dbResolvePool updates the row WHERE "isOpen" = FALSE AND "resolution" = 0.
Resolvable(row) == ~row.meta.isOpen /\ row.meta.resolution = "unknown"

\* MakeBet takes bets for open pools.
AcceptsBets(row) == row.meta.isOpen

\* dbUpdateBetOutcome sets the outcome and the signature, and dbMarkBetAsPaid
\* the flag, of one row.
WithOutcomeReset(row, new) == [row EXCEPT !.meta = new, !.sig = new, !.paid = FALSE]
WithOutcome(row, new) == [row EXCEPT !.meta.outcome = new.outcome, !.sig = new]

MarkedInMemory(rows, b) == rows
Marked(rows, b) == [rows EXCEPT ![b].paid = TRUE]

Exists(p) == poolRow[p] # None
BetsOf(p) == {b \in Bet : betRow[b] # None /\ betRow[b].pool = p}
BetsBy(p, u) == {b \in BetsOf(p) : betRow[b].meta.user = u}

\* The unique keys of the bets table: the id, and the pool with the user.
BetConflictById(c) == betRow[c.bet] # None
BetConflictByUser(c) == BetsBy(c.pool, c.user) # {}
BetConflict(c) == betRow[c.bet] # None \/ BetsBy(c.pool, c.user) # {}

\* The other key a CreatePool can violate, "fundingDestination".
DestTakenWhileOpen(dest) ==
    \E q \in Pool : Exists(q) /\ poolRow[q].meta.dest = dest
                                /\ poolRow[q].meta.isOpen
DestTaken(dest) == \E q \in Pool : Exists(q) /\ poolRow[q].meta.dest = dest
-----------------------------------------------------------------------------
(* Requests *)

Goto(r, step) == pc' = [pc EXCEPT ![r] = step]
Answer(r, a) == /\ Goto(r, "done")
                /\ reply' = [reply EXCEPT ![r] = a]
At(r, op, step) == pc[r] = step /\ call[r].op = op

FirstStep(c) == IF c.op = "CreatePool" THEN "create" ELSE "read_pool"

Begin(r, c) ==
    /\ pc[r] = "idle"
    /\ call' = [call EXCEPT ![r] = c]
    /\ Goto(r, FirstStep(c))
    /\ UNCHANGED <<store, intent, seenPool, bets, todo, paying, reply, told>>

\* The handler refuses the contents of the request.
Reject(r) ==
    /\ pc[r] \in {"create", "read_pool", "close", "resolve", "count_bets"}
    /\ Answer(r, "rejected")
    /\ UNCHANGED <<store, intent, local, told>>

\* A statement fails, the caller's context ends, or the process dies: the
\* handler, or the notification a ResolvePool left behind, goes no further.
Fail(r) ==
    /\ pc[r] \notin {"idle", "done"}
    /\ Goto(r, "done")
    /\ reply' = [reply EXCEPT ![r] = IF @ = "none" THEN "unavailable" ELSE @]
    /\ UNCHANGED <<store, intent, local, told>>

\* The pool row as the handler read it is what the rest of it works on.
SeePool(r) == seenPool' = [seenPool EXCEPT ![r] = poolRow[call[r].pool]]

\* The row of a pool and the signature over what the caller signed.
Signed(meta, sig) == [meta |-> meta, sig |-> sig]
-----------------------------------------------------------------------------
(* CreatePool: one transaction inserts the pool and its first member *)

CreatePool(r) ==
    LET c == call[r]
        m == [creator |-> c.user, dest |-> c.account, isOpen |-> TRUE,
              resolution |-> "unknown", closedAt |-> None]
    IN  /\ At(r, "CreatePool", "create")
        /\ \/ /\ Exists(c.pool)
              /\ Answer(r, "RENDEZVOUS_EXISTS")
              /\ UNCHANGED <<poolRow, member>>
           \/ /\ ~Exists(c.pool) /\ DestTaken(c.account)
              /\ Answer(r, "FUNDING_DESTINATION_EXISTS")
              /\ UNCHANGED <<poolRow, member>>
           \/ /\ ~Exists(c.pool) /\ ~DestTaken(c.account)
              /\ poolRow' = [poolRow EXCEPT ![c.pool] = Signed(m, m)]
              /\ member' = member \cup {<<c.pool, c.user>>}
              /\ Answer(r, "OK")
        /\ UNCHANGED <<betRow, intent, local, told>>
-----------------------------------------------------------------------------
(* ClosePool: read and check, then the guarded UPDATE *)

CloseReadPool(r) ==
    LET c == call[r]
        row == poolRow[c.pool]
    IN  /\ At(r, "ClosePool", "read_pool")
        /\ \/ ~Exists(c.pool) /\ Answer(r, "NOT_FOUND") /\ UNCHANGED seenPool
           \/ /\ Exists(c.pool) /\ row.meta.creator # c.user
              /\ Answer(r, "DENIED") /\ UNCHANGED seenPool
           \/ /\ Exists(c.pool) /\ row.meta.creator = c.user
              /\ ~row.meta.isOpen
              /\ Answer(r, "OK") /\ UNCHANGED seenPool
           \/ /\ Exists(c.pool) /\ row.meta.creator = c.user
              /\ row.meta.isOpen
              /\ SeePool(r) /\ Goto(r, "close") /\ UNCHANGED reply
        /\ UNCHANGED <<store, intent, call, bets, todo, paying, told>>

ClosePool(r) ==
    LET c == call[r]
        row == poolRow[c.pool]
        Closed(meta) == [meta EXCEPT !.isOpen = FALSE, !.closedAt = c.at]
    IN  /\ At(r, "ClosePool", "close")
        /\ poolRow' = [poolRow EXCEPT ![c.pool] =
                IF Closable(row)
                THEN Signed(Closed(row.meta), Closed(seenPool[r].meta))
                ELSE row]
        /\ Answer(r, "OK")
        /\ UNCHANGED <<betRow, member, intent, local, told>>
-----------------------------------------------------------------------------
(* ResolvePool: read and check, the guarded UPDATE, then the notification *)

ResolveReadPool(r) ==
    LET c == call[r]
        row == poolRow[c.pool]
        verdict == row.meta.resolution
    IN  /\ At(r, "ResolvePool", "read_pool")
        /\ \/ ~Exists(c.pool) /\ Answer(r, "NOT_FOUND") /\ UNCHANGED seenPool
           \/ /\ Exists(c.pool) /\ row.meta.creator # c.user
              /\ Answer(r, "DENIED") /\ UNCHANGED seenPool
           \/ /\ Exists(c.pool) /\ row.meta.creator = c.user
              /\ \/ /\ row.meta.isOpen
                    /\ Answer(r, "POOL_OPEN") /\ UNCHANGED seenPool
                 \/ /\ ~row.meta.isOpen /\ verdict # "unknown"
                    /\ Answer(r, IF verdict = c.choice THEN "OK"
                                 ELSE "DIFFERENT_OUTCOME_DECLARED")
                    /\ UNCHANGED seenPool
                 \/ /\ ~row.meta.isOpen /\ verdict = "unknown"
                    /\ SeePool(r) /\ Goto(r, "resolve") /\ UNCHANGED reply
        /\ UNCHANGED <<store, intent, call, bets, todo, paying, told>>

ResolvePool(r) ==
    LET c == call[r]
        row == poolRow[c.pool]
        Resolved(meta) == [meta EXCEPT !.resolution = c.choice]
    IN  /\ At(r, "ResolvePool", "resolve")
        /\ \/ /\ Resolvable(row)
              /\ poolRow' = [poolRow EXCEPT ![c.pool] =
                    Signed(Resolved(row.meta), Resolved(seenPool[r].meta))]
              /\ Goto(r, "notify")
              /\ reply' = [reply EXCEPT ![r] = "OK"]
           \/ /\ ~Resolvable(row)       \* ErrPoolOpen or ErrPoolResolved
              /\ Answer(r, "internal")
              /\ UNCHANGED poolRow
        /\ UNCHANGED <<betRow, member, intent, local, told>>

\* notifyPoolResolution reads the pool again, then its bets.
NotifyReadPool(r) ==
    /\ At(r, "ResolvePool", "notify")
    /\ SeePool(r)
    /\ Goto(r, "read_bets")
    /\ UNCHANGED <<store, intent, call, bets, todo, paying, reply, told>>

-----------------------------------------------------------------------------
(* Bet.IsPaid, which trusts the row's flag and else asks the Code system   *)
(* for the bet's intent and, if it pays the buy-in, marks the row.         *)

\* The rows r keeps from a read of the bets in B, and the checks they need.
SeeBets(r, B) ==
    /\ bets' = [bets EXCEPT ![r] = [b \in Bet |->
                                    IF b \in B THEN betRow[b] ELSE None]]
    /\ todo' = [todo EXCEPT ![r] = {b \in B : ~betRow[b].paid}]

Counted(r) == {b \in Bet : bets[r][b] # None /\ bets[r][b].paid}

AllChecked(r) == pc[r] = "check_paid" /\ todo[r] = {} /\ paying[r] = None

GetIntent(r, b) ==
    /\ pc[r] = "check_paid" /\ b \in todo[r] /\ paying[r] = None
    /\ IF intent[b] = "match"
       THEN paying' = [paying EXCEPT ![r] = b] /\ UNCHANGED todo
       ELSE todo' = [todo EXCEPT ![r] = @ \ {b}] /\ UNCHANGED paying
    /\ UNCHANGED <<store, intent, pc, call, seenPool, bets, reply, told>>

\* UPDATE ... SET "isIntentSubmitted" = TRUE WHERE "id" = b, and the flag of
\* the copy in hand.
MarkBetAsPaid(r) ==
    LET b == paying[r]
    IN  /\ pc[r] = "check_paid" /\ b # None
        /\ betRow' = Marked(betRow, b)
        /\ bets' = [bets EXCEPT ![r][b].paid = TRUE]
        /\ todo' = [todo EXCEPT ![r] = @ \ {b}]
        /\ paying' = [paying EXCEPT ![r] = None]
        /\ UNCHANGED <<poolRow, member, intent, pc, call, seenPool, reply, told>>

(* The Code payment system, external.  "match" is an intent that pays the  *)
(* buy-in of the bet's pool into its funding destination; any other intent *)
(* is as good as none.                                                     *)
IntentSubmitted(b) ==
    /\ intent[b] = "none"
    /\ intent' = [intent EXCEPT ![b] = "match"]
    /\ UNCHANGED <<store, pc, local, reply, told>>

IntentRevoked(b) ==
    /\ intent[b] = "match"
    /\ intent' = [intent EXCEPT ![b] = "revoked"]
    /\ UNCHANGED <<store, pc, local, reply, told>>
-----------------------------------------------------------------------------
(* MakeBet: pool, own bet and its payment are read, then the bet changes   *)

MakeBetReadPool(r) ==
    LET c == call[r]
    IN  /\ At(r, "MakeBet", "read_pool")
        /\ \/ /\ ~Exists(c.pool)        \* the switch has no case for it
              /\ Answer(r, "internal") /\ UNCHANGED seenPool
           \/ /\ Exists(c.pool) /\ ~AcceptsBets(poolRow[c.pool])
              /\ Answer(r, "POOL_CLOSED") /\ UNCHANGED seenPool
           \/ /\ Exists(c.pool) /\ AcceptsBets(poolRow[c.pool])
              /\ SeePool(r) /\ Goto(r, "read_bet") /\ UNCHANGED reply
        /\ UNCHANGED <<store, intent, call, bets, todo, paying, told>>

\* The same bet, to be paid out to the same account.
SameBetAnyPayout(b, c) == b = c.bet
SameBet(b, c) == b = c.bet /\ betRow[b].meta.payTo = c.account

GetBetByUser(r) ==
    LET c == call[r]
        mine == BetsBy(c.pool, c.user)
    IN  /\ At(r, "MakeBet", "read_bet")
        /\ \/ /\ mine = {}
              /\ Goto(r, "count_bets") /\ UNCHANGED <<bets, todo, reply>>
           \/ /\ \E b \in mine : ~SameBet(b, c)
              /\ Answer(r, "MULTIPLE_BETS") /\ UNCHANGED <<bets, todo>>
           \/ /\ mine # {} /\ \A b \in mine : SameBet(b, c)
              /\ SeeBets(r, mine)
              /\ Goto(r, "check_paid") /\ UNCHANGED reply
        /\ UNCHANGED <<store, intent, call, seenPool, paying, told>>

\* A paid bet is final and an unchanged one is left alone.
KeepBet(r) ==
    LET c == call[r]
        mine == bets[r][c.bet]
    IN  /\ AllChecked(r) /\ call[r].op = "MakeBet"
        /\ \/ mine.paid /\ Answer(r, "BET_OUTCOME_SOLIDIFIED")
           \/ /\ ~mine.paid /\ mine.meta.outcome = c.choice
              /\ Answer(r, "OK")
        /\ UNCHANGED <<store, intent, local, told>>

\* The outcome and the signature change; the handler then goes on to insert
\* the same bet.
UpdateBetOutcome(r) ==
    LET c == call[r]
        mine == bets[r][c.bet]
        new == [user |-> c.user, outcome |-> c.choice, payTo |-> c.account]
    IN  /\ AllChecked(r) /\ call[r].op = "MakeBet"
        /\ ~mine.paid /\ mine.meta.outcome # c.choice
        /\ betRow' = [betRow EXCEPT ![c.bet] = WithOutcome(@, new)]
        /\ Goto(r, "count_bets")
        /\ UNCHANGED <<poolRow, member, intent, local, reply, told>>

\* The INSERT counts the committed bets of the pool when it starts ...
CountBets(r) ==
    /\ At(r, "MakeBet", "count_bets")
    /\ IF Cardinality(BetsOf(call[r].pool)) < MaxParticipants
       THEN Goto(r, "insert_bet") /\ UNCHANGED reply
       ELSE Answer(r, "MAX_BETS_RECEIVED")
    /\ UNCHANGED <<store, intent, local, told>>

\* ... and its transaction commits later, with the row of the member, unless
\* a unique key is taken by then.
InsertBet(r) ==
    LET c == call[r]
        m == [user |-> c.user, outcome |-> c.choice, payTo |-> c.account]
    IN  /\ At(r, "MakeBet", "insert_bet")
        /\ \/ /\ BetConflict(c)         \* ErrBetExists
              /\ Answer(r, "internal")
              /\ UNCHANGED <<betRow, member>>
           \/ /\ ~BetConflict(c)
              /\ betRow' = [betRow EXCEPT ![c.bet] =
                    [pool |-> c.pool, meta |-> m, sig |-> m, paid |-> FALSE]]
              /\ member' = member \cup {<<c.pool, c.user>>}
              /\ Answer(r, "OK")
        /\ UNCHANGED <<poolRow, intent, local, told>>
-----------------------------------------------------------------------------
(* GetBetSummary, for GetPool and for the notification of a resolution     *)

GetPoolReadPool(r) ==
    /\ At(r, "GetPool", "read_pool")
    /\ \/ /\ ~Exists(call[r].pool)
          /\ Answer(r, "NOT_FOUND") /\ UNCHANGED seenPool
       \/ /\ Exists(call[r].pool)
          /\ SeePool(r) /\ Goto(r, "read_bets") /\ UNCHANGED reply
    /\ UNCHANGED <<store, intent, call, bets, todo, paying, told>>

GetBetsByPool(r) ==
    /\ pc[r] = "read_bets"
    /\ SeeBets(r, BetsOf(call[r].pool))
    /\ Goto(r, "check_paid")
    /\ UNCHANGED <<store, intent, call, seenPool, paying, reply, told>>

ReturnPool(r) ==
    /\ AllChecked(r) /\ call[r].op = "GetPool"
    /\ Answer(r, "OK")
    /\ UNCHANGED <<store, intent, local, told>>

Votes(r, o) == Cardinality({b \in Counted(r) : bets[r][b].meta.outcome = o})

\* getUserSummaryWithCachedBetMetadata: how a counted bet on outcome o ends.
UserResultNoTie(verdict, o, votes) ==
    IF verdict = "refunded" THEN "refund"
    ELSE IF o = verdict THEN "win" ELSE "lose"
UserResultNoRefund(verdict, o, votes) ==
    IF verdict = "refunded" THEN "none"
    ELSE IF votes[verdict] = 0 THEN "refund"
    ELSE IF o = verdict THEN "win" ELSE "lose"
UserResult(verdict, o, votes) ==
    IF verdict = "refunded" \/ votes[verdict] = 0 THEN "refund"
    ELSE IF o = verdict THEN "win" ELSE "lose"

\* The events of notifyPoolResolution: one per counted bet.
ResolutionEvents(r) ==
    LET verdict == seenPool[r].meta.resolution
        votes == [o \in Outcome |-> Votes(r, o)]
    IN  {[by |-> r, pool |-> call[r].pool, user |-> bets[r][b].meta.user,
          result |-> UserResult(verdict, bets[r][b].meta.outcome, votes),
          resolution |-> verdict, yes |-> votes["yes"], no |-> votes["no"]]
         : b \in Counted(r)}

NotifyPoolResolution(r) ==
    /\ AllChecked(r) /\ call[r].op = "ResolvePool"
    /\ told' = told \cup ResolutionEvents(r)
    /\ Goto(r, "done")
    /\ UNCHANGED <<store, intent, local, reply>>
-----------------------------------------------------------------------------
Init ==
    /\ poolRow = [p \in Pool |-> None]
    /\ betRow = [b \in Bet |-> None]
    /\ member = {}
    /\ intent = [b \in Bet |-> "none"]
    /\ pc = [r \in Req |-> "idle"]
    /\ call = [r \in Req |-> None]
    /\ seenPool = [r \in Req |-> None]
    /\ bets = [r \in Req |-> NoBets]
    /\ todo = [r \in Req |-> {}]
    /\ paying = [r \in Req |-> None]
    /\ reply = [r \in Req |-> "none"]
    /\ told = {}

Step(r) ==
    \/ CreatePool(r)
    \/ CloseReadPool(r) \/ ClosePool(r)
    \/ ResolveReadPool(r) \/ ResolvePool(r)
    \/ NotifyReadPool(r) \/ NotifyPoolResolution(r)
    \/ MakeBetReadPool(r) \/ GetBetByUser(r)
    \/ KeepBet(r) \/ UpdateBetOutcome(r) \/ CountBets(r) \/ InsertBet(r)
    \/ GetPoolReadPool(r) \/ GetBetsByPool(r) \/ ReturnPool(r)
    \/ MarkBetAsPaid(r)
    \/ \E b \in Bet : GetIntent(r, b)

Next ==
    \/ \E r \in Req : Step(r) \/ Reject(r) \/ Fail(r)
    \/ \E r \in Req, c \in Calls : Begin(r, c)
    \/ \E b \in Bet : IntentSubmitted(b) \/ IntentRevoked(b)

Spec == Init /\ [][Next]_vars

-----------------------------------------------------------------------------
(* Properties *)

TypeOK ==
    /\ poolRow \in [Pool -> PoolRow \cup {None}]
    /\ betRow \in [Bet -> BetRow \cup {None}]
    /\ member \subseteq Pool \X User
    /\ intent \in [Bet -> {"none", "match", "revoked"}]
    /\ pc \in [Req -> Steps]
    /\ call \in [Req -> Call \cup {None}]
    /\ seenPool \in [Req -> PoolRow \cup {None}]
    /\ bets \in [Req -> [Bet -> BetRow \cup {None}]]
    /\ todo \in [Req -> SUBSET Bet]
    /\ paying \in [Req -> Bet \cup {None}]
    /\ reply \in [Req -> Replies]
    /\ told \subseteq Told

\* The signature stored with a pool or a bet is always the one made over the
\* metadata stored with it, although the handlers check a signature against
\* a row read earlier than the one they write (server.go:311-319, 375-383)
\* and an update of a bet replaces part of its row only (server.go:473).
SignaturesMatch ==
    /\ \A p \in Pool : Exists(p) => poolRow[p].sig = poolRow[p].meta
    /\ \A b \in Bet : betRow[b] # None => betRow[b].sig = betRow[b].meta

\* What request r was told about the database, as a fact about the rows.
AnswerHolds(r) ==
    LET c == call[r]
        meta == poolRow[c.pool].meta
        says(op, a) == c.op = op /\ reply[r] = a
    IN  /\ says("CreatePool", "OK") =>
              /\ Exists(c.pool)
              /\ meta.creator = c.user /\ meta.dest = c.account
        /\ says("ClosePool", "OK") => Exists(c.pool) /\ ~meta.isOpen
        /\ says("ResolvePool", "OK") =>
              Exists(c.pool) /\ meta.resolution = c.choice
        /\ says("ResolvePool", "DIFFERENT_OUTCOME_DECLARED") =>
              Exists(c.pool) /\ meta.resolution \notin {"unknown", c.choice}
        /\ says("MakeBet", "OK") =>
              /\ betRow[c.bet] # None
              /\ betRow[c.bet].pool = c.pool
              /\ betRow[c.bet].meta.user = c.user
              /\ betRow[c.bet].meta.payTo = c.account
        /\ says("MakeBet", "BET_OUTCOME_SOLIDIFIED") =>
              betRow[c.bet] # None /\ betRow[c.bet].paid

\* An answer, once given, is never falsified by the requests that run beside
\* or after the one that gave it: an acknowledged closing or resolution is
\* the one that stands, whichever of several concurrent ones it was.
AnswersStand == \A r \in Req : call[r] # None => AnswerHolds(r)

\* A user holds one bet per pool, and the creator and every bettor of a pool
\* are among its members: GetPagedPools shows them the pool.
MembersAndBets ==
    /\ \A p \in Pool, u \in User : \A a, b \in BetsBy(p, u) : a = b
    /\ \A b \in Bet : betRow[b] # None =>
          <<betRow[b].pool, betRow[b].meta.user>> \in member
    /\ \A p \in Pool : Exists(p) => <<p, poolRow[p].meta.creator>> \in member

\* The bets of p as they count for it, payment aside.
Board(p) == [b \in Bet |-> IF b \in BetsOf(p) THEN betRow[b].meta ELSE None]

\* The requests that may still change the bets of p: they found it open.
Betting(p) == {r \in Req : /\ pc[r] \in {"read_bet", "check_paid",
                                         "count_bets", "insert_bet"}
                           /\ call[r].op = "MakeBet" /\ call[r].pool = p
                           /\ seenPool[r].meta.isOpen}

\* Once a pool is closed its bets are frozen, but for the requests that had
\* read it while it was open: nothing that starts later changes them.
ClosedPoolFrozen ==
    [][\A p \in Pool :
          Exists(p) /\ ~poolRow[p].meta.isOpen /\ Betting(p) = {}
          => Board(p)' = Board(p)]_vars

\* Requests that took bet b for unpaid and may still change its outcome.
Changing(b) == {r \in Req : /\ pc[r] = "check_paid" /\ call[r].op = "MakeBet"
                            /\ bets[r][b] # None /\ ~bets[r][b].paid}

\* The outcome of a bet marked as paid changes only by a request that read
\* the bet before it was marked; and the mark is never taken back.
PaidBetFrozen ==
    [][\A b \in Bet :
          betRow[b] # None /\ betRow[b].paid =>
             /\ betRow'[b] # None /\ betRow'[b].paid
             /\ Changing(b) = {} => betRow'[b].meta = betRow[b].meta]_vars

\* A summary of a pool that starts when another one has counted some bets
\* starts with all of these, whatever became of their intents since: vote
\* counts never go back, on which StaleEventDetector relies (event.go:48-52).
NoVoteForgotten ==
    [][\A r, s \in Req :
          /\ pc[r] = "read_bets" /\ pc'[r] = "check_paid"
          /\ call[s] # None /\ call[s].pool = call[r].pool
          => Counted(s) \subseteq Counted(r)']_vars

\* The counts of a finished summary include every bet marked as paid before
\* the summary read the bets, and count no bet that is not marked.
CountsAreStored ==
    \A r \in Req : \A b \in Counted(r) : betRow[b] # None /\ betRow[b].paid

\* Each bettor hears of the resolution of a pool once, from one request, and
\* hears the resolution that the pool keeps.
ToldOnce ==
    \A e, f \in told : e.pool = f.pool =>
        /\ e.by = f.by
        /\ e.user = f.user => e = f
        /\ Exists(e.pool) /\ poolRow[e.pool].meta.resolution = e.resolution

\* The events of a resolution add up: all counted bets are told, the winners
\* are the votes for the verdict, nobody is refunded where somebody wins and
\* nobody loses where nobody wins.
ToldConsistently ==
    \A e \in told :
        LET round == {f \in told : f.pool = e.pool}
            ending(x) == {f \in round : f.result = x}
        IN  /\ Cardinality(round) = e.yes + e.no
            /\ ending("refund") \in {{}, round}
            /\ e.result = "lose" => ending("win") # {}
            /\ e.resolution = "yes" /\ e.yes > 0 =>
                  Cardinality(ending("win")) = e.yes
            /\ e.resolution = "no" /\ e.no > 0 =>
                  Cardinality(ending("win")) = e.no
            /\ e.resolution = "refunded" => ending("refund") = round

\* What the pool service implements.
StageOf(row) == IF row = None THEN "absent"
                ELSE IF row.meta.isOpen THEN "open"
                ELSE IF row.meta.resolution = "unknown" THEN "closed"
                ELSE row.meta.resolution
TermsOf(row) == IF row = None THEN None
                ELSE [creator |-> row.meta.creator, dest |-> row.meta.dest]
ClosedAtOf(row) == IF row = None THEN None ELSE row.meta.closedAt

Lifecycle == INSTANCE PoolLifecycle WITH
    stage <- [p \in Pool |-> StageOf(poolRow[p])],
    terms <- [p \in Pool |-> TermsOf(poolRow[p])],
    closedAt <- [p \in Pool |-> ClosedAtOf(poolRow[p])]

\* Concurrent requests together do to a pool only what PoolLifecycle allows.
ImplementsLifecycle == Lifecycle!Spec
-----------------------------------------------------------------------------
(* What the comments and the tests of the repository expect, and the code  *)
(* does not do.                                                            *)

\* pool/tests/server.go:199-200 expects every bet beyond MaxParticipants to be
\* refused.
CapacityRespected == \A p \in Pool : Cardinality(BetsOf(p)) <= MaxParticipants

\* server.go:500 logs "Failure persisting new bet": a change to a bet that the
\* handler read as existing is not answered that way.
ChangedBetAcknowledged ==
    \A r \in Req :
        call[r] # None /\ call[r].op = "MakeBet" /\ reply[r] = "internal" =>
            bets[r][call[r].bet] = None

\* GetPoolByID reports a missing pool as ErrPoolNotFound
\* (pool/tests/store.go), and MakeBet has the answer POOL_NOT_FOUND for it.
MissingPoolAnswered ==
    \A r \in Req :
        call[r] # None /\ call[r].op = "MakeBet" /\ reply[r] = "internal" =>
            Exists(call[r].pool)
=============================================================================
