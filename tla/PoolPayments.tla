---------------------------- MODULE PoolPayments ----------------------------
(***************************************************************************)
(* Money in and out of pools, beside the requests of PoolServer: the       *)
(* handler of a bet's payment (pool/event.go), the validation of the       *)
(* intent that distributes a pool (pool/intent.go), and the activity feed  *)
(* of a user who was paid (activity/server.go).  They count the bets of a  *)
(* pool with the steps of a GetPool request, GetBetsByPool and Bet.IsPaid, *)
(* and mark them on the way; and then do with the counts what they are     *)
(* for.                                                                    *)
(*                                                                         *)
(* The Code payment system, external, keeps the balances, executes a       *)
(* distribution as soon as it is allowed, and lets no two intents spend    *)
(* from one account at once.  Amounts are quarks; all that exist fit into  *)
(* 63 bits, so that neither uint64 nor int64 arithmetic wraps.             *)
(***************************************************************************)
EXTENDS PoolServer, Sequences, Functions

CONSTANTS
    BuyIn,          \* what a bet costs, in quarks
    OwnerOf,        \* the user who owns a token account, or None
    Plans,          \* the actions clients ask for: sequences of payments
    PaymentCalls,   \* the calls of the Code system and of feed readers
    MaxQuarks       \* bound on the quarks in all accounts together

Payment == [to: Account, amount: Nat]

\* What the Code system and the readers of feeds call.
Distribute(source) == [op |-> "Distribute", source |-> source]
BetPaid(b) == [op |-> "BetPaid", bet |-> b]
ReadFeed(u) == [op |-> "ReadFeed", user |-> u]
PaymentCall == {Distribute(a) : a \in Account} \cup {BetPaid(b) : b \in Bet}
                  \cup {ReadFeed(u) : u \in User}

\* Bets are paid out to accounts of their users (validateBetPayoutDestination,
\* server.go:478).
ASSUME PaymentsAssumption ==
    /\ BuyIn \in Nat \ {0} /\ MaxQuarks \in Nat
    /\ OwnerOf \in [Account -> User \cup {None}]
    /\ Plans \subseteq Seq(Payment)
    /\ PaymentCalls \subseteq PaymentCall /\ None \notin PaymentCall
    /\ \A c \in Calls : c.op = "MakeBet" => OwnerOf[c.account] = c.user

VARIABLES
    asked,      \* asked[r]: the payment call that request r serves, or None
    result,     \* result[r]: how it ended
    balance,    \* external: balance[a], the quarks in token account a
    paidOut,    \* external: the distributions that were executed
    announced   \* the bet updates handed to the event forwarder

money == <<balance, paidOut, announced>>
paymentVars == <<vars, asked, result, money>>

\* Mutants, for the runs: each is a plausible slip in the definition whose
\* name it extends.
ReportableAtOnce(b) == TRUE

\* The Code system reports a payment once, after it was stored.
Reportable(b) == intent[b] # "none" /\ \A r \in Req : asked[r] # BetPaid(b)

Submit(r, c) ==
    /\ pc[r] = "idle" /\ asked[r] = None
    /\ c.op = "BetPaid" => Reportable(c.bet)
    /\ asked' = [asked EXCEPT ![r] = c]
    /\ UNCHANGED <<vars, result, money>>

Serves(r, op) == asked[r] # None /\ asked[r].op = op /\ result[r] = "none"
Starts(r, op) == Serves(r, op) /\ pc[r] = "idle"

\* The pool that a request is about, as it was read; on whose behalf does not
\* matter to the steps of GetPool that follow.
Found(r, p) ==
    /\ call' = [call EXCEPT ![r] =
          [op |-> "GetPool", user |-> poolRow[p].meta.creator, pool |-> p,
           bet |-> None, choice |-> "unknown", account |-> None, at |-> None]]
    /\ seenPool' = [seenPool EXCEPT ![r] = poolRow[p]]
    /\ Goto(r, "read_bets")
    /\ UNCHANGED <<store, intent, bets, todo, paying, reply, told,
                   asked, result, money>>

End(r, a) == result' = [result EXCEPT ![r] = a] /\ UNCHANGED asked

\* The bets of the pool are counted, and the request comes to its end.
Conclude(r, op, a) == Serves(r, op) /\ ReturnPool(r) /\ End(r, a)

\* A statement fails, or the caller leaves.
Abandon(r) ==
    /\ asked[r] # None /\ result[r] = "none"
    /\ Fail(r) \/ (pc[r] = "idle" /\ UNCHANGED vars)
    /\ End(r, "unavailable")
    /\ UNCHANGED money
-----------------------------------------------------------------------------
(* ValidateDistribution *)

ToPayOutEveryone(r) == Counted(r)
AllPaidAndMore(n, plan) == Len(plan) >= n
NoLeastShare(r, n) == 0

\* GetPoolByFundingDestination, and the stage the pool must have reached.
Distributable(row) == ~row.meta.isOpen /\ row.meta.resolution # "unknown"

FindPool(r) ==
    LET funded == {p \in Pool : Exists(p) /\ poolRow[p].meta.dest = asked[r].source}
    IN  /\ Starts(r, "Distribute")
        /\ \/ \E p \in funded : Distributable(poolRow[p]) /\ Found(r, p)
           \/ /\ \A p \in funded : ~Distributable(poolRow[p])
              /\ End(r, "DENIED") /\ UNCHANGED <<vars, money>>

\* The counted bets the resolution favours, or all of them if there are none.
ToPayOut(r) ==
    LET verdict == seenPool[r].meta.resolution
        favoured == {b \in Counted(r) :
                        verdict \in {"refunded", bets[r][b].meta.outcome}}
    IN  IF favoured = {} THEN Counted(r) ELSE favoured

LeastShare(r, n) == balance[asked[r].source] \div n
AllPaid(n, plan) == Len(plan) = n

\* The sum of a sequence of amounts; what a plan pays, and what it pays to a.
Total(amounts) ==
    LET sum[i \in 0..Len(amounts)] ==
            IF i = 0 THEN 0 ELSE sum[i - 1] + amounts[i]
    IN  sum[Len(amounts)]
Amounts(plan) == [i \in 1..Len(plan) |-> plan[i].amount]
AmountsTo(plan, a) ==
    [i \in 1..Len(plan) |-> IF plan[i].to = a THEN plan[i].amount ELSE 0]

\* The plans that pass all the checks.
Valid(r) ==
    LET n == Cardinality(ToPayOut(r))
        owed == {bets[r][b].meta.payTo : b \in ToPayOut(r)}
        pot == balance[asked[r].source]
        destinations(plan) == {plan[i].to : i \in DOMAIN plan}
    IN  {plan \in Plans :
            /\ n > 0 /\ AllPaid(n, plan)
            /\ owed \subseteq destinations(plan)
            /\ Cardinality(destinations(plan)) = Len(plan)
            /\ \A i \in DOMAIN plan : plan[i].amount >= LeastShare(r, n)
            /\ Total(Amounts(plan)) = pot}

Deny(r) ==
    /\ Conclude(r, "Distribute", "DENIED")
    /\ ~(Plans \subseteq Valid(r))
    /\ UNCHANGED money

\* The handler has nothing against the plan, and the Code system executes it.
Execute(r, plan) ==
    LET source == asked[r].source
        before == {d \in paidOut : d.pool = call[r].pool}
    IN  /\ balance' = [a \in Account |->
                (IF a = source THEN 0 ELSE balance[a]) + Total(AmountsTo(plan, a))]
        /\ paidOut' = paidOut \cup
              {[by |-> r, pool |-> call[r].pool,
                verdict |-> seenPool[r].meta.resolution,
                counted |-> Counted(r), plan |-> plan,
                shared |-> balance[source], earlier |-> Cardinality(before)]}

Pay(r) ==
    /\ Conclude(r, "Distribute", "OK")
    /\ \E plan \in Valid(r) : Execute(r, plan)
    /\ UNCHANGED announced
-----------------------------------------------------------------------------
(* OnSuccessfulBetPayment *)

\* The payment of no bet would have been denied.
FindBet(r) ==
    LET row == betRow[asked[r].bet]
    IN  Starts(r, "BetPaid") /\ row # None /\ Found(r, row.pool)

\* The creator and all bettors, whoever paid, get the update.
ForwardBetUpdate(r) ==
    /\ Conclude(r, "BetPaid", "OK")
    /\ announced' = announced \cup
          {[bet |-> asked[r].bet, pool |-> call[r].pool, counted |-> Counted(r)]}
    /\ UNCHANGED <<balance, paidOut>>
-----------------------------------------------------------------------------
(* toLocalizedNotifications, on one of the distributions that pay the user *)

Pays(d, u) == \E i \in DOMAIN d.plan : OwnerOf[d.plan[i].to] = u

ReadDistribution(r) ==
    LET mine == {d \in paidOut : Pays(d, asked[r].user)}
    IN  /\ Starts(r, "ReadFeed")
        /\ \/ mine = {} /\ End(r, "OK") /\ UNCHANGED <<vars, money>>
           \/ \E d \in mine : Found(r, d.pool)

\* GetUserSummary: how the pool ended for the user, "none" without a bet that
\* counts.
UserSummary(r, u) ==
    LET mine == {b \in Counted(r) : bets[r][b].meta.user = u}
        votes == [o \in Outcome |-> Votes(r, o)]
    IN  IF mine = {} THEN "none"
        ELSE LET b == CHOOSE b \in mine : TRUE
             IN  UserResult(seenPool[r].meta.resolution,
                            bets[r][b].meta.outcome, votes)

\* A payment from a pool that the user did not win and was not refunded by is
\* an "unexpected user pool outcome", and the whole page fails.
ReturnFeed(r) ==
    /\ Conclude(r, "ReadFeed",
                IF UserSummary(r, asked[r].user) \in {"win", "refund"}
                THEN "OK" ELSE "internal")
    /\ UNCHANGED money
-----------------------------------------------------------------------------
(* The Code payment system, external *)

Quarks == FoldFunction(+, 0, balance)
PoolAccount(b) == poolRow[betRow[b].pool].meta.dest

RevocableAlways(b) == TRUE
\* A payment can be taken back while its quarks are there.
Revocable(b) == balance[PoolAccount(b)] >= BuyIn

PayBuyIn(b) ==
    /\ betRow[b] # None /\ IntentSubmitted(b)
    /\ balance' = [balance EXCEPT ![PoolAccount(b)] = @ + BuyIn]
    /\ UNCHANGED <<asked, result, paidOut, announced>>

TakeBackBuyIn(b) ==
    /\ betRow[b] # None /\ IntentRevoked(b) /\ Revocable(b)
    /\ balance' = [balance EXCEPT ![PoolAccount(b)] = @ - BuyIn]
    /\ UNCHANGED <<asked, result, paidOut, announced>>

\* Anybody may send quarks to a pool, here as long as the bound leaves room for
\* the payments to come.
Deposit(p) ==
    /\ Exists(p)
    /\ Quarks + BuyIn * Cardinality({b \in Bet : intent[b] = "none"}) < MaxQuarks
    /\ balance' = [balance EXCEPT ![poolRow[p].meta.dest] = @ + 1]
    /\ UNCHANGED <<vars, asked, result, paidOut, announced>>
-----------------------------------------------------------------------------
PaymentsInit ==
    /\ Init
    /\ asked = [r \in Req |-> None] /\ result = [r \in Req |-> "none"]
    /\ balance = [a \in Account |-> 0] /\ paidOut = {} /\ announced = {}

\* The steps of PoolServer that count bets.
Count(r) == GetBetsByPool(r) \/ MarkBetAsPaid(r) \/ \E b \in Bet : GetIntent(r, b)

Handle(r) ==
    \/ FindPool(r) \/ Deny(r) \/ FindBet(r) \/ ForwardBetUpdate(r)
    \/ ReadDistribution(r) \/ ReturnFeed(r)
    \/ Abandon(r)
    \/ Pay(r)

\* A request of PoolServer, and what one that serves a payment has of it.
Request(r) ==
    /\ \/ /\ asked[r] = None
          /\ Step(r) \/ Reject(r) \/ Fail(r) \/ \E c \in Calls : Begin(r, c)
       \/ asked[r] # None /\ Count(r)
    /\ UNCHANGED <<asked, result, money>>

PaymentsNext ==
    \/ \E r \in Req : Handle(r) \/ Request(r)
    \/ \E r \in Req, c \in PaymentCalls : Submit(r, c)
    \/ \E b \in Bet : PayBuyIn(b) \/ TakeBackBuyIn(b)
    \/ \E p \in Pool : Deposit(p)

PaymentsSpec == PaymentsInit /\ [][PaymentsNext]_paymentVars
-----------------------------------------------------------------------------
(* Properties *)

Results == {"none", "OK", "DENIED", "internal", "unavailable"}

PaymentsTypeOK ==
    /\ asked \in [Req -> PaymentCall \cup {None}]
    /\ result \in [Req -> Results]
    /\ balance \in [Account -> Nat]
    /\ \A d \in paidOut :
          /\ d.by \in Req /\ d.pool \in Pool /\ d.verdict \in Resolution
          /\ d.counted \subseteq Bet /\ d.plan \in Plans
          /\ d.shared \in Nat /\ d.earlier \in Nat
    /\ \A e \in announced :
          e.bet \in Bet /\ e.pool \in Pool /\ e.counted \subseteq Bet

\* How a bet ended in a pool in which the bets of d were counted, by the rules
\* of the notification and of the summaries (pool/util.go:118-137), with the
\* outcome d found: a MakeBet that read the pool while it was open may change it
\* afterwards.
Chosen(d, b) == bets[d.by][b].meta.outcome
Ending(d, b) ==
    LET votes == [o \in Outcome |-> Cardinality({c \in d.counted : Chosen(d, c) = o})]
    IN  UserResult(d.verdict, Chosen(d, b), votes)
Backed(d) == {b \in d.counted : Ending(d, b) # "lose"}

\* What intent.go:122-218 allows, a check at a time and with its own idea of
\* who won, is a fair division among those whom the summaries of the pool call
\* winners or refunded: to each of them and to nobody else, all of the balance,
\* and to nobody more than an even share and the remainder.
SharesAreFair ==
    \A d \in paidOut :
        LET n == Cardinality(Backed(d))
        IN  /\ {d.plan[i].to : i \in DOMAIN d.plan} =
                  {betRow[b].meta.payTo : b \in Backed(d)}
            /\ Total(Amounts(d.plan)) = d.shared
            /\ \A i \in DOMAIN d.plan :
                  d.plan[i].amount \in (d.shared \div n)..
                                       ((d.shared \div n) + (d.shared % n))

\* The first distribution of a pool of which no payment was taken back pays
\* everybody at least what the summary promises, the buy-ins of the counted
\* bets over the number of the winners (util.go:141): the bets that count are
\* covered by money in the pool.
PromiseIsPaid ==
    \A d \in paidOut :
        d.earlier = 0 /\ (\A b \in BetsOf(d.pool) : intent[b] # "revoked") =>
            \A i \in DOMAIN d.plan :
                d.plan[i].amount >=
                    (BuyIn * Cardinality(d.counted)) \div Cardinality(Backed(d))

\* The requests r and s counted the same bets, with the same outcomes.
CountAlike(r, s) ==
    /\ Counted(r) = Counted(s)
    /\ \A b \in Counted(r) : bets[r][b].meta.outcome = bets[s][b].meta.outcome

\* A distribution that counted what the notification of the resolution
\* counted (event.go:121, intent.go:108) pays the users who were told that
\* they won or are refunded, and nobody who was told to have lost.
PaidAsTold ==
    \A e \in told, d \in paidOut :
        e.pool = d.pool /\ CountAlike(e.by, d.by) =>
            (Pays(d, e.user) <=> e.result # "lose")

\* The feed of a user who was paid fails (activity/server.go:384) only when a
\* bet that the distribution counted changed sides afterwards, or when the pool
\* was paid back for want of a winner and somebody won it since: by a payment
\* that was counted after the distribution.
FeedReadable ==
    \A r \in Req :
        asked[r] # None /\ asked[r].op = "ReadFeed" /\ result[r] = "internal"
        => \E d \in paidOut :
              /\ Pays(d, asked[r].user)
              /\ d.counted \subseteq Counted(r)
              /\ \/ \E b \in d.counted : bets[r][b].meta.outcome # Chosen(d, b)
                 \/ /\ d.counted # Counted(r)
                    /\ \A b \in d.counted : Chosen(d, b) # d.verdict

\* When the payment of every paid bet of a pool was reported, the update with
\* the most votes has them all: StaleEventDetector (event.go:34-57) keeps that
\* one and may drop the others, in whatever order they arrive.
LastUpdateIsComplete ==
    \A p \in Pool :
        LET paid == {b \in BetsOf(p) : intent[b] # "none"}
        IN  /\ paid # {} /\ \A b \in paid : intent[b] = "match"
            /\ \A b \in paid : \E e \in announced : e.bet = b
            => \E e \in announced : e.pool = p /\ paid \subseteq e.counted
=============================================================================
