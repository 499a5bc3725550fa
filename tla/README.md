# flipcash-server in TLA+

This directory specifies the parts of the Flipcash server whose correctness
depends on the order in which things happen: concurrent RPC handlers over one
database, servers that host streams and crash, payments that arrive when they
like. It holds TLA+ modules, TLC configurations that check them on small
instances, and proofs that TLAPS checks for instances of any size.
`PROJECT.json` lists the runs, the mutants each property is tried on, the source
lines each definition translates, the findings, the hazards and the theorems.

To check one run: `tlc -config PoolBetting.cfg MCPoolServer.tla`.
To check the proofs of one module: `tlapm PoolServerProofs.tla`; the modules with proofs are those named `...Proofs`.

## 1. The system

Flipcash is a gRPC server and a few workers over one Postgres database, beside
the Code payment system (accounts, intents, balances), which it embeds and does
not own. Many servers run at once; apart from the database they talk to each
other only to forward events.

| Part | State it keeps | Operations | Talks to | What is hard | What makes it correct | Here |
|---|---|---|---|---|---|---|
| Betting pools (`pool/server.go`, `pool/postgres`) | tables of pools, bets and members | CreatePool, ClosePool, ResolvePool, MakeBet, GetPool, GetPagedPools | database, Code intents, event bus | each handler reads, decides and writes in separate statements; no lock spans them | a pool is created, closed and resolved once; signatures fit the rows; bets freeze; answers stay true; pages miss nothing | `PoolServer`, `PoolPaging` |
| Notifications of pools (`pool/event.go`) | the detector's latest counts | notifyPoolResolution, OnSuccessfulBetPayment, StaleEventDetector | tables again, event bus or forwarder, pusher | run after the commit, re-read everything, are never retried | each bettor hears one, consistent result; the last update is complete | `PoolServer`, `PoolPayments`, `EventDelivery` |
| Payments of bets, distribution of pools (`pool/intent.go`, `intent/integration.go`) | the intents of the Code system | AllowCreation, OnSuccess | Code, pools | who is paid is read before it may change; integer division of the pot | the whole pot goes to the winners, or back, as they were told | `PoolPayments` |
| Event streams (`event/server.go`, `event/postgres`) | per server: map of streams, a mutex per user; in the database: one rendezvous record per user | StreamEvents | database, clients | a user opens several streams on several servers; crashes; records expire | one lease per user; the open stream is found; nobody removes another's record | `EventStreams` |
| Event delivery (`event/stream.go`, `event/forwarder.go`, `event/bus.go`, `event/client.go`) | channel and lock of each stream, cached connections | Notify, Close, ForwardEvents, ForwardUserEvents, OnEvent | rendezvous records, other servers | full channels, retries that duplicate, events that overtake each other, locks held while waiting | no send on a closed channel; a steady stream gets its events, counts of votes once | `EventDelivery` |
| Accounts and authorization (`account`, `auth`) | users, public keys, registration flag; caches per server | Register, Login, GetUserFlags, Authorize | database | two Registers of one key at once; cached flags | one user per key; caches never grant what the database does not | `Accounts` |
| In-app purchases (`iap`) | purchases | OnPurchaseCompleted | stores' receipt verifiers, accounts | one receipt submitted twice; a commit that looks failed | a receipt registers one user | `Purchases` |
| Profiles, social accounts (`profile`, `social`) | display name, phone, email, X account | SetDisplayName, LinkSocialAccount, UnlinkSocialAccount, GetProfile | X, database | read-then-upsert | an X account belongs to one user, a user has one | `Profiles` |
| Email, phone verification (`email`, `phone`) | none of its own | SendVerificationCode, CheckVerificationCode, Unlink | Twilio, profiles | a code is spent before the address is saved | an address is saved only if verified, and stays | `Contacts` |
| Push tokens (`push`) | tokens | AddToken, DeleteTokens, pushes | Firebase | tokens deleted while re-registered | the cleanup deletes only dead tokens | `Pushes` |
| Transactions (`database/postgres`) | a connection pool | ExecuteInTx, ExecuteTxWithinCtx | Postgres | a commit may look failed; a second connection is taken inside a transaction | a handler's transaction is atomic | as steps of the others |
| Activity feed (`activity`) | none | GetLatestNotifications, GetPagedNotifications, GetBatchNotifications | Code, pools | a distribution is described by what the pool looks like now | the feed of a user who was paid can be read | `PoolPayments`, distributions only |
| Anti-spam, airdrops, swaps, geyser, third-party tokens, localization, encodings, test utilities | none | pass-through calls, policies, formatting | Code | — | — | not modelled |

## 2. Modules

| Module | What it is |
|---|---|
| `PoolLifecycle` | abstract: what may happen to pools, in what order |
| `PoolServer` | the RPC handlers of pools, statement by statement |
| `PoolServerProofs` | its invariants and its refinement of `PoolLifecycle`, proved |
| `PoolBetsProofs` | extends `PoolServerProofs`: one bet per member, frozen bets, what bettors are told, proved |
| `PoolPaging` | extends `PoolServer`: a client walks through its pools page by page |
| `PoolPagingProofs` | extends `PoolBetsProofs`: what walks come past, and what the pool service keeps beside them, proved |
| `PoolPayments` | extends `PoolServer`: payments of bets, distributions, the feed of those who were paid |
| `PoolPaymentsProofs` | extends `PoolBetsProofs`: its properties, and those of `PoolServer` beside payments, proved |
| `UserLease` | abstract: the lease that a rendezvous record is |
| `EventStreams` | StreamEvents on several servers |
| `EventStreamsProofs` | its invariants and its refinement of `UserLease`, proved |
| `EventDelivery` | extends `EventStreams`, and implements it: events on their way to the streams |
| `EventDeliveryProofs` | extends `EventStreamsProofs`: its types, its locks, its refinement of `EventStreams`, which streams an event reaches and how often, proved |
| `Accounts` | requests of users, registration, authorization, the caches of every server |
| `Purchases`, `Profiles`, `Contacts`, `Pushes` | extend `Accounts`, a service each |
| `Users` | the five services over one set of tables |
| `UsersProofs` | its types, and what a request is at each of its steps, proved |
| `UserTablesProofs` | extends `UsersProofs`: the properties of the five services, proved |
| `MCPoolServer`, `MCPoolPaging`, `MCPoolPayments`, `MCEventStreams`, `MCEventDelivery`, `MCUsers` | the instances for TLC |

### PoolServer

*State.* `poolRow`, `betRow`, `member` are the three tables. Each request `r` is one
execution of a handler: `call[r]` is what was asked, `pc[r]` the statement it sends next,
`seenPool[r]` and `bets[r]` the rows it holds in memory, `todo[r]` and `paying[r]` the bets
whose payment it has still to look up or to mark, `reply[r]` its answer. `intent` is the
payment intent with the id of each bet, in the Code system. `told` collects the
PoolResolved events handed to the event bus. A signature is modelled by the
metadata it was made over, so "the signature verifies" is an equality.

*Actions.* One per statement:

| Handler | Steps |
|---|---|
| CreatePool | `CreatePool`: one transaction inserts pool and member, with the two unique keys |
| ClosePool | `CloseReadPool` (missing, foreign, already closed), `ClosePool` (guarded update) |
| ResolvePool | `ResolveReadPool`, `ResolvePool`, then the goroutine: `NotifyReadPool`, `GetBetsByPool`, `GetIntent`/`MarkBetAsPaid` per bet, `NotifyPoolResolution` |
| MakeBet | `MakeBetReadPool`, `GetBetByUser`, `GetIntent`/`MarkBetAsPaid` for the bet found, `KeepBet` or `UpdateBetOutcome`, `CountBets`, `InsertBet` |
| GetPool | `GetPoolReadPool`, `GetBetsByPool`, `GetIntent`/`MarkBetAsPaid` per bet, `ReturnPool` |
| any | `Reject`: the contents are refused; `Fail`: a statement fails, the caller leaves or the process dies |
| Code | `IntentSubmitted`, `IntentRevoked` |

The INSERT of a bet is two steps: under read-committed isolation its sub-select counts rows
committed before the statement, and the row appears when its transaction commits.

*Abstractions.* Callers are registered and act for themselves; what is wrong with the
contents of a request is one `Reject` step, which changes nothing. The resolution in a request
is never "unknown", as `ToResolution` has no such input. A commit whose acknowledgement is lost is the
commit followed by `Fail`. An intent either pays the pool what the bet owes ("match") or does not
count; Code's creation of intents is external: `ValidateBetPayment` denies new payments
at `intent.go:44`, while `Bet.IsPaid` still honours those that exist. Buy-ins, names and
amounts are left out.

### PoolPaging

*State.* `memberId` numbers the rows of members. `walk[r]` is the walk that request `r` serves and the rest of its
page, the pools it has still to assemble; an empty page is the answer NOT_FOUND, which ends the walk. `passed[r]` and `since[r]` are
history: the pools it has come past, and those the user had at its start.

*Actions.* `BeginWalk` is the first call of GetPagedPools, `NextPool` takes the next pool of the page, in the order of ids, or, with the id
of the last row as its token, calls again. `Page` is the query: of the rows that are left, those with fewer than the limit before them. What happens to each pool in between are the steps of GetPool,
the two RPCs sharing `getProtoPool`. `NumberMember` goes with every other step: a row that is committed has any id that
is free, since ids come from a sequence at the INSERT and rows become visible at the COMMIT.

*Property.* `WalkMissesNothing`: no pool twice, and every pool that was the user's when the walk began.

### PoolPayments

*State.* Beside that of `PoolServer`: `asked[r]`, the payment call that request `r` serves (or none: then it serves a call of
`PoolServer`), and `result[r]`, how it ended. `balance` and `paidOut`, external, are the token accounts of the Code system and the
distributions it executed; `announced` are the updates that OnSuccessfulBetPayment forwarded.

*Actions.* `Submit` starts a call of the Code system or of a feed's reader; the first statement finds the pool
(`FindPool`, `FindBet`, `ReadDistribution`), the steps of `PoolServer` read and count its bets, and the last step decides: `Deny` or
`Pay` (ValidateDistribution, lines 88-220), `ForwardBetUpdate`, `ReturnFeed`. `PayBuyIn`, `TakeBackBuyIn` and
`Deposit` are external. A request that serves a payment call reads and counts bets as GetPool does (`Count`), since
ValidateDistribution, GetBetSummary and GetUserSummary all go through `GetBetsByPool` and `Bet.IsPaid`; `Abandon` is its failure. The detector that drops updates with fewer votes is in `EventDelivery`.

*Abstractions.* Validation and the execution of an allowed distribution are one step: Code lets no two intents
spend from one account at once. A plan is a sequence of payments; which kinds of actions an intent may contain, and that they come
from the pool's account, is left to `Deny`. The quarks that exist fit into 63 bits, so neither `uint64` sums nor `int64`
balances wrap. `ValidateBetPayment` denies every new payment and changes nothing; `PayBuyIn` stands for the payments that Code has
nevertheless (older ones, whose report may still come). The feed shows the distributions of one page; the model reads one at a time.

*Properties.* `SharesAreFair` compares the checks of ValidateDistribution, which decide winners on their
own, with the rules of the summaries: the whole balance, to winners or to the refunded, in even shares and a remainder.
`PromiseIsPaid`: a first distribution pays what the summaries promised. `PaidAsTold`: a distribution that counts what the
notification counted, the same bets with the same outcomes, pays those who were told so. `FeedReadable` pins down the two ways in which the feed of a
paid user fails: a bet that was counted changed sides afterwards, or the pool was paid back because nobody had won and a payment was
counted afterwards. All of these speak of the outcomes that the distribution counted, not of those in the table: a MakeBet that read the pool while it was
open and the bet while it was unpaid may store another outcome when the pool is resolved and paid out (`pool/server.go:473`). `LastUpdateIsComplete`: once all
payments were reported, the update that the detector keeps has all votes.

### EventStreams

*State*, for one user (users share only `streamsMu`, which is held for single steps):
`rendezvous` is the user's row, with a ghost field `owner` for the handler that wrote it;
`streams[s]` and `streamMu[s]` are the user's entries in the maps `streams` and
`individualStreamMu` of server `s`. A handler `h` is one execution of StreamEvents on server
`home[h]`; its stream is named after it, and `closed[h]` tells that the channel is
closed. `now` is the time, in seconds; `expiresAt[h]` is the expiry `h` asked for last,
`refreshAt[h]` the timer of its loop, `ended[h]` why it ended.

*Actions.* `Refuse` (lines 110-149), `Register` (156-220: close the previous stream, take its place),
`Enter` (222-263: the mutex, then the check of the context), `CreateRendezvous` (264-273), the loop
with `StartRefresh`/`ExtendRendezvousExpiry`, `SeeClosed` and `LoseClient`, and the deferred cleanup
`Unregister` and `DeleteRendezvous`. `NotifyTimesOut` closes a stream from the
side of a sender, `Crash` restarts a server under the same address, `Tick` passes time.
Each statement may fail, with or without having taken effect. The mutex admits waiting
handlers in any order, as `sync.Mutex` does.

*Abstractions.* Servers and database read one clock: skew shortens or lengthens a lease and is
not modelled. A statement that fails has its effect before the handler goes on, or never.
`Register` is one step although `Close` may wait for the lock of the old stream: `EventDelivery` lets it wait,
and adds what the channel carries.

### EventDelivery

*State.* `channel[h]` and `streamLock[h]` of each stream, `streamsMu[s]` where a handler keeps it because it waits
for a stream's lock, and `latest[h]`, the detector of each stream. A task `k` is a goroutine with one event: `task[k]` has
the place where it runs, its attempt and its step. `sent`, `steady`, `lostAcks` and `fate` are history.

*Actions.* `Publish` is OnEvent, a call to ForwardUserEvents, or a worker's ForwardingClient. `LookUp` reads the rendezvous record and
decides: the stream is here, elsewhere, or nowhere. `Deliver` is the RPC ForwardEvents, whose request or reply may be lost
(`ForwardFails`); `AgainOrGiveUp` is the retry. On the stream's server `FindStream`, `SelectEvent` (the detector), `LockToNotify`, then
`Push`, or `TimeOut` and `CloseTimedOut`. The handlers take the steps of `EventStreams` as the locks allow: `Replace` waits for the old
stream's lock with `streamsMu` held (`WaitToReplace`), `Leave` needs `streamsMu`, `SeeDrained` an empty channel, and
`SendToClient` empties it. `Stop` kills a server with its tasks and the locks they hold.

*Abstractions.* One user, as in `EventStreams`, and events one by one rather than in batches. All the updates are of one pool, and an update is
the number of votes it counts. An RPC is carried out at once or fails at any time. `streamTimeout` may run out
whenever a task waits for room. The cached connections of `client.go` only add ways for a call to fail.

*Properties.* `ImplementsStreams`: every step is one of `EventStreams` or leaves it alone, so what is proved there
holds here. `WaitsOnOpenChannel`: whoever waits for room holds the lock of an open stream, and nobody else keeps that
lock; no send on a closed channel, no deadlock between `streamsMu` and the locks of streams. `UpdateSentOnce`, `CopiesHaveCause`:
duplicates need a lost reply, and updates are never duplicated. `SteadyStreamIsServed`: an event whose tasks ended without giving up has reached the
stream that was up all the while, or a newer count has.

### Accounts, Purchases, Profiles, Contacts, Pushes, Users

*State.* The tables `userOf` (keys), `registered`, `purchase`, `name`, `xOwner`, `contact`, `token`; per server the caches
`cachedUser` and `cachedFlag`; per request `pc`, `call`, `who` (the user it acts for), `seen` (what it read and has yet to use)
and `reply`. `verification` (Twilio) and `gone` (Firebase) are external.

*Actions*, one per statement or call of a service:

| Handler | Steps |
|---|---|
| Register | `LookUpKey`, then `Bind` with a new user, or `SetRegistrationFlag` for the known one |
| authorization of all others | `GetUserId` (cache or table), `CacheUser`; `IsRegistered` (cache or table), `CacheFlag` where the handler asks |
| Login; GetUserFlags | `Login`; `GetPubKeys`, `IsRegistered` |
| OnPurchaseCompleted | `CheckProduct`, `VerifyReceipt`, `GetPurchaseByID`, `Fulfil`, `RereadPurchase` after an error |
| SetDisplayName; LinkSocialAccount; UnlinkSocialAccount | `SetDisplayName`; `GetMyUser`, `GetXProfile`, `UpsertXProfile`; `UnlinkXAccount` |
| SendVerificationCode | `LookUpPhone` and `SendPhoneCode`; `SendEmailCode` |
| CheckVerificationCode | `CheckPhoneCode`, `SetPhoneNumber`; `CheckEmailCode`, `SetEmailAddress` |
| Unlink | `UnlinkPhone`; `UnlinkEmail` |
| AddToken; DeleteTokens | `AddToken`; `GetTokens`, `DeleteToken` for each |
| SendBasicPushes | `GetTokensBatch`, `SendEachForMulticast`, `CleanUp` in its goroutine |
| any | `Reject` (signature, timestamp), `Fail` |

Unique keys are guards with a name of their own (`KeyTaken`, `ReceiptTaken`, `LinkedElsewhere`). The reply "lost" is a
commit of which the caller does not hear.

*Abstractions.* Twilio's errors are those the verifiers look for; any other one is `Fail`. Receipts are valid or not. A
user id made by Register is one that nobody has. Texts of pushes and names are left out, and so is the staff flag.

*Properties.* `KeysAgree`: all requests signed by a key act for the one user its Register answered with. `CachesAgree`
and `RegisteredNotDenied`: caches hold what the tables hold, and only what cannot change; no server turns a registered user away.
`ReceiptsRegisterOnce`: a receipt registers one user and the answers say whom. `LinksStand`: one X account per user, and an
acknowledged link stands until it is undone. `CheckedAddressStays`: so does a checked address. `TokenKept`: the cleanup after a push deletes
no token that Firebase knows, even one that was registered meanwhile.

## 3. Runs

| Run | Instance | Shows |
|---|---|---|
| `pool_management` | 4 requests; 2 pools with one funding destination; a creator and a stranger who also looks on; 2 closing times, 2 resolutions | `SignaturesMatch`, `AnswersStand`, `ImplementsLifecycle` |
| `pool_betting` | 4 requests; 1 pool, 2 users, 2 bets, 2 payout accounts | `MembersAndBets`, `ClosedPoolFrozen`, `PaidBetFrozen`, and the first two again |
| `pool_summary` | 3 requests; two scenarios: a pool with two bets that is read and resolved; a user with one or two pools who walks through pages of 1 or 2, from either end, while joining the second; ids up to 3 | `TypeOK`, `CountsAreStored`, `ToldOnce`, `ToldConsistently`, `NoVoteForgotten`, `WalkMissesNothing` |
| `pool_distribution` | 2 requests; 1 closed pool with 2 bets; buy-in 1, at most 3 quarks, all plans of up to 3 actions | `PaymentsTypeOK`, `SharesAreFair`, `PromiseIsPaid`, `PaidAsTold`, `FeedReadable`, `LastUpdateIsComplete` |
| `pool_capacity` | 3 bettors, 1 place | violation: both of two concurrent bets get the last place |
| `pool_changed_bet` | 3 requests | violation: a stored change of a bet is answered with an internal error |
| `pool_missing_pool` | 3 requests | violation: a missing pool is answered with an internal error |
| `event_streams` | 3 handlers, 2 servers, 5 s, the real 3 s expiry and 2 s refresh | `TypeOK`, `OpenIsRegistered`, `ServingIsReachable`, `NoOrphanRecord`, `ImplementsLease` |
| `event_streams_live` | 3 handlers, 1 server, fair | `NewestGetsItsTurn` |
| `event_streams_contest` | 2 handlers on each of 2 servers; no failures, no time | violation: every stream ends although no client closed one |
| `event_delivery` | 2 servers, 2 handlers, 3 tasks; two scenarios that start with a handler that serves: 1 event of either kind, or 2 updates and no second stream; channels of 1, 2 attempts, 2 s with an expiry of 2 s and a refresh of 1 s | `DeliveryTypeOK`, `ImplementsStreams`, `WaitsOnOpenChannel`, `UpdateSentOnce`, `CopiesHaveCause`, `SteadyStreamIsServed` |
| `users` | 10 scenarios of 4 calls on 2 servers; 4 users, 3 keys; 3 receipts; 2 X accounts; 2 addresses, 2 codes, 1 check; 1 install, 2 tokens, 1 per push | `UsersTypeOK`, `KeysAgree`, `CachesAgree`, `ReceiptsRegisterOnce`, `LinksStand`, `CheckedAddressStays`, `RegisteredNotDenied`, `TokenKept` |

*Why the bounds are enough.* A race in a pool needs a request that has read, one that writes in
between and one that observes; creation takes one more. Every pair of handlers meets in
`pool_management` or `pool_betting`, and each request may be any of the calls listed in
`MCPoolServer`. `pool_summary` starts from a reachable state, two committed bets, so that
its requests are spent on what matters there; two bets suffice for a tie, a win and a
refund, and two pools with an id to spare let the new row commit before, between or after the token. In
`pool_distribution` two bets and one quark beyond both buy-ins give a tie, a single winner, no winner, a refund and a remainder; a second
request observes or interferes. Streams need a handler that serves, one that replaces it and one on another
server; five seconds let a record expire, be renewed once and expire again. The contest
needs an old and a new stream on each of two servers. In `event_delivery` three tasks are a caller, its callee after a lost reply, and
the callee of the second attempt; an event that may be delivered twice fills a channel of one, which is what
`Notify` has to wait for; two updates pass
the detector in one order and wait for room in the other, on a stream that may end but is not replaced. The scenarios of `users` put
together the calls that touch one key, receipt, X account, address or install, in all their
interleavings; each handler occurs in one of them. Calls about different things share only the caches, whose entries
are per key and per user.

Symmetry of requests, handlers, servers and tasks is used for safety only; the fair run has none. Runs do not check deadlock: all
requests of an instance end.

*Fairness.* Only `EventStreams` states fairness, as nothing else promises progress.
Its `FairSpec` assumes that handlers run on (weak fairness of `Work`), that the Go mutex starves
no waiter (strong fairness of `Enter`; its starvation mode hands the lock to whoever
has waited over a millisecond) and that `select`, which picks at random among the ready cases, comes round
to the closed channel (strong fairness of `SeeClosed`). Nothing is assumed about clients, crashes, time or failures. A `stream.Send`
that blocks for ever, for a client that neither reads nor goes away, is excluded by this
fairness; gRPC's keep-alive is what ends it.

## 4. Findings

* A pool can hold more bets than `MaxParticipants` (`pool/postgres/model.go:272`).
* MakeBet answers a stored change of outcome with an internal error: after `UpdateBetOutcome` it
  inserts the bet again (`pool/server.go:473`).
* MakeBet never answers POOL_NOT_FOUND: it compares with the wrong sentinel (`pool/server.go:436`).
* All of a user's streams may end because of one another (`event/server.go:222`): a handler whose
  stream was closed while it waited for the mutex still writes a rendezvous record, for which the
  newest stream of the other server is refused, and the other way round.

## 5. Proofs

Every safety property proved here follows one scheme: an inductive invariant, checked by TLC on the instances above, is
proved for the initial states and for every step; the property is one of its parts or a consequence of it. Invariants are
layered. A module that extends another one uses its `Invariance` as a fact about both ends of a step, and adds only what
its own properties need. Each theorem holds for any constants that fulfil the assumptions.

*Assumptions on constants.* `NoneAssumption`, `NamesAssumption` and `CarryingAssumption` keep `None` apart from values; `MaxAssumption`,
`TimesAssumption` and `DeliveryAssumption` give numbers and capacities their types; `BetAssumption` makes the bet ids of an instance finitely many,
so that votes can be counted. `CallsAssumption`, `AccountsAssumption`, `PurchasesAssumption`, `ProfilesAssumption`,
`ContactsAssumption` and `PushesAssumption` say that the contents of a call have the types that its request message has. No
assumption bounds the numbers of users, requests, servers, streams, tasks or events. TLC evaluates all of them.

**PoolServer.** No property is inductive: a signature is checked against a row read in an earlier
step. What carries `SignaturesMatch` across is `CloserIsCurrent` and `ResolverIsCurrent`: if the row may still be closed (resolved), then its
metadata are those the request has read, since every other step that changes them makes
the guarded update of this request miss. `HeldBetsAreStored` and `ChecksAreHeld` say that
what a request holds in memory lags behind the table only in ways that are harmless: ids, users and payout accounts agree, and what
it counts as paid is paid. `BettorHoldsBet` says that MakeBet's bet is its own. Proved from them: `TypeOK`, `SignaturesMatch`, `AnswersStand`,
`CountsAreStored`, `NoVoteForgotten`, `ImplementsLifecycle`.

The theorems `ServerInvariance` and `ServerRefinement` (`PoolPaymentsProofs`) and `ServerBesideWalks` (`PoolPagingProofs`) state the same of
the larger systems: requests that serve payments and walks take the steps of GetPool from rows and pools they chose themselves, and the
invariants bear it.

*Bets and notifications* (`PoolBetsProofs`). `MembersAndBets` is inductive once `Inv` is known: a row of bets keeps its pool and its
user, and a new one fits the unique key. For `ClosedPoolFrozen`, `Bettors` says that whoever is past MakeBet's first statement has seen the pool
open. `ToldInv` carries the notifications: as long as a request is on its way to notify, it is the one whose
guarded update resolved the pool, nobody else is, and nothing has been told of the pool; nothing is ever told of a pool that is not resolved. The
bets it counts have one user each (`MembersAndBets` and `HeldBetsAreStored`), so that events, users and counted
bets correspond one to one, and `ToldConsistently` becomes a matter of cardinalities. Proved: `MembersAndBets`,
`PaidBetFrozen`, `ClosedPoolFrozen`, `ToldOnce`, `ToldConsistently`.

**PoolPaging** (`PoolPagingProofs`). `MembersAreNumbered`: the rows of a user have ids of their own, so that `After` is a strict order of them.
`OnItsWay`: the pools a walk has come past are before those on its page, and of the pools it began with, each is among the former, on the
page, or after it. A row that commits gets an id of its own and changes no other, so `After` stays; and `Page` takes all rows
that precede one it takes, hence the rows beyond the last of the page are exactly those it left. Proved: `WalkMissesNothing`; and beside walks `TypeOK`,
`SignaturesMatch`, `AnswersStand`, `MembersAndBets`, `CountsAreStored`, `ToldOnce`, `ToldConsistently`, `NoVoteForgotten`, `PaidBetFrozen`.

**PoolPayments** (`PoolPaymentsProofs`). `PaymentsInv` holds the invariants of `PoolServer` and, in layers on them:

* `ServerInv` and `Serving`: a request serves a payment or a user; in the former case it takes the steps of GetPool and ends with a result. `Tells`: an
  event of a resolution still fits the bets that its request counted.
* `PoolsAndBets`, `Intents`, `OwnAccounts`: pools do not share accounts, bets are on pools that exist, marks and intents are for bets that were placed, and a bet is
  paid out to its user. `OwnAccounts` rests on what `PaymentsAssumption` says of payout accounts, which MakeBet checks (`pool/server.go:478`).
* `PotsHold`: until a pool is distributed, its account holds the buy-ins of all matched bets. It gives `Covered`: the first
  distribution shares at least the buy-ins it counted, which is what `PromiseIsPaid` asks for.
* `Distributions`: what a distribution keeps of its request is still in that request (`Allowed`), and it was fair (`Fair`). That the plan pays nobody but the backed bets is a count:
  as many different destinations as bets to pay out, each of them among the destinations. An upper bound on a share
  follows from the lower bounds on all and the total.
* `Feed`: a request for a feed that was shown a distribution counts, once it has read the bets, at least those that the distribution
  counted, for marks stay. It is the heart of `FeedReadable`.
* `Reporting` and `Updates` (for `LastUpdateIsComplete`): when all payments of a pool were submitted for report, the report
  submitted last reads the bets after all intents were stored, so it counts them all (`Catches`), unless it fails without an update.

Sums of plans are a recursive function. What is needed of them (a sum of naturals is a natural; where each amount is at least the even share,
none exceeds the total without that share for each of the others) is proved by taking the least length that breaks it, with `LeastOf`, which rests on
the library's theorem on well-founded relations: an induction without an operator parameter. Proved: `PaymentsTypeOK`, `SharesAreFair`,
`PromiseIsPaid`, `PaidAsTold`, `FeedReadable`, `LastUpdateIsComplete`; and beside payments all the properties of `PoolServer`, with `ImplementsLifecycle`.

The theorems are about `PaymentsSpec` and `PagingSpec`, which start with empty tables; the runs start from states that these reach.

Some of what TLC had accepted on small instances did not survive the attempt to prove it. `SharesAreFair`, `PaidAsTold` and `FeedReadable` once
compared a distribution with the outcomes that the table has now; a payment could be reported twice; and a walk through no pools left a finished request
that had never been called. The modules have been corrected accordingly.

**EventStreams.** The row names a server, the lease belongs to
a handler; the invariant links them. `HasMutex`: a handler past the mutex holds it.
`OwnerWroteRecord`: the owner of the row runs at the row's address and has not cleaned up.
`OwnsRecordAtHome`: a row at the address of a serving handler is its own, for anyone else there would hold the mutex.
`HasRecordInTime`: until its acknowledged expiry passes, the row of a serving handler is as it wrote it. Hence a
handler that deletes by address ends its own lease or that of a lost one. Proved:
`TypeOK`, `OpenIsRegistered`, `ServingIsReachable`, `NoOrphanRecord`, `ImplementsLease`.

**EventDelivery.** Each of its actions is a step of `EventStreams` or leaves that state alone, which gives `ImplementsStreams`
and with it all invariants of `EventStreams` (`EventDeliveryProofs`). `DeliveryInv` adds the types and `TargetsKnown`: a task that has found
a stream or a server works for a handler of that server that exists. `WaitsOnOpenChannel` needs the two directions at once: a
waiting task holds the lock, and a lock that is held is held by a waiting task; the first keeps others from closing the stream, the second
lets `Stop` and `TimeOut` release what they must.

*Arrival.* `LetThrough` (for `UpdateSentOnce`): on each stream, the counts that were accepted and those that wait for room
after the detector are all different and at most the detector's. `SteadyInv` (for `SteadyStreamIsServed`): as long as the
stream that was up at the publication is up, and no task of the event has given up, one of its tasks is on the way to it, or it has been served; with
`ServingIsReachable` of `EventStreams`, the look-up cannot miss it. `CopiesInv` (for `CopiesHaveCause`): the copies of an
event and the tasks that may yet make one are together at most one more than the lost replies. Proved: `DeliveryTypeOK`,
`ImplementsStreams`, `WaitsOnOpenChannel`, `UpdateSentOnce`, `SteadyStreamIsServed`, `CopiesHaveCause`.

**Users.** `RequestsShape` says for each request what its step has established: whom it acts for, what it has read, which answers it may
give; `TablesOK` gives tables and caches their contents (`UsersProofs`). On these rest six small invariants
(`UserTablesProofs`), each with the requests between a check and a write as its interesting part:

* `KeysInv` (`KeysAgree`): keys are bound once; a request acts for the user of its key, or, in a Register that has not
  bound its key, for a user id that no other request and no table has; caches of keys are empty or right.
* `FlagsInv` (`CachesAgree`, `RegisteredNotDenied`): a cached registration, and one a request has just read, is in the table.
* `ReceiptsInv` (`ReceiptsRegisterOnce`): the registered hold a receipt or a key of their own; a request past the
  verifier has a valid receipt; one that was refused for a taken receipt finds its buyer in the table.
* `LinksInv` (`LinksStand`) and `AddressesInv` (`CheckedAddressStays`): what a done request wrote is still there, or a done request took its place.
* `CleanUpsInv` (`TokenKept`): the tokens that a cleanup has yet to delete are gone for Firebase, for good.

The theorems are about `Spec`, which starts with empty tables; the run `users` starts with tables that a scenario needs and lets
each scenario ask its own calls.

*Only model-checked:* `NewestGetsItsTurn`, liveness under fairness, which is out of the prover's reach together with ENABLED. Every other
property of a passing run is stated by a theorem. The four runs that expect a violation are
counterexamples, which only TLC can show.

## 6. Plan and what is not modelled

What could follow: an event delivery with two updates over streams that replace one another, if the state space of a handler can be cut
down to what tasks see of it, and its liveness; and one module with payments and walks together, of which each is
proved beside the pool service but not beside the other.

Not modelled:

* `GetProfile` and other reads that assemble an answer from unrelated statements; nothing in the code says they show one moment.
* The staff flag and its cache: the flag is set by hand in the database. The choice of on-ramp providers and
  GetUnauthenticatedUserFlags: functions of the platform and of the country of a phone number, without state.
* `Cancel` and `IsVerificationActive` of the verifiers: no handler calls them. The verifiers of receipts: external.
* The cache of connections to other servers (`event/client.go`): it changes how a call fails, and every call may fail.
* The pool of database connections: it belongs to pgxpool, and its size to the deployment.
* The in-memory stores: they stand in for Postgres in tests.
* The activity feed beyond distributions: paging through Code's history and formatting it.
* Anti-spam, airdrops, swaps, geyser, third-party tokens (policies without state, or calls that are passed on), localization
  and encodings (formatting). The Code payment system, Twilio, Firebase, app stores and X beyond what they answer.
