----------------------------- MODULE PoolPaging -----------------------------
(***************************************************************************)
(* GetPagedPools, beside the requests of PoolServer: a client walks        *)
(* through its pools page by page.  A page is a read of the user's member  *)
(* rows in the order of their ids, and for each of them getProtoPool, that *)
(* is, the steps of GetPool.  The next call carries the id of the last     *)
(* row as its paging token.                                                *)
(*                                                                         *)
(* A row gets its id from a sequence when it is inserted and is seen when  *)
(* its transaction commits: rows may appear in any order of ids.  Ids are  *)
(* compared among the rows of one user only, and numbered per user here.   *)
(***************************************************************************)
EXTENDS PoolServer, Sequences, Functions

CONSTANTS
    Walks,          \* the walks clients make: whose pools, from which end, and
                    \* how many of them on a page
    MaxId           \* bound on the ids of the member rows of a user

Walk == [user: User, newestFirst: BOOLEAN, size: Nat \ {0}]
ASSUME WalksAssumption == Walks \subseteq Walk /\ MaxId \in Nat

VARIABLES
    memberId,       \* the "id" column of the member rows, 0 without a row
    walk,           \* walk[r]: the walk that r serves, and what is left of its
                    \* page; nothing is once a call is answered NOT_FOUND
    passed,         \* history, passed[r]: the pools the walk has come past
    since           \* history, since[r]: the user's pools when it began

walkVars == <<walk, passed, since>>
pagingVars == <<vars, memberId, walkVars>>

PoolsOf(u) == {p \in Pool : <<p, u>> \in member}

\* Mutants, for the runs: each is a plausible slip in the definition whose
\* name it extends.
BeyondInclusive(newestFirst, id, token) ==
    IF newestFirst THEN id <= token ELSE id >= token

\* AND "id" > token, or "id" < token.
Beyond(newestFirst, id, token) ==
    IF newestFirst THEN id < token ELSE id > token

\* Pool q comes after p, by the ids of the user's rows.
After(w, q, p) ==
    Beyond(w.newestFirst, memberId[<<q, w.user>>], memberId[<<p, w.user>>])
First(w, p, page) == p \in page /\ \A q \in page \ {p} : After(w, q, p)

\* dbGetPagedMembers: of the rows that are left, the first ones up to a limit.
Page(w, left) ==
    {p \in left : Cardinality({q \in left : After(w, p, q)}) < w.size}

\* The pools of a page are assembled one after the other, each anew.
GetProtoPool(r, w, page) ==
    /\ walk' = [walk EXCEPT ![r] = [asked |-> w, page |-> page]]
    /\ \E p \in page :
          /\ First(w, p, page)
          /\ call' = [call EXCEPT ![r] =
                [op |-> "GetPool", user |-> w.user, pool |-> p, bet |-> None,
                 choice |-> "unknown", account |-> None, at |-> None]]
    /\ seenPool' = [seenPool EXCEPT ![r] = None]
    /\ bets' = [bets EXCEPT ![r] = NoBets]
    /\ reply' = [reply EXCEPT ![r] = "none"]
    /\ Goto(r, "read_pool")
    /\ UNCHANGED <<store, intent, todo, paying, told, memberId>>

\* A call of GetPagedPools; the walk is over when there are no more rows.
GetPagedPools(r, w, left) ==
    \/ Page(w, left) # {} /\ GetProtoPool(r, w, Page(w, left))
    \/ /\ Page(w, left) = {}
       /\ walk' = [walk EXCEPT ![r] = [asked |-> w, page |-> {}]]
       /\ UNCHANGED <<vars, memberId>>

BeginWalk(r, w) ==
    /\ pc[r] = "idle" /\ walk[r] = None
    /\ GetPagedPools(r, w, PoolsOf(w.user))
    /\ since' = [since EXCEPT ![r] = PoolsOf(w.user)]
    /\ passed' = [passed EXCEPT ![r] = <<>>]

\* Once a pool is assembled, the next one of the page; or the next page, of the
\* rows beyond the last one.
NextPool(r) ==
    LET w == walk[r].asked
        page == walk[r].page
    IN  /\ pc[r] = "done" /\ reply[r] = "OK" /\ walk[r] # None
        /\ \E p \in page :
              /\ First(w, p, page)
              /\ \/ page # {p} /\ GetProtoPool(r, w, page \ {p})
                 \/ /\ page = {p}
                    /\ GetPagedPools(r, w, {q \in PoolsOf(w.user) : After(w, q, p)})
              /\ passed' = [passed EXCEPT ![r] = Append(@, p)]
        /\ UNCHANGED since

\* A member row that commits has any id that is not taken.
NumberMember ==
    LET Taken(u) == {memberId[<<p, u>>] : p \in Pool}
    IN  \/ member' = member /\ UNCHANGED memberId
        \/ \E p \in Pool, u \in User : \E id \in 1..MaxId \ Taken(u) :
              /\ <<p, u>> \in member' \ member
              /\ memberId' = [memberId EXCEPT ![<<p, u>>] = id]
-----------------------------------------------------------------------------
PagingInit ==
    /\ Init
    /\ memberId = [row \in Pool \X User |-> 0]
    /\ walk = [r \in Req |-> None]
    /\ passed = [r \in Req |-> <<>>]
    /\ since = [r \in Req |-> {}]

Serve(r) == Step(r) \/ Reject(r) \/ Fail(r)

PagingStep(calls, walks) ==
    \/ \E r \in Req : Serve(r) /\ NumberMember /\ UNCHANGED walkVars
    \/ \E r \in Req, c \in calls : /\ Begin(r, c) /\ walk[r] = None
                                   /\ UNCHANGED <<memberId, walkVars>>
    \/ \E b \in Bet : /\ IntentSubmitted(b) \/ IntentRevoked(b)
                      /\ UNCHANGED <<memberId, walkVars>>
    \/ \E r \in Req, w \in walks : BeginWalk(r, w)
    \/ \E r \in Req : NextPool(r)

PagingNext == PagingStep(Calls, Walks)
PagingSpec == PagingInit /\ [][PagingNext]_pagingVars
-----------------------------------------------------------------------------
(* Properties *)

\* A walk from page to page comes past no pool twice, and past every pool that
\* was the user's when it began, from whichever end and although other rows
\* commit meanwhile with ids on either side of the token
\* (pool/postgres/model.go:533-560, pool/server.go:232-262).  Pools that become
\* the user's later may be missed.
WalkMissesNothing ==
    \A r \in Req : walk[r] # None =>
        /\ IsInjective(passed[r])
        /\ walk[r].page = {} => since[r] \subseteq Range(passed[r])
=============================================================================
