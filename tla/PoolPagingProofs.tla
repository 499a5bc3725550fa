-------------------------- MODULE PoolPagingProofs --------------------------
(***************************************************************************)
(* Proofs about PoolPaging, for any number of pools, users and walks, and  *)
(* pages of any size.                                                      *)
(***************************************************************************)
EXTENDS PoolPaging, PoolBetsProofs

-----------------------------------------------------------------------------
(* The inductive invariant *)

\* The rows of a user have ids of their own.
MembersAreNumbered ==
    /\ member \subseteq Pool \X User /\ IsFiniteSet(member)
    /\ memberId \in [Pool \X User -> 0..MaxId]
    /\ \A u \in User : \A p, q \in PoolsOf(u) :
          memberId[<<p, u>>] = memberId[<<q, u>>] => p = q

WalksTypeOK ==
    /\ walk \in [Req -> [asked: Walk, page: SUBSET Pool] \cup {None}]
    /\ passed \in [Req -> Seq(Pool)] /\ since \in [Req -> SUBSET Pool]

\* A walk has come past pools that are all before those on its page; and each
\* of the pools it began with is among the former, among the latter, or after
\* these.
OnItsWay(r) ==
    LET w == walk[r].asked
        page == walk[r].page
        seen == Range(passed[r])
    IN  walk[r] # None =>
            /\ page \cup seen \cup since[r] \subseteq PoolsOf(w.user)
            /\ IsInjective(passed[r])
            /\ \A p \in page, q \in seen : After(w, p, q)
            /\ \A q \in since[r] \ seen :
                  page # {} /\ (q \in page \/ \A p \in page : After(w, q, p))

WalksInv == MembersAreNumbered /\ WalksTypeOK /\ \A r \in Req : OnItsWay(r)

-----------------------------------------------------------------------------
(* Pages *)

\* The rows of a user have an order.
LEMMA AfterIsOrder ==
    ASSUME MembersAreNumbered, NEW w \in Walk,
           NEW p \in PoolsOf(w.user), NEW q \in PoolsOf(w.user), NEW s \in PoolsOf(w.user)
    PROVE  /\ ~After(w, p, p)
           /\ After(w, p, q) /\ After(w, q, s) => After(w, p, s)
           /\ p # q => After(w, p, q) \/ After(w, q, p)
  <1>1. w.user \in User /\ p \in Pool /\ q \in Pool /\ s \in Pool
    BY DEF Walk, PoolsOf
  <1>2. /\ memberId[<<p, w.user>>] \in Nat /\ memberId[<<q, w.user>>] \in Nat
        /\ memberId[<<s, w.user>>] \in Nat
    BY <1>1, WalksAssumption DEF MembersAreNumbered
  <1>3. p # q => memberId[<<p, w.user>>] # memberId[<<q, w.user>>]
    BY <1>1 DEF MembersAreNumbered
  <1> QED BY <1>2, <1>3 DEF After, Beyond

LEMMA PoolsAreFinite ==
    ASSUME MembersAreNumbered, NEW u
    PROVE  IsFiniteSet(PoolsOf(u))
  <1> DEFINE pools == {row[1] : row \in member}
             f == [row \in member |-> row[1]]
  <1>1. IsFiniteSet(pools)
    <2>1. f \in Surjection(member, pools)
      BY DEF Surjection
    <2> HIDE DEF f, pools
    <2> QED BY <2>1, FS_Surjection DEF MembersAreNumbered
  <1>2. PoolsOf(u) \subseteq pools
    BY DEF PoolsOf
  <1> QED BY <1>1, <1>2, FS_Subset

\* Among the rows that are left one has all the others after it.
LEMMA FirstOfLeft ==
    ASSUME MembersAreNumbered, NEW w \in Walk,
           NEW left \in SUBSET PoolsOf(w.user), left # {}
    PROVE  \E p \in left : \A q \in left : ~After(w, p, q)
  <1> DEFINE Id(p) == memberId[<<p, w.user>>]
             Rank(p) == IF w.newestFirst THEN MaxId - Id(p) ELSE Id(p)
             T == {Rank(p) : p \in left}
  <1>1. \A p \in left : Id(p) \in 0..MaxId /\ MaxId \in Nat
    BY WalksAssumption DEF MembersAreNumbered, PoolsOf, Walk
  <1>2. \A p \in left : Rank(p) \in Nat
    BY <1>1
  <1>3. T \in SUBSET Nat /\ T # {}
    BY <1>2
  <1>4. PICK n \in T : \A k \in T : ~(k < n)
    BY <1>3, LeastOf
  <1>5. PICK p \in left : n = Rank(p)
    BY <1>4
  <1>6. \A q \in left : ~(Rank(q) < Rank(p))
    BY <1>4, <1>5
  <1>7. ASSUME NEW q \in left, After(w, p, q) PROVE FALSE
    <2>1. IF w.newestFirst THEN Id(p) < Id(q) ELSE Id(p) > Id(q)
      BY <1>7 DEF After, Beyond
    <2> QED BY <1>1, <1>6, <2>1
  <1> QED BY <1>7

\* A page takes from the beginning of what is left, and something if anything
\* is left.
LEMMA PageFacts ==
    ASSUME MembersAreNumbered, NEW w \in Walk, NEW left \in SUBSET PoolsOf(w.user)
    PROVE  /\ Page(w, left) \subseteq left
           /\ \A q \in left \ Page(w, left), p \in Page(w, left) : After(w, q, p)
           /\ left # {} => Page(w, left) # {}
  <1> DEFINE Before(p) == {q \in left : After(w, p, q)}
  <1>1. Page(w, left) = {p \in left : Cardinality(Before(p)) < w.size}
    BY DEF Page
  <1>2. \A p : IsFiniteSet(Before(p)) /\ Cardinality(Before(p)) \in Nat
    <2>1. IsFiniteSet(left)
      BY PoolsAreFinite, FS_Subset
    <2> QED BY <2>1, FS_Subset, FS_CardinalityType
  <1>3. w.size \in Nat \ {0}
    BY DEF Walk
  <1>4. ASSUME NEW q \in left \ Page(w, left), NEW p \in Page(w, left) PROVE After(w, q, p)
    <2> SUFFICES ASSUME ~After(w, q, p) PROVE FALSE
      OBVIOUS
    <2>1. p \in left /\ p # q
      BY <1>1
    <2>2. After(w, p, q)
      BY <2>1, AfterIsOrder
    <2>3. Before(q) \subseteq Before(p)
      BY <2>1, <2>2, AfterIsOrder
    <2>4. Cardinality(Before(q)) <= Cardinality(Before(p))
      BY <1>2, <2>3, FS_Subset
    <2> HIDE DEF Before
    <2>5. Cardinality(Before(p)) < w.size /\ ~(Cardinality(Before(q)) < w.size)
      BY <1>1
    <2> QED BY <1>2, <1>3, <2>4, <2>5
  <1>5. ASSUME left # {} PROVE Page(w, left) # {}
    <2>1. PICK p \in left : \A q \in left : ~After(w, p, q)
      BY <1>5, FirstOfLeft
    <2>2. Before(p) = {}
      BY <2>1
    <2>3. Cardinality(Before(p)) = 0
      BY <2>2, FS_EmptySet
    <2> HIDE DEF Before
    <2> QED BY <1>1, <1>3, <2>3
  <1> QED BY <1>1, <1>4, <1>5

\* A sequence in which nothing occurs twice may be extended by something new.
LEMMA AppendNew ==
    ASSUME NEW S, NEW s \in Seq(S), NEW x \in S
    PROVE  /\ Append(s, x) \in Seq(S)
           /\ Range(Append(s, x)) = Range(s) \cup {x}
           /\ IsInjective(s) /\ x \notin Range(s) => IsInjective(Append(s, x))
  <1> DEFINE n == Len(s)
             t == Append(s, x)
  <1>1. /\ n \in Nat /\ t \in Seq(S) /\ DOMAIN s = 1..n /\ DOMAIN t = 1..(n + 1)
        /\ \A i \in 1..n : t[i] = s[i]
        /\ t[n + 1] = x
    OBVIOUS
  <1> HIDE DEF n, t
  <1>2. \A i \in 1..(n + 1) : i \in 1..n \/ i = n + 1
    BY <1>1
  <1>3. 1..n \subseteq 1..(n + 1) /\ n + 1 \in 1..(n + 1)
    BY <1>1
  <1>4. Range(t) = Range(s) \cup {x}
    BY <1>1, <1>2, <1>3 DEF Range
  <1>5. ASSUME IsInjective(s), x \notin Range(s) PROVE IsInjective(t)
    BY <1>1, <1>2, <1>3, <1>5 DEF IsInjective, Range
  <1> QED BY <1>1, <1>4, <1>5 DEF t

-----------------------------------------------------------------------------
(* Rows *)

\* A step of the pool service adds one row, if any.
LEMMA RowsAdded ==
    ASSUME NEW r \in Req, Serve(r)
    PROVE  member' = member \/ \E row : member' = member \cup {row}
  <1>1. CASE CreatePool(r)
    BY <1>1 DEF CreatePool
  <1>2. CASE InsertBet(r)
    BY <1>2 DEF InsertBet
  <1>3. CASE ~CreatePool(r) /\ ~InsertBet(r)
    BY <1>3 DEF Serve, Step, store, local, Reject, Fail, CloseReadPool, ClosePool,
         ResolveReadPool, ResolvePool, NotifyReadPool, NotifyPoolResolution,
         MakeBetReadPool, GetBetByUser, KeepBet, UpdateBetOutcome, CountBets,
         GetPoolReadPool, GetBetsByPool, ReturnPool, MarkBetAsPaid, GetIntent
  <1> QED BY <1>1, <1>2, <1>3

\* Rows stay, with their ids.
RowsStay ==
    /\ member \subseteq member'
    /\ \A row \in member : memberId'[row] = memberId[row]

LEMMA RowsStep ==
    ASSUME MembersAreNumbered, [PagingNext]_pagingVars
    PROVE  MembersAreNumbered' /\ RowsStay
  <1>1. ASSUME NEW r \in Req, Serve(r), NumberMember
        PROVE  MembersAreNumbered' /\ RowsStay
    <2>1. CASE member' = member /\ memberId' = memberId
      BY <2>1 DEF MembersAreNumbered, RowsStay, PoolsOf
    <2>2. ASSUME NEW p \in Pool, NEW u \in User, NEW id \in 1..MaxId,
                 id \notin {memberId[<<q, u>>] : q \in Pool},
                 <<p, u>> \in member' \ member,
                 memberId' = [memberId EXCEPT ![<<p, u>>] = id]
          PROVE  MembersAreNumbered' /\ RowsStay
      <3>1. member' = member \cup {<<p, u>>}
        BY <1>1, <2>2, RowsAdded
      <3>2. IsFiniteSet(member')
        BY <3>1, FS_AddElement DEF MembersAreNumbered
      <3>3. /\ memberId' \in [Pool \X User -> 0..MaxId]
            /\ memberId'[<<p, u>>] = id
            /\ \A row \in Pool \X User : row # <<p, u>> => memberId'[row] = memberId[row]
        BY <2>2, WalksAssumption DEF MembersAreNumbered
      <3>4. ASSUME NEW v \in User, NEW q \in PoolsOf(v)', NEW s \in PoolsOf(v)',
                   memberId'[<<q, v>>] = memberId'[<<s, v>>]
            PROVE  q = s
        <4>1. /\ q \in Pool /\ s \in Pool
              /\ <<q, v>> = <<p, u>> \/ q \in PoolsOf(v)
              /\ <<s, v>> = <<p, u>> \/ s \in PoolsOf(v)
          BY <3>1 DEF PoolsOf
        <4>2. \A x \in Pool : x # p => memberId'[<<x, u>>] # id
          BY <2>2, <3>3
        <4>3. CASE <<q, v>> = <<p, u>> \/ <<s, v>> = <<p, u>>
          BY <3>3, <3>4, <4>1, <4>2, <4>3
        <4>4. CASE <<q, v>> # <<p, u>> /\ <<s, v>> # <<p, u>>
          BY <3>3, <3>4, <4>1, <4>4 DEF MembersAreNumbered
        <4> QED BY <4>3, <4>4
      <3> QED BY <2>2, <3>1, <3>2, <3>3, <3>4 DEF MembersAreNumbered, RowsStay
    <2> QED BY <1>1, <2>1, <2>2 DEF NumberMember
  <1>2. ASSUME UNCHANGED <<member, memberId>> PROVE MembersAreNumbered' /\ RowsStay
    BY <1>2 DEF MembersAreNumbered, RowsStay, PoolsOf
  <1>3. ASSUME NEW r \in Req, NEW w, NEW left, GetPagedPools(r, w, left)
        PROVE  UNCHANGED <<member, memberId>>
    BY <1>3 DEF GetPagedPools, GetProtoPool, store, vars
  <1>4. ASSUME NEW r \in Req, NextPool(r) PROVE UNCHANGED <<member, memberId>>
    BY <1>3, <1>4 DEF NextPool, GetProtoPool, store
  <1>5. ASSUME NEW r \in Req, NEW w \in Walks, BeginWalk(r, w)
        PROVE  UNCHANGED <<member, memberId>>
    BY <1>3, <1>5 DEF BeginWalk
  <1>6. CASE \E r \in Req, c \in Calls : Begin(r, c) /\ UNCHANGED memberId
    BY <1>2, <1>6 DEF Begin, store
  <1>7. CASE \E b \in Bet : /\ IntentSubmitted(b) \/ IntentRevoked(b)
                            /\ UNCHANGED memberId
    BY <1>2, <1>7 DEF IntentSubmitted, IntentRevoked, store
  <1>8. CASE UNCHANGED pagingVars
    BY <1>2, <1>8 DEF pagingVars, vars
  <1> QED BY <1>1, <1>2, <1>4, <1>5, <1>6, <1>7, <1>8 DEF PagingNext, PagingStep

\* Rows that stay keep their order.
LEMMA OrderStays ==
    ASSUME MembersAreNumbered, RowsStay, NEW w \in Walk
    PROVE  /\ PoolsOf(w.user) \subseteq PoolsOf(w.user)'
           /\ \A p, q \in PoolsOf(w.user) : After(w, p, q)' <=> After(w, p, q)
  BY DEF RowsStay, PoolsOf, After

-----------------------------------------------------------------------------
(* Walks *)

\* What a page makes of a walk: nothing that is left is before it.
Opens(r, w, left, page) ==
    /\ walk' = [walk EXCEPT ![r] = [asked |-> w, page |-> page]]
    /\ page \subseteq left /\ (left # {} => page # {})
    /\ \A q \in left \ page, p \in page : After(w, q, p)
    /\ UNCHANGED <<member, memberId>>

LEMMA OpensPage ==
    ASSUME MembersAreNumbered, NEW r \in Req, NEW w \in Walk,
           NEW left \in SUBSET PoolsOf(w.user), GetPagedPools(r, w, left)
    PROVE  \E page : Opens(r, w, left, page)
  <1>1. walk' = [walk EXCEPT ![r] = [asked |-> w, page |-> Page(w, left)]]
        /\ UNCHANGED <<member, memberId>>
    BY DEF GetPagedPools, GetProtoPool, vars, store
  <1> QED BY <1>1, PageFacts DEF Opens

\* Walks that others make.
LEMMA WalksRest ==
    ASSUME WalksTypeOK, NEW r \in Req, OnItsWay(r), MembersAreNumbered, RowsStay,
           walk'[r] = walk[r], passed'[r] = passed[r], since'[r] = since[r]
    PROVE  OnItsWay(r)'
  <1> DEFINE w == walk[r].asked
  <1>1. CASE walk[r] # None
    <2>1. w \in Walk
      BY <1>1 DEF WalksTypeOK
    <2>2. /\ PoolsOf(w.user) \subseteq PoolsOf(w.user)'
          /\ \A p, q \in PoolsOf(w.user) : After(w, p, q)' <=> After(w, p, q)
      BY <2>1, OrderStays
    <2>3. /\ walk[r].page \cup Range(passed[r]) \cup since[r] \subseteq PoolsOf(w.user)
          /\ IsInjective(passed[r])
          /\ \A p \in walk[r].page, q \in Range(passed[r]) : After(w, p, q)
          /\ \A q \in since[r] \ Range(passed[r]) :
                walk[r].page # {} /\ (q \in walk[r].page
                                       \/ \A p \in walk[r].page : After(w, q, p))
      BY <1>1 DEF OnItsWay
    <2>4. \A p \in walk[r].page : /\ \A q \in Range(passed[r]) : After(w, p, q)'
                                  /\ \A q \in since[r] : After(w, q, p)' <=> After(w, q, p)
      BY <2>2, <2>3
    <2>5. /\ walk[r].page \cup Range(passed[r]) \cup since[r] \subseteq PoolsOf(w.user)'
          /\ \A p \in walk[r].page, q \in Range(passed[r]) : After(w, p, q)'
          /\ \A q \in since[r] \ Range(passed[r]) :
                walk[r].page # {} /\ (q \in walk[r].page
                                       \/ \A p \in walk[r].page : After(w, q, p)')
      BY <2>2, <2>3, <2>4
    <2>6. walk'[r].asked = w /\ walk'[r].page = walk[r].page
          /\ Range(passed[r])' = Range(passed[r]) /\ IsInjective(passed[r])'
      BY <2>3
    <2> QED BY <1>1, <2>5, <2>6 DEF OnItsWay, After
  <1>2. CASE walk[r] = None
    BY <1>2 DEF OnItsWay
  <1> QED BY <1>1, <1>2

LEMMA BeginKeepsOnItsWay ==
    ASSUME WalksInv, NEW r \in Req, NEW w \in Walks, BeginWalk(r, w)
    PROVE  WalksTypeOK' /\ OnItsWay(r)'
  <1>1. w \in Walk
    BY WalksAssumption
  <1> PICK left : left = PoolsOf(w.user)
    OBVIOUS
  <1>2. left \subseteq Pool
    BY DEF PoolsOf
  <1>3. PICK page : Opens(r, w, left, page)
    BY <1>1, OpensPage DEF BeginWalk, WalksInv
  <1>4. page \subseteq left /\ (left # {} => page # {})
        /\ \A q \in left \ page, p \in page : After(w, q, p)
    BY <1>3 DEF Opens
  <1>5. /\ walk' = [walk EXCEPT ![r] = [asked |-> w, page |-> page]]
        /\ since' = [since EXCEPT ![r] = left]
        /\ passed' = [passed EXCEPT ![r] = <<>>]
        /\ UNCHANGED <<member, memberId>>
    BY <1>3 DEF Opens, BeginWalk
  <1>6. WalksTypeOK'
    <2>1. [asked |-> w, page |-> page] \in [asked: Walk, page: SUBSET Pool]
      BY <1>1, <1>2, <1>4
    <2>2. <<>> \in Seq(Pool)
      OBVIOUS
    <2> QED BY <1>2, <1>5, <2>1, <2>2 DEF WalksInv, WalksTypeOK
  <1>7. /\ walk'[r].asked = w /\ walk'[r].page = page
        /\ since'[r] = left /\ passed'[r] = <<>>
    BY <1>1, <1>5 DEF WalksInv, WalksTypeOK
  <1>8. Range(<<>>) = {} /\ IsInjective(<<>>)
    BY DEF Range, IsInjective
  <1>9. /\ PoolsOf(w.user)' = left
        /\ \A p, q : After(w, p, q)' <=> After(w, p, q)
    BY <1>5 DEF PoolsOf, After
  <1>10. Range(passed[r])' = {} /\ IsInjective(passed[r])'
    BY <1>7, <1>8
  <1> QED BY <1>4, <1>6, <1>7, <1>9, <1>10 DEF OnItsWay, After

\* The pool that a walk comes past is the first one of its page.
LEMMA Passes ==
    ASSUME WalksInv, NEW r \in Req, walk[r] # None, NEW p \in walk[r].page,
           First(walk[r].asked, p, walk[r].page), passed' = [passed EXCEPT ![r] = Append(@, p)]
    PROVE  /\ passed' \in [Req -> Seq(Pool)]
           /\ Range(passed[r])' = Range(passed[r]) \cup {p}
           /\ IsInjective(passed[r])'
           /\ walk[r].asked \in Walk /\ p \in PoolsOf(walk[r].asked.user)
           /\ \A q \in walk[r].page \ {p} : After(walk[r].asked, q, p)
  <1>1. walk[r].asked \in Walk /\ p \in Pool /\ passed[r] \in Seq(Pool)
        /\ passed'[r] = Append(passed[r], p)
    BY DEF WalksInv, WalksTypeOK
  <1>2. /\ p \in PoolsOf(walk[r].asked.user) /\ IsInjective(passed[r])
        /\ \A q \in Range(passed[r]) : After(walk[r].asked, p, q)
    BY DEF WalksInv, OnItsWay
  <1>3. p \notin Range(passed[r])
    BY <1>1, <1>2, AfterIsOrder DEF WalksInv
  <1>4. passed' \in [Req -> Seq(Pool)]
    BY <1>1, AppendNew DEF WalksInv, WalksTypeOK
  <1>5. Range(passed'[r]) = Range(passed[r]) \cup {p} /\ IsInjective(passed'[r])
    BY <1>1, <1>2, <1>3, AppendNew
  <1> QED BY <1>1, <1>2, <1>4, <1>5 DEF First

LEMMA NextKeepsOnItsWay ==
    ASSUME WalksInv, NEW r \in Req, NextPool(r)
    PROVE  WalksTypeOK' /\ OnItsWay(r)'
  <1> PICK w, page : w = walk[r].asked /\ page = walk[r].page
    OBVIOUS
  <1>1. PICK p \in page :
            /\ First(w, p, page) /\ passed' = [passed EXCEPT ![r] = Append(@, p)]
            /\ \/ page # {p} /\ GetProtoPool(r, w, page \ {p})
               \/ /\ page = {p}
                  /\ GetPagedPools(r, w, {q \in PoolsOf(w.user) : After(w, q, p)})
    BY DEF NextPool
  <1>2. walk[r] # None /\ since' = since
    BY DEF NextPool
  <1>3. /\ passed' \in [Req -> Seq(Pool)]
        /\ Range(passed[r])' = Range(passed[r]) \cup {p} /\ IsInjective(passed[r])'
        /\ w \in Walk /\ p \in PoolsOf(w.user)
        /\ \A q \in page \ {p} : After(w, q, p)
    BY <1>1, <1>2, Passes
  <1> PICK seen, began : seen = Range(passed[r]) /\ began = since[r]
    OBVIOUS
  <1>4. /\ page \subseteq PoolsOf(w.user) /\ seen \subseteq PoolsOf(w.user)
        /\ began \subseteq PoolsOf(w.user) /\ PoolsOf(w.user) \subseteq Pool
        /\ \A x \in page, q \in seen : After(w, x, q)
        /\ \A q \in began \ seen : q \in page \/ \A x \in page : After(w, q, x)
    BY <1>2 DEF WalksInv, OnItsWay, PoolsOf
  \* What the walk turns to next.
  <1>5. PICK next :
            /\ walk' = [walk EXCEPT ![r] = [asked |-> w, page |-> next]]
            /\ UNCHANGED <<member, memberId>>
            /\ next \subseteq PoolsOf(w.user) /\ \A q \in next : After(w, q, p)
            /\ \A q \in began \ (seen \cup {p}) :
                  next # {} /\ (q \in next \/ \A x \in next : After(w, q, x))
    <2>1. CASE page # {p} /\ GetProtoPool(r, w, page \ {p})
      <3>1. walk' = [walk EXCEPT ![r] = [asked |-> w, page |-> page \ {p}]]
            /\ UNCHANGED <<member, memberId>> /\ page \ {p} # {}
        BY <1>1, <2>1 DEF GetProtoPool, store
      <3> QED BY <1>3, <1>4, <3>1
    <2>2. ASSUME page = {p}, NEW left, left = {q \in PoolsOf(w.user) : After(w, q, p)},
                 GetPagedPools(r, w, left)
          PROVE  \E next :
                    /\ walk' = [walk EXCEPT ![r] = [asked |-> w, page |-> next]]
                    /\ UNCHANGED <<member, memberId>>
                    /\ next \subseteq PoolsOf(w.user) /\ \A q \in next : After(w, q, p)
                    /\ \A q \in began \ (seen \cup {p}) :
                          next # {} /\ (q \in next \/ \A x \in next : After(w, q, x))
      <3>1. PICK next : Opens(r, w, left, next)
        BY <1>3, <2>2, OpensPage DEF WalksInv
      <3>2. \A q \in began \ (seen \cup {p}) : q \in left
        BY <1>4, <2>2
      <3> QED BY <2>2, <3>1, <3>2 DEF Opens
    <2> QED BY <1>1, <2>1, <2>2
  <1>6. WalksTypeOK'
    <2>1. [asked |-> w, page |-> next] \in [asked: Walk, page: SUBSET Pool]
      BY <1>3, <1>4, <1>5
    <2> QED BY <1>2, <1>3, <1>5, <2>1 DEF WalksInv, WalksTypeOK
  <1>7. /\ walk'[r].asked = w /\ walk'[r].page = next /\ since'[r] = began
        /\ Range(passed[r])' = seen \cup {p}
    BY <1>2, <1>3, <1>5 DEF WalksInv, WalksTypeOK
  <1>8. /\ PoolsOf(w.user)' = PoolsOf(w.user)
        /\ \A x, q : After(w, x, q)' <=> After(w, x, q)
    BY <1>5 DEF PoolsOf, After
  <1>9. ASSUME NEW x \in next, NEW q \in seen \cup {p} PROVE After(w, x, q)
    <2>1. x \in PoolsOf(w.user) /\ q \in PoolsOf(w.user) /\ After(w, x, p)
      BY <1>3, <1>4, <1>5
    <2>2. q = p \/ After(w, p, q)
      BY <1>4
    <2> QED BY <1>3, <2>1, <2>2, AfterIsOrder DEF WalksInv
  <1>10. walk'[r] # None =>
            /\ next \cup (seen \cup {p}) \cup began \subseteq PoolsOf(w.user)
            /\ \A q \in began \ (seen \cup {p}) :
                  next # {} /\ (q \in next \/ \A x \in next : After(w, q, x))
    BY <1>3, <1>4, <1>5
  <1> QED BY <1>3, <1>6, <1>7, <1>8, <1>9, <1>10 DEF OnItsWay, After

LEMMA WalksInvStep == WalksInv /\ [PagingNext]_pagingVars => WalksInv'
  <1> SUFFICES ASSUME WalksInv, [PagingNext]_pagingVars PROVE WalksInv'
    OBVIOUS
  <1>1. MembersAreNumbered' /\ RowsStay
    BY RowsStep DEF WalksInv
  <1>2. ASSUME UNCHANGED walkVars PROVE WalksInv'
    <2>1. ASSUME NEW r \in Req PROVE OnItsWay(r)'
      BY <1>1, <1>2, WalksRest DEF walkVars, WalksInv
    <2> QED BY <1>1, <1>2, <2>1 DEF walkVars, WalksInv, WalksTypeOK
  <1>3. ASSUME NEW r \in Req, WalksTypeOK', OnItsWay(r)',
               \A s \in Req : s # r => /\ walk'[s] = walk[s] /\ passed'[s] = passed[s]
                                       /\ since'[s] = since[s]
        PROVE  WalksInv'
    <2>1. ASSUME NEW s \in Req, s # r PROVE OnItsWay(s)'
      BY <1>1, <1>3, <2>1, WalksRest DEF WalksInv
    <2> QED BY <1>1, <1>3, <2>1 DEF WalksInv
  <1>4. ASSUME NEW r \in Req, NEW w \in Walks, BeginWalk(r, w) PROVE WalksInv'
    <2>1. WalksTypeOK' /\ OnItsWay(r)'
      BY <1>4, BeginKeepsOnItsWay
    <2>2. \A s \in Req : s # r => /\ walk'[s] = walk[s] /\ passed'[s] = passed[s]
                                  /\ since'[s] = since[s]
      BY <1>4 DEF BeginWalk, GetPagedPools, GetProtoPool, WalksInv, WalksTypeOK
    <2> QED BY <1>3, <2>1, <2>2
  <1>5. ASSUME NEW r \in Req, NextPool(r) PROVE WalksInv'
    <2>1. WalksTypeOK' /\ OnItsWay(r)'
      BY <1>5, NextKeepsOnItsWay
    <2>2. \A s \in Req : s # r => /\ walk'[s] = walk[s] /\ passed'[s] = passed[s]
                                  /\ since'[s] = since[s]
      BY <1>5 DEF NextPool, GetPagedPools, GetProtoPool, WalksInv, WalksTypeOK
    <2> QED BY <1>3, <2>1, <2>2
  <1> QED BY <1>2, <1>4, <1>5 DEF PagingNext, PagingStep, pagingVars

\* Walks are on their way, in the order of ids that stay, whatever rows are
\* committed beside them.
THEOREM PagingInvariance == PagingSpec => []WalksInv
  <1>1. ASSUME PagingInit PROVE WalksInv
    <2>1. member = {} /\ memberId \in [Pool \X User -> 0..MaxId]
          /\ walk = [r \in Req |-> None] /\ passed = [r \in Req |-> <<>>]
          /\ since = [r \in Req |-> {}]
      BY <1>1, WalksAssumption DEF PagingInit, Init
    <2>2. MembersAreNumbered
      BY <2>1, FS_EmptySet DEF MembersAreNumbered, PoolsOf
    <2>3. WalksTypeOK
      <3>1. <<>> \in Seq(Pool)
        OBVIOUS
      <3> QED BY <2>1, <3>1 DEF WalksTypeOK
    <2> QED BY <2>1, <2>2, <2>3 DEF WalksInv, OnItsWay
  <1> QED BY <1>1, WalksInvStep, PTL DEF PagingSpec

\* Whatever is inserted while a client walks from page to page, and with ids on
\* either side of its token, it comes past no pool twice and past every pool
\* that was the user's at its start.
THEOREM WalksMissNothing == PagingSpec => []WalkMissesNothing
  <1>1. WalksInv => WalkMissesNothing
    BY DEF WalksInv, OnItsWay, WalkMissesNothing
  <1> QED BY <1>1, PagingInvariance, PTL

-----------------------------------------------------------------------------
(* What the pool service promises it keeps beside walks *)

\* A request that serves a walk assembles a pool, with nothing left to do when
\* it has; or the user had none.
Assembling(r) ==
    walk[r] # None /\ pc[r] # "idle" =>
        /\ call[r].op = "GetPool"
        /\ pc[r] \in {"read_pool", "read_bets", "check_paid", "done"}
        /\ pc[r] # "done" => reply[r] = "none"
        /\ reply[r] = "OK" => todo[r] = {} /\ paying[r] = None

ServerInv ==
    /\ TypeOK /\ Inv /\ MembersAndBets /\ ToldInv
    /\ \A r \in Req : Assembling(r)

\* A request turns to a pool, the first of its walk or the next one.
TurnsTo(r, c) ==
    /\ \/ pc[r] = "idle"
       \/ pc[r] = "done" /\ todo[r] = {} /\ paying[r] = None
    /\ c \in Call /\ c.op = "GetPool"
    /\ call' = [call EXCEPT ![r] = c]
    /\ seenPool' = [seenPool EXCEPT ![r] = None]
    /\ bets' = [bets EXCEPT ![r] = NoBets]
    /\ reply' = [reply EXCEPT ![r] = "none"]
    /\ pc' = [pc EXCEPT ![r] = "read_pool"]
    /\ UNCHANGED <<store, intent, todo, paying, told>>

LEMMA TurnsRequest ==
    ASSUME TypeOK, Inv, NEW r \in Req, NEW c, TurnsTo(r, c)
    PROVE  /\ call'[r] = c /\ c \in Call /\ c.op = "GetPool"
           /\ pc'[r] = "read_pool" /\ reply'[r] = "none"
           /\ bets'[r] = NoBets /\ todo'[r] = {} /\ paying'[r] = None
           /\ \A s \in Req : s # r => Rests(s)
           /\ UNCHANGED <<poolRow, betRow, member, told>>
  <1>1. todo[r] = {} /\ paying[r] = None
    BY DEF TurnsTo, Inv, RequestInv, Called
  <1> QED BY <1>1 DEF TurnsTo, TypeOK, Rests, store

LEMMA TurnsKeeps ==
    ASSUME TypeOK, Inv, MembersAndBets, ToldInv, NEW r \in Req, NEW c, TurnsTo(r, c)
    PROVE  TypeOK' /\ Inv' /\ MembersAndBets' /\ ToldInv'
  <1>1. /\ call'[r] = c /\ c \in Call /\ c.op = "GetPool"
        /\ pc'[r] = "read_pool" /\ reply'[r] = "none"
        /\ bets'[r] = NoBets /\ todo'[r] = {} /\ paying'[r] = None
        /\ \A s \in Req : s # r => Rests(s)
        /\ UNCHANGED <<poolRow, betRow, member, told>>
    BY TurnsRequest
  <1>2. TypeOK'
    BY <1>1 DEF TurnsTo, TypeOK, Steps, Replies, NoBets
  <1>3. RequestInv(r)'
    BY <1>1, NoneIsNoRow
       DEF RequestInv, Called, CloserIsCurrent, ResolverIsCurrent, HasPool,
           HeldBetsAreStored, ChecksAreHeld, BettorHoldsBet, NoBets
  <1>4. ASSUME NEW s \in Req, s # r PROVE RequestInv(s)'
    <2>1. RequestInv(s) /\ Rests(s)
      BY <1>1, <1>4 DEF Inv
    <2> QED BY <2>1, <1>1
        DEF Rests, RequestInv, Called, CloserIsCurrent, ResolverIsCurrent, HasPool,
            HeldBetsAreStored, ChecksAreHeld, BettorHoldsBet, Exists
  <1>5. ResolvedAreClosed' /\ SignaturesMatch'
    BY <1>1 DEF Inv, ResolvedAreClosed, SignaturesMatch, Exists
  <1>6. MembersAndBets'
    BY <1>1 DEF MembersAndBets, BetsBy, BetsOf, Exists
  <1>7. \A s \in Req : Notifying(s)' => Notifying(s) /\ Rests(s)
    BY <1>1 DEF Notifying, Rests
  <1>8. ASSUME NEW s \in Req PROVE NotifierInv(s)'
    <2>1. NotifierInv(s)
      BY DEF ToldInv
    <2> QED BY <1>1, <1>7, <2>1 DEF NotifierInv, Rests, Notifying, Exists, ResolutionOf
  <1>9. ToldInv'
    BY <1>1, <1>8 DEF ToldInv, ToldOnce, ResolutionOf, Exists
  <1> QED BY <1>2, <1>3, <1>4, <1>5, <1>6, <1>9 DEF Inv

\* Every step is one of PoolServer, as it sees it, or turns to a pool.
LEMMA StepKinds ==
    ASSUME WalksInv, ServerInv, [PagingNext]_pagingVars
    PROVE  [Next]_vars \/ \E r \in Req, c \in Call : TurnsTo(r, c)
  <1>1. ASSUME NEW r \in Req, NEW w \in Walk, NEW page \in SUBSET Pool,
               GetProtoPool(r, w, page),
               \/ pc[r] = "idle"
               \/ pc[r] = "done" /\ reply[r] = "OK" /\ walk[r] # None
        PROVE  \E c \in Call : TurnsTo(r, c)
    <2>1. PICK p \in page :
              call' = [call EXCEPT ![r] =
                [op |-> "GetPool", user |-> w.user, pool |-> p, bet |-> None,
                 choice |-> "unknown", account |-> None, at |-> None]]
      BY <1>1 DEF GetProtoPool
    <2> DEFINE c == [op |-> "GetPool", user |-> w.user, pool |-> p, bet |-> None,
                     choice |-> "unknown", account |-> None, at |-> None]
    <2>2. c \in GetCall /\ c.op = "GetPool"
      BY DEF GetCall, Walk
    <2>3. c \in Call
      BY <2>2 DEF Call
    <2>4. call' = [call EXCEPT ![r] = c]
      BY <2>1
    <2> HIDE DEF c
    <2>5. pc[r] = "idle" \/ (pc[r] = "done" /\ todo[r] = {} /\ paying[r] = None)
      BY <1>1 DEF ServerInv, Assembling
    <2> QED BY <1>1, <2>2, <2>3, <2>4, <2>5 DEF TurnsTo, GetProtoPool, Goto
  <1>2. ASSUME NEW r \in Req, NEW w \in Walk, NEW left \in SUBSET PoolsOf(w.user),
               GetPagedPools(r, w, left),
               \/ pc[r] = "idle"
               \/ pc[r] = "done" /\ reply[r] = "OK" /\ walk[r] # None
        PROVE  UNCHANGED vars \/ \E c \in Call : TurnsTo(r, c)
    <2>1. Page(w, left) \in SUBSET Pool
      BY PageFacts DEF WalksInv, PoolsOf
    <2> QED BY <1>1, <1>2, <2>1 DEF GetPagedPools
  <1>3. ASSUME NEW r \in Req, NEW w \in Walks, BeginWalk(r, w)
        PROVE  UNCHANGED vars \/ \E c \in Call : TurnsTo(r, c)
    BY <1>2, <1>3, WalksAssumption DEF BeginWalk
  <1>4. ASSUME NEW r \in Req, NextPool(r)
        PROVE  UNCHANGED vars \/ \E c \in Call : TurnsTo(r, c)
    <2>1. /\ walk[r] # None /\ pc[r] = "done" /\ reply[r] = "OK"
          /\ walk[r].asked \in Walk /\ walk[r].page \in SUBSET Pool
      BY <1>4 DEF NextPool, WalksInv, WalksTypeOK
    <2> PICK w, page : w = walk[r].asked /\ page = walk[r].page
      OBVIOUS
    <2>2. PICK p \in page :
              \/ GetProtoPool(r, w, page \ {p})
              \/ GetPagedPools(r, w, {q \in PoolsOf(w.user) : After(w, q, p)})
      BY <1>4 DEF NextPool
    <2> QED BY <1>1, <1>2, <2>1, <2>2
  <1>5. ASSUME NEW r \in Req, Serve(r) PROVE [Next]_vars
    BY <1>5 DEF Serve, Next
  <1>6. CASE \E r \in Req, c \in Calls : Begin(r, c)
    BY <1>6 DEF Next
  <1>7. CASE \E b \in Bet : IntentSubmitted(b) \/ IntentRevoked(b)
    BY <1>7 DEF Next
  <1>8. CASE UNCHANGED pagingVars
    BY <1>8 DEF pagingVars
  <1> QED BY <1>3, <1>4, <1>5, <1>6, <1>7, <1>8 DEF PagingNext, PagingStep

\* A walk's request assembles its pool with the steps of GetPool.
LEMMA AssemblingStep ==
    ASSUME WalksInv, ServerInv, [PagingNext]_pagingVars, NEW r \in Req
    PROVE  Assembling(r)'
  <1> USE DEF TypeOK, local, Goto, Answer, At, AllChecked
  <1>1. ASSUME walk'[r] = walk[r], Rests(r) PROVE Assembling(r)'
    BY <1>1 DEF Rests, Assembling, ServerInv
  <1>2. ASSUME NEW c, TurnsTo(r, c) PROVE Assembling(r)'
    BY <1>2, TurnsRequest DEF Assembling, ServerInv
  <1>3. ASSUME Serve(r), UNCHANGED walkVars PROVE Assembling(r)'
    <2> SUFFICES ASSUME walk[r] # None, pc'[r] # "idle" PROVE Assembling(r)'
      BY <1>3 DEF Assembling, walkVars
    <2>1. walk'[r] = walk[r] /\ Assembling(r) /\ TypeOK
      BY <1>3 DEF walkVars, ServerInv
    <2>2. CASE Reject(r) \/ Fail(r)
      BY <2>1, <2>2 DEF Reject, Fail, Assembling
    <2>3. CASE GetPoolReadPool(r) \/ ReturnPool(r)
      BY <2>1, <2>3 DEF GetPoolReadPool, ReturnPool, SeePool, Assembling
    <2>4. CASE GetBetsByPool(r)
      BY <2>1, <2>4 DEF GetBetsByPool, SeeBets, Assembling
    <2>5. CASE MarkBetAsPaid(r) \/ \E b \in Bet : GetIntent(r, b)
      BY <2>1, <2>5 DEF MarkBetAsPaid, GetIntent, Assembling
    <2>6. CASE \/ CreatePool(r) \/ CloseReadPool(r) \/ ClosePool(r)
               \/ ResolveReadPool(r) \/ ResolvePool(r)
               \/ NotifyReadPool(r) \/ NotifyPoolResolution(r)
               \/ MakeBetReadPool(r) \/ GetBetByUser(r) \/ KeepBet(r)
               \/ UpdateBetOutcome(r) \/ CountBets(r) \/ InsertBet(r)
      BY <2>1, <2>6 DEF CreatePool, CloseReadPool, ClosePool, ResolveReadPool, ResolvePool,
           NotifyReadPool, NotifyPoolResolution, MakeBetReadPool, GetBetByUser, KeepBet,
           UpdateBetOutcome, CountBets, InsertBet, Assembling
    <2> QED BY <1>3, <2>2, <2>3, <2>4, <2>5, <2>6 DEF Serve, Step
  <1>4. ASSUME NEW s \in Req, s # r, Serve(s), UNCHANGED walkVars PROVE Assembling(r)'
    BY <1>1, <1>4, OthersRest DEF Serve, Moves, walkVars, ServerInv
  <1>5. ASSUME NEW s \in Req, NEW c \in Calls, Begin(s, c), walk[s] = None,
               UNCHANGED walkVars
        PROVE  Assembling(r)'
    <2>1. CASE s = r
      BY <1>5, <2>1 DEF Assembling, walkVars
    <2>2. CASE s # r
      BY <1>1, <1>5, <2>2, OthersRest DEF Moves, walkVars, ServerInv
    <2> QED BY <2>1, <2>2
  <1>6. CASE \E b \in Bet : /\ IntentSubmitted(b) \/ IntentRevoked(b)
                            /\ UNCHANGED walkVars
    BY <1>1, <1>6 DEF IntentSubmitted, IntentRevoked, Rests, walkVars
  <1>7. CASE UNCHANGED pagingVars
    BY <1>1, <1>7 DEF pagingVars, vars, Rests, walkVars
  <1>8. ASSUME NEW s \in Req, s # r,
               (\E w \in Walks : BeginWalk(s, w)) \/ NextPool(s)
        PROVE  Assembling(r)'
    <2>1. walk'[r] = walk[r]
      BY <1>8 DEF BeginWalk, NextPool, GetPagedPools, GetProtoPool, WalksInv, WalksTypeOK
    <2>2. Rests(r)
      BY <1>8 DEF BeginWalk, NextPool, GetPagedPools, GetProtoPool, Rests, vars, ServerInv
    <2> QED BY <1>1, <2>1, <2>2
  <1>9. ASSUME (\E w \in Walks : BeginWalk(r, w)) \/ NextPool(r)
        PROVE  Assembling(r)'
    <2>1. CASE UNCHANGED vars
      <3>1. CASE NextPool(r)
        BY <2>1, <3>1 DEF NextPool, ServerInv, Assembling, vars
      <3>2. CASE \E w \in Walks : BeginWalk(r, w)
        BY <2>1, <3>2 DEF BeginWalk, Assembling, vars
      <3> QED BY <1>9, <3>1, <3>2
    <2>2. ASSUME ~UNCHANGED vars PROVE pc'[r] = "read_pool" /\ call'[r].op = "GetPool"
                                       /\ reply'[r] = "none"
      <3>1. \E w, page : GetProtoPool(r, w, page)
        BY <1>9, <2>2 DEF BeginWalk, NextPool, GetPagedPools
      <3> QED BY <3>1 DEF GetProtoPool, ServerInv
    <2> QED BY <2>1, <2>2 DEF Assembling
  <1> QED BY <1>3, <1>4, <1>5, <1>6, <1>7, <1>8, <1>9 DEF PagingNext, PagingStep, walkVars

LEMMA ServerInvStep ==
    WalksInv /\ ServerInv /\ [PagingNext]_pagingVars => ServerInv'
  <1>1. ASSUME WalksInv, ServerInv, [PagingNext]_pagingVars PROVE ServerInv'
    <2>1. \A r \in Req : Assembling(r)'
      BY <1>1, AssemblingStep
    <2>2. CASE [Next]_vars
      BY <1>1, <2>1, <2>2, TypeStep, InvStep, MembersStep, ToldStep DEF ServerInv
    <2>3. ASSUME NEW r \in Req, NEW c \in Call, TurnsTo(r, c) PROVE ServerInv'
      BY <1>1, <2>1, <2>3, TurnsKeeps DEF ServerInv
    <2> QED BY <1>1, <2>2, <2>3, StepKinds
  <1> QED BY <1>1

\* Requests that assemble one pool after the other leave tables, memories and
\* notifications as the pool service needs them.
THEOREM AssemblingInvariance == PagingSpec => []ServerInv
  <1>1. PagingInit => ServerInv
    <2> SUFFICES ASSUME PagingInit PROVE ServerInv
      OBVIOUS
    <2>1. Init /\ \A r \in Req : walk[r] = None
      BY DEF PagingInit
    <2>2. (\A r \in Req : pc[r] = "idle") /\ told = {}
      BY <2>1 DEF Init
    <2>3. ToldInv
      BY <2>2 DEF ToldInv, ToldOnce, NotifierInv, Notifying
    <2> QED BY <2>1, <2>3, TypeInit, InvInit, MembersInit DEF ServerInv, Assembling
  <1> QED BY <1>1, ServerInvStep, PagingInvariance, PTL DEF PagingSpec

LEMMA AnswersBesideWalks ==
    WalksInv /\ ServerInv /\ AnswersStand /\ [PagingNext]_pagingVars => AnswersStand'
  <1>1. ASSUME WalksInv, ServerInv, AnswersStand, [PagingNext]_pagingVars
        PROVE  AnswersStand'
    <2>1. TypeOK /\ Inv
      BY <1>1 DEF ServerInv
    <2>2. CASE [Next]_vars
      BY <1>1, <2>1, <2>2, AnswersStep
    <2>3. ASSUME NEW r \in Req, NEW c \in Call, TurnsTo(r, c) PROVE AnswersStand'
      <3>1. /\ reply'[r] = "none"
            /\ \A s \in Req : s # r => Rests(s)
            /\ UNCHANGED <<poolRow, betRow>>
        BY <2>1, <2>3, TurnsRequest
      <3>2. ASSUME NEW s \in Req, call'[s] # None PROVE AnswerHolds(s)'
        <4>1. CASE s = r
          BY <3>1, <4>1, PlainAnswer
        <4>2. CASE s # r
          BY <1>1, <3>1, <3>2, <4>2 DEF AnswersStand, AnswerHolds, Rests, Exists
        <4> QED BY <4>1, <4>2
      <3> QED BY <3>2 DEF AnswersStand
    <2> QED BY <1>1, <2>2, <2>3, StepKinds
  <1> QED BY <1>1

LEMMA TellingBesideWalks ==
    WalksInv /\ ServerInv /\ ToldConsistently /\ [PagingNext]_pagingVars
    => ToldConsistently'
  <1>1. ASSUME WalksInv, ServerInv, ToldConsistently, [PagingNext]_pagingVars
        PROVE  ToldConsistently'
    <2>1. CASE [Next]_vars
      BY <1>1, <2>1, ConsistentlyStep DEF ServerInv
    <2>2. ASSUME NEW r \in Req, NEW c \in Call, TurnsTo(r, c) PROVE ToldConsistently'
      BY <1>1, <2>2 DEF TurnsTo, ToldConsistently
    <2> QED BY <1>1, <2>1, <2>2, StepKinds
  <1> QED BY <1>1

\* A request that assembles pool after pool, and marks bets as paid on the way,
\* does not upset what the other requests store, answer and tell.
THEOREM ServerBesideWalks ==
    PagingSpec => [](TypeOK /\ SignaturesMatch /\ AnswersStand /\ MembersAndBets
                     /\ CountsAreStored /\ ToldOnce /\ ToldConsistently)
  <1>1. ServerInv => TypeOK /\ SignaturesMatch /\ MembersAndBets /\ CountsAreStored
                     /\ ToldOnce
    BY DEF ServerInv, Inv, ToldInv, RequestInv, HeldBetsAreStored, CountsAreStored, Counted
  <1>2. PagingInit => AnswersStand /\ ToldConsistently
    BY DEF PagingInit, Init, AnswersStand, ToldConsistently
  <1> QED BY <1>1, <1>2, AnswersBesideWalks, TellingBesideWalks, PagingInvariance,
             AssemblingInvariance, PTL DEF PagingSpec

\* Pools on the pages of walks count every vote that was counted before, and
\* mark bets as paid for good.
THEOREM StepsBesideWalks == PagingSpec => NoVoteForgotten /\ PaidBetFrozen
  <1>1. ASSUME WalksInv, ServerInv, [PagingNext]_pagingVars
        PROVE  /\ [\A r, s \in Req :
                     /\ pc[r] = "read_bets" /\ pc'[r] = "check_paid"
                     /\ call[s] # None /\ call[s].pool = call[r].pool
                     => Counted(s) \subseteq Counted(r)']_vars
               /\ [\A b \in Bet :
                     betRow[b] # None /\ betRow[b].paid =>
                        /\ betRow'[b] # None /\ betRow'[b].paid
                        /\ Changing(b) = {} => betRow'[b].meta = betRow[b].meta]_vars
    <2>1. TypeOK /\ Inv
      BY <1>1 DEF ServerInv
    <2>2. CASE [Next]_vars
      BY <1>1, <2>1, <2>2, VotesStep, BetsEvolve, BetMetaChange DEF BetEvolves
    <2>3. ASSUME NEW r \in Req, NEW c \in Call, TurnsTo(r, c)
          PROVE  /\ UNCHANGED betRow
                 /\ \A s \in Req : pc[s] = "read_bets" => pc'[s] # "check_paid"
      <3>1. UNCHANGED betRow /\ pc'[r] = "read_pool" /\ \A s \in Req : s # r => Rests(s)
        BY <2>1, <2>3, TurnsRequest
      <3> QED BY <3>1 DEF Rests
    <2> QED BY <1>1, <2>2, <2>3, StepKinds
  <1> QED BY <1>1, PagingInvariance, AssemblingInvariance, PTL
          DEF PagingSpec, NoVoteForgotten, PaidBetFrozen
=============================================================================
