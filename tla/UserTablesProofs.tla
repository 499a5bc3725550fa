-------------------------- MODULE UserTablesProofs --------------------------
(***************************************************************************)
(* Proofs about what the requests of users, served by any servers at once, *)
(* leave in the tables and the caches, for all users, keys, servers,       *)
(* receipts, X accounts, addresses, tokens, requests and calls: a key has  *)
(* one user, a registered user is not turned away, a receipt registers one *)
(* user, a link and a checked address stay, and no cleanup deletes a token *)
(* that is in use.                                                         *)
(***************************************************************************)
EXTENDS UsersProofs, FiniteSetTheorems

(* What one step of a request changes, whatever its service.               *)

LEMMA ServeChange ==
    ASSUME NEW r, Serve(r)
    PROVE  /\ userOf' = userOf \/ Bind(r)
           /\ registered' = registered \/ Bind(r) \/ SetRegistrationFlag(r) \/ Fulfil(r)
           /\ cachedUser' = cachedUser \/ CacheUser(r)
           /\ cachedFlag' = cachedFlag \/ CacheFlag(r)
           /\ who' = who \/ LookUpKey(r) \/ GetUserId(r) \/ GetPubKeys(r)
           /\ purchase' = purchase \/ Fulfil(r)
           /\ xOwner' = xOwner \/ UpsertXProfile(r) \/ UnlinkXAccount(r)
           /\ \/ contact' = contact
              \/ SetPhoneNumber(r) \/ SetEmailAddress(r) \/ UnlinkPhone(r) \/ UnlinkEmail(r)
           /\ \/ token' = token \/ AddToken(r)
              \/ /\ \/ At(r, {"DeleteTokens"}, "delete")
                    \/ At(r, {"SendPush"}, "clean_up")
                 /\ DeleteNext(r)
           /\ gone' = gone
<1>. USE DEF accountVars, caches, profileVars, contactVars, pushVars
<1>1. CASE /\ AccountsStep(r)
           /\ UNCHANGED <<purchase, profileVars, contactVars, pushVars>>
  BY <1>1, AccountsChange
<1>2. CASE PurchasesStep(r) /\ UNCHANGED <<profileVars, contactVars, pushVars>>
  BY <1>2, PurchasesChange
<1>3. CASE ProfilesStep(r) /\ UNCHANGED <<purchase, contactVars, pushVars>>
  BY <1>3, ProfilesChange
<1>4. CASE ContactsStep(r) /\ UNCHANGED <<purchase, profileVars, pushVars>>
  BY <1>4, ContactsChange
<1>5. CASE PushesStep(r) /\ UNCHANGED <<purchase, profileVars, contactVars>>
  BY <1>5, PushesChange
<1>. QED
  BY <1>1, <1>2, <1>3, <1>4, <1>5 DEF Serve

\* The steps from which each service goes on.
LEMMA ServiceSteps ==
    ASSUME NEW r
    PROVE  /\ PurchasesStep(r) =>
                 /\ pc[r] \in {"body", "verify", "read_purchase", "fulfil", "reread"}
                 /\ call[r].op = "OnPurchaseCompleted"
           /\ ProfilesStep(r) =>
                 /\ pc[r] \in {"body", "read_link", "upsert"}
                 /\ call[r].op \in {"SetDisplayName", "LinkSocialAccount",
                                    "UnlinkSocialAccount"}
           /\ ContactsStep(r) =>
                 /\ pc[r] \in {"body", "send", "save"}
                 /\ call[r].op \in VerificationOps
           /\ PushesStep(r) =>
                 /\ pc[r] \in {"start", "body", "delete", "multicast", "clean_up"}
                 /\ call[r].op \in {"AddToken", "DeleteTokens", "SendPush"}
<1>1. PurchasesStep(r) =>
         /\ pc[r] \in {"body", "verify", "read_purchase", "fulfil", "reread"}
         /\ call[r].op = "OnPurchaseCompleted"
  BY DEF PurchasesStep, CheckProduct, VerifyReceipt, GetPurchaseByID, Fulfil,
         RereadPurchase, Buying, At
<1>2. ProfilesStep(r) =>
         /\ pc[r] \in {"body", "read_link", "upsert"}
         /\ call[r].op \in {"SetDisplayName", "LinkSocialAccount",
                            "UnlinkSocialAccount"}
  BY DEF ProfilesStep, SetDisplayName, UnlinkXAccount, GetMyUser, GetXProfile,
         UpsertXProfile, Linking, At
<1>3. ContactsStep(r) =>
         pc[r] \in {"body", "send", "save"} /\ call[r].op \in VerificationOps
  BY DEF ContactsStep, LookUpPhone, SendPhoneCode, SendEmailCode, CheckPhoneCode,
         CheckEmailCode, SetPhoneNumber, SetEmailAddress, UnlinkPhone,
         UnlinkEmail, At, VerificationOps
<1>4. PushesStep(r) =>
         /\ pc[r] \in {"start", "body", "delete", "multicast", "clean_up"}
         /\ call[r].op \in {"AddToken", "DeleteTokens", "SendPush"}
  BY DEF PushesStep, AddToken, GetTokens, DeleteToken, GetTokensBatch,
         SendEachForMulticast, CleanUp, At
<1>. QED
  BY <1>1, <1>2, <1>3, <1>4
-----------------------------------------------------------------------------
(* Keys, users and what the servers remember of them.                      *)

\* The user that a Register is about to create is nobody's yet.
Fresh(r) ==
    /\ who[r] \notin Range(userOf)
    /\ \A q \in Req \ {r} : who[q] # who[r]

KeysInv ==
    /\ KeysAgree
    /\ \A r \in Req : At(r, {"Register"}, "bind") => Fresh(r)
    /\ \A r \in Req : call[r] # None /\ call[r].op = "SendPush" => who[r] = None
    /\ \A s \in Server, k \in Key : cachedUser[s][k] \in {None, userOf[k]}

\* What a step leaves of a binding: it is there for good.
LEMMA BoundStays ==
    ASSUME NEW r \in Req, UsersInv, Serve(r), NEW k \in Key,
           userOf[k] # None
    PROVE  userOf'[k] = userOf[k]
<1>1. CASE Bind(r)
  BY <1>1 DEF Bind, KeyTaken, UsersInv, TablesOK, TablesTyped
<1>. QED
  BY <1>1, ServeChange

\* A user that a request acts for has a key, or is the request's own to bind.
LEMMA NewcomerStays ==
    ASSUME NEW r \in Req, UsersInv, Serve(r), pc[r] # "start"
    PROVE  who' = who
  BY ServeChange DEF LookUpKey, GetUserId, GetPubKeys, At

\* At "bind" a request binds or fails, and what is answered stays so.
LEMMA AtBindAndCleanUp ==
    ASSUME NEW r \in Req, UsersInv, Serve(r)
    PROVE  /\ At(r, {"Register"}, "bind") => Bind(r) \/ reply'[r] = "unavailable"
           /\ reply[r] # "none" => reply'[r] = reply[r]
<1>0. /\ reply \in [Req -> Replies] /\ Shape(r) /\ Moves(r)
  BY ServeMoves DEF UsersInv, RequestsShape
<1>1. ASSUME At(r, {"Register"}, "bind"), ~Bind(r)
      PROVE  reply'[r] = "unavailable"
  <2>1. Fail(r)
    BY <1>1, ServiceSteps DEF Serve, AccountsStep, At, LookUpKey, SetRegistrationFlag,
       GetUserId, CacheUser, Login, GetPubKeys, IsRegistered, CacheFlag, Reject
  <2>. QED
    BY <1>0, <1>1, <2>1 DEF Fail, End, Answer, At, Shape, Answered
<1>2. ASSUME reply[r] # "none"
      PROVE  reply'[r] = reply[r]
  <2>1. pc[r] = "clean_up"
    BY <1>0, <1>2 DEF Shape, Moves, Answered
  <2>2. Fail(r) \/ CleanUp(r)
    BY <2>1, ServiceSteps DEF Serve, AccountsStep, At, LookUpKey, Bind,
       SetRegistrationFlag, GetUserId, CacheUser, Login, GetPubKeys, IsRegistered,
       CacheFlag, Reject, PushesStep, AddToken, GetTokens, DeleteToken,
       GetTokensBatch, SendEachForMulticast
  <2>. QED
    BY <1>0, <1>2, <2>2 DEF Fail, CleanUp, DeleteNext, End, Answer, GoOn
<1>. QED
  BY <1>1, <1>2

LEMMA CallsHaveKeys ==
    ASSUME NEW r \in Req, UsersInv, call[r] # None, call[r].op # "SendPush"
    PROVE  call[r].key \in Key /\ call[r].server \in Server
  BY AccountsAssumption DEF UsersInv, RequestsShape

\* Who a request acts for when it goes on from "start".
LEMMA WhoIsFound ==
    ASSUME NEW r \in Req, UsersInv, KeysInv, Serve(r), pc[r] = "start"
    PROVE  \/ who'[r] = None
           \/ call[r].op # "SendPush" /\ who'[r] = userOf[call[r].key]
           \/ /\ who'[r] \in NewUser /\ At(r, {"Register"}, "start")
              /\ pc'[r] = "bind"
<1>0. /\ pc \in [Req -> Steps] /\ who \in [Req -> User \cup {None}]
      /\ Shape(r) /\ who[r] = None
  BY DEF UsersInv, RequestsShape, Shape, Waiting
<1>1. CASE LookUpKey(r)
  BY <1>0, <1>1 DEF LookUpKey, At, Goto
<1>2. CASE GetUserId(r)
  <2>1. /\ call[r].key \in Key /\ call[r].server \in Server /\ call[r].op # "SendPush"
    BY <1>0, <1>2, CallsHaveKeys DEF GetUserId, At, Authorized, Shape
  <2>2. cachedUser[call[r].server][call[r].key] \in {None, userOf[call[r].key]}
    BY <2>1 DEF KeysInv
  <2>. QED
    BY <1>0, <1>2, <2>1, <2>2 DEF GetUserId
<1>3. CASE GetPubKeys(r)
  BY <1>0, <1>3 DEF GetPubKeys, At
<1>. QED
  BY <1>0, <1>1, <1>2, <1>3, ServeChange

LEMMA OnlyLookUpKeyBinds ==
    ASSUME NEW r \in Req, UsersInv, Serve(r), pc'[r] = "bind"
    PROVE  LookUpKey(r)
<1>0. pc \in [Req -> Steps]
  BY DEF UsersInv, RequestsShape
<1>. USE <1>0 DEF Goto, End, Answer, GoOn, At, Commits
<1>1. CASE AccountsStep(r)
  BY <1>1 DEF AccountsStep, Bind, SetRegistrationFlag, GetUserId, AfterAuthorize,
     CacheUser, Login, GetPubKeys, IsRegistered, UseFlag, CacheFlag, Reject, Fail
<1>2. CASE PurchasesStep(r)
  BY <1>2 DEF PurchasesStep, CheckProduct, VerifyReceipt, GetPurchaseByID, Fulfil,
     RereadPurchase
<1>3. CASE ProfilesStep(r)
  BY <1>3 DEF ProfilesStep, SetDisplayName, UnlinkXAccount, GetMyUser, GetXProfile,
     UpsertXProfile
<1>4. CASE ContactsStep(r)
  <2>1. CASE SendPhoneCode(r) \/ SendEmailCode(r)
    BY <2>1, SendAnswers DEF SendPhoneCode, SendEmailCode
  <2>2. CASE CheckPhoneCode(r) \/ CheckEmailCode(r)
    BY <2>2, CheckAnswers DEF CheckPhoneCode, CheckEmailCode
  <2>3. CASE LookUpPhone(r)
    BY <2>3 DEF LookUpPhone
  <2>. QED
    BY <1>4, <2>1, <2>2, <2>3 DEF ContactsStep, SetPhoneNumber, SetEmailAddress,
       SetContact, UnlinkPhone, UnlinkEmail, Unlink
<1>5. CASE PushesStep(r)
  BY <1>5 DEF PushesStep, AddToken, GetTokens, DeleteToken, DeleteNext,
     GetTokensBatch, SendEachForMulticast, CleanUp
<1>. QED
  BY <1>1, <1>2, <1>3, <1>4, <1>5 DEF Serve

LEMMA ServeKeys ==
    ASSUME NEW r \in Req, UsersInv, KeysInv, Serve(r)
    PROVE  KeysInv'
<1>0. /\ userOf \in [Key -> User \cup {None}] /\ who \in [Req -> User \cup {None}]
      /\ cachedUser \in [Server -> [Key -> User \cup {None}]]
      /\ \A q \in Req : Shape(q)
      /\ Moves(r) /\ call' = call /\ None \notin User
      /\ \A q \in Req \ {r} : /\ pc'[q] = pc[q] /\ who'[q] = who[q]
                              /\ seen'[q] = seen[q] /\ reply'[q] = reply[q]
  BY ServeMoves, AccountsAssumption
     DEF Moves, Alone, UsersInv, RequestsShape, TablesOK, TablesTyped
<1>1. CASE Bind(r)
  <2>1. /\ At(r, {"Register"}, "bind") /\ Fresh(r) /\ who' = who
        /\ cachedUser' = cachedUser /\ call[r].key \in Key /\ who[r] \in User
    BY <1>0, <1>1, CallsHaveKeys
       DEF Bind, At, KeysInv, Shape, Waiting, caches, Commits, End
  <2>2. ASSUME NEW q \in Req, Knows(q)'
        PROVE  userOf'[call[q].key] = who'[q]
    <3>1. CASE q = r
      BY <1>0, <1>1, <2>1, <2>2, <3>1
         DEF Bind, Knows, At, End, Answer, UsersInv, RequestsShape, Replies
    <3>2. CASE q # r
      <4>1. Knows(q) /\ who[q] # None /\ userOf[call[q].key] = who[q]
        BY <1>0, <2>2, <3>2 DEF Knows, At, KeysInv, KeysAgree
      <4>2. call[q].key \in Key
        BY <1>0, <4>1, CallsHaveKeys DEF KeysInv, Shape, Waiting
      <4>. QED
        BY <1>0, <3>2, <4>1, <4>2, BoundStays
    <3>. QED
      BY <3>1, <3>2
  <2>3. ASSUME NEW j \in Key, NEW k \in Key, userOf'[j] = userOf'[k], userOf'[j] # None
        PROVE  j = k
    <3>1. \A i \in Key : userOf[i] # who[r]
      BY <1>0, <2>1 DEF Fresh, Range
    <3>. QED
      BY <1>0, <1>1, <2>1, <2>3, <3>1 DEF Bind, KeysInv, KeysAgree
  <2>4. ASSUME NEW q \in Req, At(q, {"Register"}, "bind")'
        PROVE  Fresh(q)'
    <3>1. q # r
      BY <1>0, <1>1, <2>4, OnlyLookUpKeyBinds DEF Bind, LookUpKey, At
    <3>2. /\ Fresh(q) /\ who[q] # who[r]
      BY <1>0, <2>1, <2>4, <3>1 DEF At, KeysInv, Fresh
    <3>3. Range(userOf') \subseteq Range(userOf) \cup {who[r]}
      BY <1>0, <1>1 DEF Bind, Range
    <3>. QED
      BY <2>1, <3>2, <3>3 DEF Fresh
  <2>5. ASSUME NEW s \in Server, NEW k \in Key
        PROVE  cachedUser'[s][k] \in {None, userOf'[k]}
    BY <2>1, BoundStays DEF KeysInv
  <2>. QED
    BY <1>0, <2>1, <2>2, <2>3, <2>4, <2>5 DEF KeysInv, KeysAgree
<1>2. CASE ~Bind(r)
  <2>1. userOf' = userOf
    BY <1>2, ServeChange
  <2>2. ASSUME NEW q \in Req, Knows(q)'
        PROVE  userOf'[call[q].key] = who'[q]
    <3>1. CASE q # r
      BY <1>0, <2>1, <2>2, <3>1 DEF Knows, At, KeysInv, KeysAgree
    <3>2. CASE q = r /\ pc[r] = "start"
      BY <1>0, <2>1, <2>2, <3>2, WhoIsFound DEF Knows, At
    <3>3. CASE q = r /\ pc[r] # "start"
      BY <1>0, <1>2, <2>1, <2>2, <3>3, NewcomerStays, AtBindAndCleanUp
         DEF Knows, KeysInv, KeysAgree
    <3>. QED
      BY <3>1, <3>2, <3>3
  <2>3. ASSUME NEW q \in Req, At(q, {"Register"}, "bind")'
        PROVE  Fresh(q)'
    <3>1. CASE q = r
      <4>1. LookUpKey(r)
        BY <2>3, <3>1, OnlyLookUpKeyBinds DEF At
      <4>2. who'[r] \in NewUser
        BY <1>0, <2>3, <3>1, <4>1 DEF LookUpKey, At, Goto, UsersInv, RequestsShape
      <4>3. ASSUME NEW p \in Req \ {r}
            PROVE  who'[p] # who'[r]
        BY <1>0, <4>2, <4>3 DEF NewUser, Range
      <4>. QED
        BY <2>1, <3>1, <4>2, <4>3 DEF Fresh, NewUser
    <3>2. CASE q # r
      <4>1. At(q, {"Register"}, "bind") /\ Fresh(q) /\ who'[q] = who[q]
            /\ who[q] \in User
        BY <1>0, <2>3, <3>2 DEF At, KeysInv, Shape, Waiting
      <4>2. who'[r] # who[q]
        <5>1. CASE pc[r] # "start"
          BY <1>0, <3>2, <4>1, <5>1, NewcomerStays DEF Fresh
        <5>2. CASE pc[r] = "start"
          <6>1. ASSUME call[r].op # "SendPush", who'[r] = userOf[call[r].key]
                PROVE  who'[r] # who[q]
            <7>1. call[r].key \in Key
              BY <1>0, <5>2, <6>1, CallsHaveKeys DEF Shape
            <7>. QED
              BY <1>0, <4>1, <6>1, <7>1 DEF Fresh, Range
          <6>2. ASSUME who'[r] \in NewUser
                PROVE  who'[r] # who[q]
            BY <1>0, <6>2 DEF NewUser, Range
          <6>. QED
            BY <1>0, <4>1, <5>2, <6>1, <6>2, WhoIsFound
        <5>. QED
          BY <5>1, <5>2
      <4>3. \A p \in Req \ {q} : who'[p] # who'[q]
        BY <1>0, <3>2, <4>1, <4>2 DEF Fresh
      <4>. QED
        BY <2>1, <4>1, <4>3 DEF Fresh
    <3>. QED
      BY <3>1, <3>2
  <2>4. ASSUME NEW q \in Req, call[q] # None, call[q].op = "SendPush"
        PROVE  who'[q] = None
    <3>1. CASE pc[r] = "start"
      BY <1>0, <2>4, <3>1, WhoIsFound DEF KeysInv, At
    <3>2. CASE pc[r] # "start"
      BY <1>0, <2>4, <3>2, NewcomerStays DEF KeysInv
    <3>. QED
      BY <3>1, <3>2
  <2>5. ASSUME NEW s \in Server, NEW k \in Key
        PROVE  cachedUser'[s][k] \in {None, userOf'[k]}
    <3>1. CASE CacheUser(r)
      <4>1. Knows(r) /\ call[r].op # "SendPush"
        BY <1>0, <3>1 DEF CacheUser, Knows, At, Shape, Waiting, Answered, Authorized
      <4>2. userOf[call[r].key] = who[r]
        BY <4>1 DEF KeysInv, KeysAgree
      <4>. QED
        BY <1>0, <2>1, <3>1, <4>2 DEF CacheUser, KeysInv
    <3>2. CASE ~CacheUser(r)
      BY <2>1, <3>2, ServeChange DEF KeysInv
    <3>. QED
      BY <3>1, <3>2
  <2>. QED
    BY <1>0, <2>1, <2>2, <2>3, <2>4, <2>5 DEF KeysInv, KeysAgree
<1>. QED
  BY <1>1, <1>2

\* A call that comes in changes nothing but the request that takes it.
Asked(r, c) ==
    /\ pc[r] = "idle" /\ pc' = [pc EXCEPT ![r] = "start"]
    /\ call' = [call EXCEPT ![r] = c]
    /\ UNCHANGED <<accountVars, purchase, xOwner, contact, token, gone, who, seen, reply>>

\* Neither the world nor a stuttering step touches a request, or a table other
\* than what Twilio and Firebase know.
Quiet ==
    /\ UNCHANGED <<accountVars, requestVars, purchase, xOwner, contact, token>>
    /\ gone \subseteq gone'

LEMMA NextCases ==
    ASSUME UsersInv, [Next]_usersVars
    PROVE  \/ \E r \in Req : Serve(r)
           \/ \E r \in Req, c \in Calls : Asked(r, c)
           \/ Quiet
<1>1. ASSUME NEW r \in Req, NEW c \in Calls, Ask(r, c)
      PROVE  Asked(r, c)
  BY <1>1 DEF Ask, Begin, Goto, Asked, profileVars, contactVars, pushVars
<1>2. CASE World
  BY <1>2, WorldStep DEF Quiet, World, Lapse, Forget, profileVars, pushVars
<1>3. CASE UNCHANGED usersVars
  BY <1>3 DEF usersVars, Quiet, profileVars, contactVars, pushVars
<1>. QED
  BY <1>1, <1>2, <1>3 DEF Next

LEMMA KeysInitially == Init => KeysInv
  BY AccountsAssumption DEF Init, AccountsInit, RequestsInit, KeysInv, KeysAgree, Knows, At

LEMMA KeysNext == UsersInv /\ KeysInv /\ [Next]_usersVars => KeysInv'
<1>. SUFFICES ASSUME UsersInv, KeysInv, [Next]_usersVars
              PROVE  KeysInv'
  OBVIOUS
<1>1. ASSUME NEW r \in Req, Serve(r)
      PROVE  KeysInv'
  BY <1>1, ServeKeys
<1>2. ASSUME NEW r \in Req, NEW c \in Calls, Asked(r, c)
      PROVE  KeysInv'
  <2>1. /\ pc \in [Req -> Steps] /\ call \in [Req -> Calls \cup {None}]
        /\ who[r] = None /\ pc'[r] = "start" /\ call'[r] = c
        /\ \A q \in Req \ {r} : pc'[q] = pc[q] /\ call'[q] = call[q]
        /\ who' = who /\ reply' = reply /\ userOf' = userOf /\ cachedUser' = cachedUser
    BY <1>2 DEF Asked, UsersInv, RequestsShape, Shape, Waiting, accountVars, caches
  <2>2. ASSUME NEW q \in Req, Knows(q)'
        PROVE  userOf'[call'[q].key] = who'[q]
    BY <2>1, <2>2 DEF Knows, At, KeysInv, KeysAgree
  <2>3. ASSUME NEW q \in Req, At(q, {"Register"}, "bind")'
        PROVE  Fresh(q)'
    BY <2>1, <2>3 DEF At, KeysInv, Fresh
  <2>4. ASSUME NEW q \in Req, call'[q] # None, call'[q].op = "SendPush"
        PROVE  who'[q] = None
    BY <2>1, <2>4 DEF KeysInv
  <2>. QED
    BY <2>1, <2>2, <2>3, <2>4 DEF KeysInv, KeysAgree
<1>3. CASE Quiet
  BY <1>3 DEF Quiet, KeysInv, KeysAgree, Knows, At, Fresh, Range, accountVars, caches,
     requestVars
<1>. QED
  BY <1>1, <1>2, <1>3, NextCases

\* A key has one user for good, and a user one key, whatever Registers ran at
\* once and on whatever servers (account/server.go:101-119).
THEOREM OneUserPerKey == Spec => []KeysAgree
<1>1. Init => UsersInv /\ KeysInv
  BY InitInv, KeysInitially
<1>2. UsersInv /\ KeysInv /\ [Next]_usersVars => (UsersInv /\ KeysInv)'
  BY NextInv, KeysNext
<1>3. KeysInv => KeysAgree
  BY DEF KeysInv
<1>. QED
  BY <1>1, <1>2, <1>3, PTL DEF Spec
-----------------------------------------------------------------------------
(* Registrations, and what the servers remember of them.                   *)

FlagsInv ==
    /\ \A r \in Req : pc[r] = "cache_flag" => who[r] \in registered
    /\ \A s \in Server, u \in User :
          /\ cachedFlag[s][u] \in {None, TRUE}
          /\ cachedFlag[s][u] = TRUE => u \in registered

\* Nobody is unregistered.
LEMMA RegisteredStays ==
    ASSUME NEW r, Serve(r)
    PROVE  registered \subseteq registered'
  BY ServeChange DEF Bind, SetRegistrationFlag, Fulfil, Commit

\* The steps of the services other than accounts answer of their own.
LEMMA ServicesDoNotJudge ==
    ASSUME NEW r \in Req, UsersInv, Serve(r), ~AccountsStep(r)
    PROVE  /\ reply'[r] = "not_registered" => reply[r] = "not_registered"
           /\ pc'[r] # "cache_flag"
<1>0. pc \in [Req -> Steps] /\ reply \in [Req -> Replies]
  BY DEF UsersInv, RequestsShape
<1>. USE <1>0 DEF Goto, End, Answer, GoOn, At, Commits
<1>2. CASE PurchasesStep(r)
  BY <1>2 DEF PurchasesStep, CheckProduct, Judge, VerifyReceipt, GetPurchaseByID,
     Fulfil, RereadPurchase
<1>3. CASE ProfilesStep(r)
  BY <1>3 DEF ProfilesStep, SetDisplayName, UnlinkXAccount, GetMyUser, GetXProfile,
     UpsertXProfile
<1>4. CASE ContactsStep(r)
  <2>1. CASE SendPhoneCode(r) \/ SendEmailCode(r)
    <3>1. \E a \in PhoneRefusals \cup EmailRefusals \cup {"OK", "lost"} : End(r, a)
      <4>1. CASE SendPhoneCode(r)
        BY <4>1, SendAnswers, Refusals DEF SendPhoneCode
      <4>2. CASE SendEmailCode(r)
        BY <4>2, SendAnswers, Refusals DEF SendEmailCode
      <4>. QED
        BY <2>1, <4>1, <4>2
    <3>. QED
      BY <3>1 DEF PhoneRefusals, EmailRefusals
  <2>2. CASE CheckPhoneCode(r) \/ CheckEmailCode(r)
    BY <2>2, CheckAnswers DEF CheckPhoneCode, CheckEmailCode
  <2>3. CASE LookUpPhone(r)
    BY <2>3, Refusals DEF LookUpPhone
  <2>. QED
    BY <1>4, <2>1, <2>2, <2>3 DEF ContactsStep, SetPhoneNumber, SetEmailAddress,
       SetContact, UnlinkPhone, UnlinkEmail, Unlink
<1>5. CASE PushesStep(r)
  BY <1>5 DEF PushesStep, AddToken, GetTokens, DeleteToken, DeleteNext,
     GetTokensBatch, SendEachForMulticast, CleanUp
<1>. QED
  BY <1>2, <1>3, <1>4, <1>5 DEF Serve

\* Who is called unregistered, and whose registration is about to be cached.
LEMMA OnlyIsRegisteredJudges ==
    ASSUME NEW r \in Req, UsersInv, FlagsInv, Serve(r)
    PROVE  /\ reply[r] = "none" /\ reply'[r] = "not_registered" =>
                 who[r] \notin registered
           /\ pc'[r] = "cache_flag" =>
                 IsRegistered(r) /\ who[r] \in registered /\ who' = who
<1>0. pc \in [Req -> Steps] /\ reply \in [Req -> Replies] /\ Shape(r)
  BY DEF UsersInv, RequestsShape
<1>1. CASE ~AccountsStep(r)
  BY <1>1, ServicesDoNotJudge
<1>2. CASE IsRegistered(r)
  <2>1. /\ who[r] \in User /\ call[r].server \in Server /\ who' = who
    BY <1>0, <1>2, CallsHaveKeys DEF IsRegistered, Shape, Waiting, Gated
  <2>2. cachedFlag[call[r].server][who[r]] \in {None, TRUE}
    BY <2>1 DEF FlagsInv
  <2>3. CASE cachedFlag[call[r].server][who[r]] = TRUE
    BY <1>0, <1>2, <2>1, <2>3, AccountsAssumption DEF IsRegistered, UseFlag, Answer, Goto
  <2>4. CASE /\ cachedFlag[call[r].server][who[r]] = None
             /\ who[r] \in registered
    BY <1>0, <1>2, <2>1, <2>4 DEF IsRegistered, WorthCaching, Goto
  <2>5. CASE /\ cachedFlag[call[r].server][who[r]] = None
             /\ who[r] \notin registered
    BY <1>0, <1>2, <2>1, <2>5 DEF IsRegistered, WorthCaching, UseFlag, Answer, Goto
  <2>. QED
    BY <2>2, <2>3, <2>4, <2>5
<1>3. CASE CacheFlag(r)
  BY <1>0, <1>3 DEF CacheFlag, UseFlag, Answer, Goto, Shape
<1>4. CASE AccountsStep(r) /\ ~IsRegistered(r) /\ ~CacheFlag(r)
  BY <1>0, <1>4 DEF AccountsStep, LookUpKey, Bind, SetRegistrationFlag, GetUserId,
     UnknownKey, AfterAuthorize, CacheUser, Login, GetPubKeys, Reject, Fail, Goto,
     End, Answer, GoOn, At, Commits
<1>. QED
  BY <1>1, <1>2, <1>3, <1>4

LEMMA ServeFlags ==
    ASSUME NEW r \in Req, UsersInv, FlagsInv, Serve(r)
    PROVE  FlagsInv'
<1>1. ASSUME NEW q \in Req, pc'[q] = "cache_flag"
      PROVE  who'[q] \in registered'
  <2>1. CASE q = r
    BY <1>1, <2>1, OnlyIsRegisteredJudges, RegisteredStays
  <2>2. CASE q # r
    BY <1>1, <2>2, ServeMoves, RegisteredStays DEF Moves, Alone, FlagsInv
  <2>. QED
    BY <2>1, <2>2
<1>2. ASSUME NEW s \in Server, NEW u \in User
      PROVE  /\ cachedFlag'[s][u] \in {None, TRUE}
             /\ cachedFlag'[s][u] = TRUE => u \in registered'
  <2>1. CASE CacheFlag(r)
    <3>1. seen[r] = TRUE /\ who[r] \in registered
      BY <2>1 DEF CacheFlag, FlagsInv, UsersInv, RequestsShape, Shape
    <3>2. /\ registered' = registered
          /\ cachedFlag' = [cachedFlag EXCEPT ![call[r].server][who[r]] = seen[r]]
      BY <2>1 DEF CacheFlag
    <3>3. cachedFlag \in [Server -> [User -> BOOLEAN \cup {None}]]
      BY DEF UsersInv, TablesOK, TablesTyped
    <3>4. \/ cachedFlag'[s][u] = cachedFlag[s][u]
          \/ cachedFlag'[s][u] = seen[r] /\ u = who[r]
      BY <3>2, <3>3
    <3>. QED
      BY <3>1, <3>2, <3>4 DEF FlagsInv
  <2>2. CASE ~CacheFlag(r)
    BY <2>2, ServeChange, RegisteredStays DEF FlagsInv
  <2>. QED
    BY <2>1, <2>2
<1>. QED
  BY <1>1, <1>2 DEF FlagsInv

LEMMA FlagsInitially == Init => FlagsInv
<1>1. ASSUME Init
      PROVE  /\ \A r \in Req : pc[r] = "idle"
             /\ \A s \in Server, u \in User : cachedFlag[s][u] = None
  BY <1>1 DEF Init, AccountsInit, RequestsInit
<1>2. None # TRUE
  BY AccountsAssumption
<1>. QED
  BY <1>1, <1>2 DEF FlagsInv

LEMMA FlagsNext == UsersInv /\ FlagsInv /\ [Next]_usersVars => FlagsInv'
<1>. SUFFICES ASSUME UsersInv, FlagsInv, [Next]_usersVars
              PROVE  FlagsInv'
  OBVIOUS
<1>1. ASSUME NEW r \in Req, NEW c \in Calls, Asked(r, c)
      PROVE  FlagsInv'
  <2>1. /\ \A q \in Req : pc'[q] = "cache_flag" => pc[q] = "cache_flag"
        /\ UNCHANGED <<who, registered, cachedFlag>>
    BY <1>1 DEF Asked, UsersInv, RequestsShape, accountVars, caches
  <2>. QED
    BY <2>1 DEF FlagsInv
<1>2. CASE Quiet
  BY <1>2 DEF Quiet, FlagsInv, accountVars, caches, requestVars
<1>. QED
  BY <1>1, <1>2, NextCases, ServeFlags

\* The caches hold what the tables hold, for all servers and however requests
\* interleave (account/cache/store.go:25-27).
THEOREM CachesAreRight == Spec => []CachesAgree
<1>1. Init => UsersInv /\ KeysInv /\ FlagsInv
  BY InitInv, KeysInitially, FlagsInitially
<1>2. UsersInv /\ KeysInv /\ FlagsInv /\ [Next]_usersVars
         => (UsersInv /\ KeysInv /\ FlagsInv)'
  BY NextInv, KeysNext, FlagsNext
<1>3. KeysInv /\ FlagsInv => CachesAgree
  BY DEF KeysInv, FlagsInv, CachesAgree
<1>. QED
  BY <1>1, <1>2, <1>3, PTL DEF Spec

\* No step that starts after a registration was committed calls the user
\* unregistered, whichever server takes it.
THEOREM RegisteredAreServed == Spec => RegisteredNotDenied
<1>1. UsersInv /\ FlagsInv /\ [Next]_usersVars =>
         [\A r \in Req :
             reply[r] = "none" /\ reply'[r] = "not_registered"
             => who[r] \notin registered]_<<accountVars, requestVars>>
  <2>. SUFFICES ASSUME UsersInv, FlagsInv, [Next]_usersVars,
                       NEW r \in Req, reply[r] = "none", reply'[r] = "not_registered"
                PROVE  who[r] \notin registered
    OBVIOUS
  <2>1. ASSUME NEW q \in Req, Serve(q)
        PROVE  who[r] \notin registered
    <3>1. CASE q = r
      BY <2>1, <3>1, OnlyIsRegisteredJudges
    <3>2. CASE q # r
      BY <2>1, <3>2, ServeMoves DEF Moves, Alone
    <3>. QED
      BY <3>1, <3>2
  <2>. QED
    BY <2>1, NextCases DEF Asked, Quiet, requestVars
<1>2. Init => UsersInv /\ FlagsInv
  BY InitInv, FlagsInitially
<1>3. UsersInv /\ FlagsInv /\ [Next]_usersVars => (UsersInv /\ FlagsInv)'
  BY NextInv, FlagsNext
<1>. QED
  BY <1>1, <1>2, <1>3, PTL DEF Spec, RegisteredNotDenied
-----------------------------------------------------------------------------
(* Receipts.                                                               *)

\* Who is registered, and by what.
Entitled(u) ==
    \/ \E p \in ValidReceipts : purchase[p] = u
    \/ \E r \in Req : At(r, {"Register"}, "done") /\ who[r] = u
    \/ \E r \in Req : /\ call[r] # None /\ call[r].op = "Register"
                      /\ userOf[call[r].key] = u

\* A receipt whose purchase may be denied for no other reason than its buyer.
Contested(r) ==
    call[r].product = "create_account" /\ call[r].platform # "unknown"

Settled(r) ==
    /\ reply[r] = "OK" =>
          purchase[call[r].about] = who[r] /\ who[r] \in registered
    /\ reply[r] = "DENIED" /\ Contested(r) =>
          purchase[call[r].about] \notin {None, who[r]}

\* Past the verification the receipt is one that a store vouches for.
PastVerify(r) ==
    \/ pc[r] \in {"read_purchase", "fulfil", "reread"}
    \/ reply[r] = "OK"
    \/ reply[r] = "DENIED" /\ Contested(r)

ReceiptsInv ==
    /\ \A u \in registered : Entitled(u)
    /\ \A p \in Receipt : purchase[p] \in registered \cup {None}
    /\ \A r \in Req :
          call[r] # None /\ call[r].op = "OnPurchaseCompleted" =>
             Settled(r) /\ (PastVerify(r) => call[r].about \in ValidReceipts)

LEMMA PurchaseStays ==
    ASSUME NEW r \in Req, UsersInv, Serve(r), NEW p \in Receipt, purchase[p] # None
    PROVE  purchase'[p] = purchase[p]
  BY ServeChange DEF Fulfil, Commit, ReceiptTaken, UsersInv, TablesOK

\* What comes before a service's own steps acknowledges and denies nothing.
LEMMA AccountsAnswers ==
    ASSUME NEW r \in Req, UsersInv, AccountsStep(r),
           call[r].op \notin {"Register", "Login", "GetUserFlags", "SendPush"}
    PROVE  /\ reply'[r] \notin {"OK", "lost", "DENIED"}
           /\ pc'[r] \in {"cache_user", "registered", "cache_flag", "body", "done"}
<1>0. /\ pc \in [Req -> Steps] /\ reply \in [Req -> Replies] /\ Shape(r)
      /\ pc[r] \notin {"idle", "done"}
  BY AccountsMove DEF UsersInv, TablesOK, RequestsShape, Moves
<1>1. reply[r] = "none"
  BY <1>0 DEF Shape, Answered
<1>2. CASE IsRegistered(r) \/ CacheFlag(r)
  BY <1>0, <1>1, <1>2
     DEF IsRegistered, CacheFlag, UseFlag, Goto, Answer, Remember
<1>3. CASE AccountsStep(r) /\ ~IsRegistered(r) /\ ~CacheFlag(r)
  BY <1>0, <1>1, <1>3 DEF AccountsStep, LookUpKey, Bind, SetRegistrationFlag,
     GetUserId, UnknownKey, AfterAuthorize, CacheUser, Login, GetPubKeys, Reject,
     Fail, Goto, End, Answer, GoOn, At
<1>. QED
  BY <1>2, <1>3

LEMMA PurchaseSettles ==
    ASSUME NEW r \in Req, UsersInv, ReceiptsInv, Serve(r),
           call[r] # None, call[r].op = "OnPurchaseCompleted"
    PROVE  Settled(r)' /\ (PastVerify(r)' => call[r].about \in ValidReceipts)
<1>0. /\ pc \in [Req -> Steps] /\ reply \in [Req -> Replies] /\ call' = call
      /\ Shape(r) /\ Moves(r) /\ None \notin User
      /\ purchase \in [Receipt -> User \cup {None}]
      /\ ValidReceipts \subseteq Receipt
      /\ call[r].platform \in {"apple", "google", "unknown"}
  BY ServeMoves, PurchasesAssumption, AccountsAssumption
     DEF Moves, Alone, UsersInv, TablesOK, RequestsShape
<1>1. CASE AccountsStep(r)
  <2>1. /\ reply'[r] \notin {"OK", "lost", "DENIED"}
        /\ pc'[r] \notin {"read_purchase", "fulfil", "reread"}
    BY <1>1, AccountsAnswers
  <2>. QED
    BY <2>1 DEF Settled, PastVerify
<1>2. ASSUME PurchasesStep(r)
      PROVE  Settled(r)' /\ (PastVerify(r)' => call[r].about \in ValidReceipts)
  <2>0. /\ who[r] \in User /\ reply[r] = "none" /\ who' = who
    BY <1>2, ServiceSteps, ActsFor, PurchasesChange DEF Waiting, UsersInv
  <2>. USE <1>0, <2>0 DEF Settled, PastVerify, Contested, GoOn, End, Answer, Goto, Buying, At
  <2>1. CASE CheckProduct(r)
    BY <2>1 DEF CheckProduct, Judge
  <2>2. CASE VerifyReceipt(r)
    BY <2>2 DEF VerifyReceipt
  <2>3. CASE GetPurchaseByID(r)
    <3>1. call[r].about \in ValidReceipts /\ purchase' = purchase /\ registered' = registered
      BY <2>3 DEF GetPurchaseByID, ReceiptsInv, accountVars
    <3>2. purchase[call[r].about] \in registered \cup {None}
      BY <3>1 DEF ReceiptsInv
    <3>. QED
      BY <2>3, <3>1, <3>2 DEF GetPurchaseByID
  <2>4. CASE Fulfil(r)
    <3>1. call[r].about \in ValidReceipts
      BY <2>4 DEF Fulfil, ReceiptsInv
    <3>. QED
      BY <2>4, <3>1 DEF Fulfil, Commit
  <2>5. CASE RereadPurchase(r)
    <3>1. call[r].about \in ValidReceipts /\ purchase' = purchase /\ registered' = registered
      BY <2>5 DEF RereadPurchase, ReceiptsInv, accountVars
    <3>2. purchase[call[r].about] \in registered \cup {None}
      BY <3>1 DEF ReceiptsInv
    <3>. QED
      BY <2>5, <3>1, <3>2 DEF RereadPurchase
  <2>. QED
    BY <1>2, <2>1, <2>2, <2>3, <2>4, <2>5 DEF PurchasesStep
<1>. QED
  BY <1>1, <1>2, ServiceSteps DEF Serve, VerificationOps

LEMMA ServeEntitles ==
    ASSUME NEW r \in Req, UsersInv, ReceiptsInv, Serve(r), NEW u \in registered'
    PROVE  Entitled(u)'
<1>0. /\ pc \in [Req -> Steps] /\ reply \in [Req -> Replies] /\ Shape(r) /\ Moves(r)
      /\ call' = call /\ registered \subseteq User /\ None \notin User
      /\ purchase \in [Receipt -> User \cup {None}]
      /\ ValidReceipts \subseteq Receipt
      /\ pc[r] \notin {"idle", "done"}
      /\ \A q \in Req \ {r} : pc'[q] = pc[q] /\ who'[q] = who[q]
  BY ServeMoves, PurchasesAssumption, AccountsAssumption
     DEF Moves, Alone, UsersInv, TablesOK, TablesTyped, RequestsShape
<1>1. CASE u \in registered
  <2>1. Entitled(u)
    BY <1>1 DEF ReceiptsInv
  <2>2. ASSUME NEW p \in ValidReceipts, purchase[p] = u
        PROVE  Entitled(u)'
    BY <1>0, <1>1, <2>2, PurchaseStays DEF Entitled
  <2>3. ASSUME NEW q \in Req, At(q, {"Register"}, "done"), who[q] = u
        PROVE  Entitled(u)'
    BY <1>0, <2>3 DEF Entitled, At
  <2>4. ASSUME NEW q \in Req, call[q] # None, call[q].op = "Register",
               userOf[call[q].key] = u
        PROVE  Entitled(u)'
    <3>1. call[q].key \in Key
      BY <2>4, CallsHaveKeys
    <3>. QED
      BY <1>0, <1>1, <2>4, <3>1, BoundStays DEF Entitled
  <2>. QED
    BY <2>1, <2>2, <2>3, <2>4 DEF Entitled
<1>2. CASE u \notin registered
  <2>1. CASE Bind(r) \/ SetRegistrationFlag(r)
    <3>1. u = who[r] /\ who'[r] = who[r] /\ pc'[r] = "done" /\ At(r, {"Register"}, pc[r])
      BY <1>0, <1>2, <2>1 DEF Bind, SetRegistrationFlag, Commits, End, Answer, Goto, At
    <3>. QED
      BY <1>0, <3>1 DEF Entitled, At
  <2>2. CASE Fulfil(r)
    <3>1. call[r].about \in ValidReceipts
      BY <1>0, <2>2 DEF Fulfil, ReceiptsInv, Buying, At, PastVerify, Shape
    <3>2. u = who[r] /\ purchase'[call[r].about] = who[r]
      BY <1>0, <1>2, <2>2, <3>1 DEF Fulfil, Commit
    <3>. QED
      BY <3>1, <3>2 DEF Entitled
  <2>. QED
    BY <1>2, <2>1, <2>2, ServeChange
<1>. QED
  BY <1>1, <1>2

LEMMA ServeReceipts ==
    ASSUME NEW r \in Req, UsersInv, ReceiptsInv, Serve(r)
    PROVE  ReceiptsInv'
<1>0. /\ Moves(r) /\ call' = call /\ purchase \in [Receipt -> User \cup {None}]
      /\ ValidReceipts \subseteq Receipt /\ registered \subseteq registered'
  BY ServeMoves, PurchasesAssumption, RegisteredStays DEF Moves, Alone, UsersInv, TablesOK
<1>1. \A u \in registered' : Entitled(u)'
  BY ServeEntitles
<1>2. ASSUME NEW p \in Receipt
      PROVE  purchase'[p] \in registered' \cup {None}
  <2>1. CASE Fulfil(r)
    BY <1>0, <1>2, <2>1 DEF Fulfil, Commit, ReceiptsInv
  <2>2. CASE ~Fulfil(r)
    BY <1>0, <2>2, ServeChange DEF ReceiptsInv
  <2>. QED
    BY <2>1, <2>2
<1>3. ASSUME NEW q \in Req, call'[q] # None, call'[q].op = "OnPurchaseCompleted"
      PROVE  Settled(q)' /\ (PastVerify(q)' => call'[q].about \in ValidReceipts)
  <2>1. CASE q = r
    BY <1>0, <1>3, <2>1, PurchaseSettles
  <2>2. CASE q # r
    <3>1. /\ Settled(q) /\ (PastVerify(q) => call[q].about \in ValidReceipts)
          /\ pc'[q] = pc[q] /\ who'[q] = who[q] /\ reply'[q] = reply[q]
      BY <1>0, <1>3, <2>2 DEF Moves, Alone, ReceiptsInv
    <3>2. PastVerify(q)' => call'[q].about \in ValidReceipts
      BY <1>0, <3>1 DEF PastVerify, Contested
    <3>3. ASSUME reply'[q] = "OK"
          PROVE  purchase'[call'[q].about] = who'[q] /\ who'[q] \in registered'
      <4>1. /\ call[q].about \in Receipt /\ purchase[call[q].about] = who[q]
            /\ who[q] \in registered
        BY <1>0, <3>1, <3>3 DEF PastVerify, Settled
      <4>2. purchase[call[q].about] # None
        BY <4>1, AccountsAssumption DEF UsersInv, TablesOK, TablesTyped
      <4>. QED
        BY <1>0, <3>1, <4>1, <4>2, PurchaseStays
    <3>4. ASSUME reply'[q] = "DENIED", Contested(q)'
          PROVE  purchase'[call'[q].about] \notin {None, who'[q]}
      <4>1. /\ call[q].about \in Receipt
            /\ purchase[call[q].about] \notin {None, who[q]}
        BY <1>0, <3>1, <3>4 DEF PastVerify, Settled, Contested
      <4>. QED
        BY <1>0, <3>1, <4>1, PurchaseStays
    <3>. QED
      BY <3>2, <3>3, <3>4 DEF Settled
  <2>. QED
    BY <2>1, <2>2
<1>. QED
  BY <1>1, <1>2, <1>3 DEF ReceiptsInv

LEMMA ReceiptsInitially == Init => ReceiptsInv
  BY DEF Init, AccountsInit, RequestsInit, PurchasesInit, ReceiptsInv

LEMMA ReceiptsNext == UsersInv /\ ReceiptsInv /\ [Next]_usersVars => ReceiptsInv'
<1>. SUFFICES ASSUME UsersInv, ReceiptsInv, [Next]_usersVars
              PROVE  ReceiptsInv'
  OBVIOUS
<1>1. ASSUME NEW r \in Req, NEW c \in Calls, Asked(r, c)
      PROVE  ReceiptsInv'
  <2>1. /\ call[r] = None /\ reply[r] = "none" /\ pc'[r] = "start"
        /\ \A q \in Req \ {r} : pc'[q] = pc[q] /\ call'[q] = call[q]
        /\ UNCHANGED <<userOf, registered, purchase, who, reply>>
    BY <1>1 DEF Asked, UsersInv, RequestsShape, Shape, Answered, accountVars
  <2>2. ASSUME NEW u \in registered'
        PROVE  Entitled(u)'
    <3>1. Entitled(u)
      BY <2>1 DEF ReceiptsInv
    <3>2. \A q \in Req : pc[q] = "done" => q # r
      BY <1>1 DEF Asked
    <3>. QED
      BY <2>1, <3>1, <3>2 DEF Entitled, At
  <2>3. ASSUME NEW q \in Req, call'[q] # None, call'[q].op = "OnPurchaseCompleted"
        PROVE  Settled(q)' /\ (PastVerify(q)' => call'[q].about \in ValidReceipts)
    <3>1. CASE q = r
      BY <2>1, <3>1 DEF Settled, PastVerify
    <3>2. CASE q # r
      BY <2>1, <2>3, <3>2 DEF ReceiptsInv, Settled, PastVerify, Contested
    <3>. QED
      BY <3>1, <3>2
  <2>. QED
    BY <2>1, <2>2, <2>3 DEF ReceiptsInv
<1>2. CASE Quiet
  BY <1>2 DEF Quiet, ReceiptsInv, Entitled, Settled, PastVerify, Contested, At,
     accountVars, requestVars
<1>. QED
  BY <1>1, <1>2, NextCases, ServeReceipts

\* A receipt registers one user, however many submit it at once: the registered
\* hold a receipt or a key of their own, an acknowledged purchase is the
\* caller's, and a denied one another user's (iap/server.go:126-178).
THEOREM OneUserPerReceipt == Spec => []ReceiptsRegisterOnce
<1>1. Init => UsersInv /\ ReceiptsInv
  BY InitInv, ReceiptsInitially
<1>2. UsersInv /\ ReceiptsInv /\ [Next]_usersVars => (UsersInv /\ ReceiptsInv)'
  BY NextInv, ReceiptsNext
<1>3. ReceiptsInv => ReceiptsRegisterOnce
  BY DEF ReceiptsInv, Entitled, Settled, Contested, ReceiptsRegisterOnce
<1>. QED
  BY <1>1, <1>2, <1>3, PTL DEF Spec
-----------------------------------------------------------------------------
(* Links to X accounts.                                                    *)

\* The ways r's link to an X account may have gone: another user has linked it,
\* or its own user has unlinked it.
TakenOver(q, r) ==
    /\ call[q] # None /\ Committed(q) /\ call[q].about = call[r].about
    /\ \/ Linking(q, "done") /\ who[q] # who[r]
       \/ At(q, {"UnlinkSocialAccount"}, "done") /\ who[q] = who[r]

LinkStands(r) ==
    xOwner[call[r].about] = who[r] \/ \E q \in Req \ {r} : TakenOver(q, r)

OneLinkEach ==
    \A x, y \in XAccount : xOwner[x] = xOwner[y] /\ xOwner[x] # None => x = y

LinksInv ==
    /\ OneLinkEach
    /\ \A r \in Req : Linking(r, "read_link") \/ Linking(r, "upsert") =>
          call[r].about \in XAccount
    /\ \A r \in Req : Linking(r, "done") /\ Committed(r) =>
          call[r].about \in XAccount /\ LinkStands(r)

\* What r does to the links, if anything.
LinkWritten(r) ==
    /\ Linking(r, "upsert") /\ XLinks(who[r]) \subseteq {call[r].about}
    /\ xOwner' = [xOwner EXCEPT ![call[r].about] = who[r]]
LinkRemoved(r) ==
    /\ At(r, {"UnlinkSocialAccount"}, "body") /\ xOwner[call[r].about] = who[r]
    /\ xOwner' = [xOwner EXCEPT ![call[r].about] = None]

LEMMA LinkChange ==
    ASSUME NEW r \in Req, UsersInv, Serve(r)
    PROVE  \/ xOwner' = xOwner
           \/ /\ LinkWritten(r) \/ LinkRemoved(r)
              /\ pc'[r] = "done" /\ reply'[r] \in {"OK", "lost"}
<1>0. pc \in [Req -> Steps] /\ reply \in [Req -> Replies]
  BY DEF UsersInv, RequestsShape
<1>. USE <1>0 DEF Commits, End, Answer, Goto
<1>1. CASE UpsertXProfile(r)
  BY <1>1 DEF UpsertXProfile, LinkedElsewhere, LinkWritten
<1>2. CASE UnlinkXAccount(r)
  BY <1>2 DEF UnlinkXAccount, OwnedBy, LinkRemoved
<1>. QED
  BY <1>1, <1>2, ServeChange

\* Where a request to link is after a step, and what it acknowledges.
LEMMA LinkingMoves ==
    ASSUME NEW r \in Req, UsersInv, LinksInv, Serve(r), call[r] # None,
           call[r].op = "LinkSocialAccount"
    PROVE  /\ pc'[r] \in {"read_link", "upsert"} => call[r].about \in XAccount
           /\ reply'[r] \in {"OK", "lost"} =>
                 call[r].about \in XAccount /\ xOwner'[call[r].about] = who'[r]
<1>0. /\ pc \in [Req -> Steps] /\ reply \in [Req -> Replies]
      /\ xOwner \in [XAccount -> User \cup {None}] /\ call[r] \in Calls
      /\ call[r].about \in XAccount \cup {None}
  BY ProfilesAssumption DEF UsersInv, RequestsShape, TablesOK
<1>1. CASE AccountsStep(r)
  BY <1>1, AccountsAnswers
<1>2. CASE ProfilesStep(r)
  <2>0. reply[r] = "none" /\ who' = who
    BY <1>2, ServiceSteps, ActsFor, ProfilesChange DEF UsersInv, Waiting
  <2>. USE <1>0, <2>0 DEF End, Answer, GoOn, Goto, Linking, At, Commits
  <2>1. CASE GetMyUser(r)
    BY <2>1 DEF GetMyUser
  <2>2. CASE GetXProfile(r)
    BY <2>2 DEF GetXProfile, LinksInv
  <2>3. CASE UpsertXProfile(r)
    BY <2>3 DEF UpsertXProfile, LinksInv
  <2>. QED
    BY <1>2, <2>1, <2>2, <2>3 DEF ProfilesStep, SetDisplayName, UnlinkXAccount
<1>. QED
  BY <1>1, <1>2, ServiceSteps DEF Serve, VerificationOps

LEMMA ServeLinks ==
    ASSUME NEW r \in Req, UsersInv, LinksInv, Serve(r)
    PROVE  LinksInv'
<1>0. /\ pc \in [Req -> Steps] /\ xOwner \in [XAccount -> User \cup {None}]
      /\ None \notin User /\ Moves(r) /\ call' = call /\ Shape(r)
      /\ \A q \in Req \ {r} : /\ pc'[q] = pc[q] /\ who'[q] = who[q]
                              /\ reply'[q] = reply[q]
      /\ pc[r] \notin {"idle", "done"}
  BY ServeMoves, AccountsAssumption
     DEF Moves, Alone, UsersInv, RequestsShape, TablesOK
<1>1. OneLinkEach'
  <2>1. CASE LinkWritten(r)
    <3>1. \A x \in XAccount : xOwner[x] = who[r] => x = call[r].about
      BY <2>1 DEF LinkWritten, XLinks
    <3>. QED
      BY <1>0, <2>1, <3>1 DEF LinkWritten, LinksInv, OneLinkEach
  <2>2. CASE LinkRemoved(r)
    BY <1>0, <2>2 DEF LinkRemoved, LinksInv, OneLinkEach
  <2>3. CASE xOwner' = xOwner
    BY <2>3 DEF LinksInv, OneLinkEach
  <2>. QED
    BY <2>1, <2>2, <2>3, LinkChange
<1>2. ASSUME NEW q \in Req, Linking(q, "read_link")' \/ Linking(q, "upsert")'
      PROVE  call'[q].about \in XAccount
  <2>1. CASE q = r
    <3>1. call[r] # None
      BY <1>0 DEF Shape
    <3>. QED
      BY <1>0, <1>2, <2>1, <3>1, LinkingMoves DEF Linking, At
  <2>2. CASE q # r
    BY <1>0, <1>2, <2>2 DEF Linking, At, LinksInv
  <2>. QED
    BY <2>1, <2>2
<1>3. ASSUME NEW q \in Req, Linking(q, "done")', Committed(q)'
      PROVE  call'[q].about \in XAccount /\ LinkStands(q)'
  <2>1. CASE q = r
    <3>1. call[r] # None
      BY <1>0 DEF Shape
    <3>. QED
      BY <1>0, <1>3, <2>1, <3>1, LinkingMoves DEF Linking, At, Committed, LinkStands
  <2>2. CASE q # r
    <3>1. Linking(q, "done") /\ Committed(q)
      BY <1>0, <1>3, <2>2 DEF Linking, At, Committed
    <3>2. call[q].about \in XAccount /\ LinkStands(q)
      BY <3>1 DEF LinksInv
    <3>3. ASSUME NEW p \in Req \ {q}, TakenOver(p, q)
          PROVE  LinkStands(q)'
      <4>1. p # r
        BY <1>0, <3>3 DEF TakenOver, Linking, At
      <4>2. TakenOver(p, q)'
        BY <1>0, <2>2, <3>3, <4>1 DEF TakenOver, Linking, At, Committed
      <4>. QED
        BY <4>2 DEF LinkStands
    <3>4. ASSUME xOwner[call[q].about] = who[q], xOwner'[call[q].about] # who[q]
          PROVE  TakenOver(r, q)'
      <4>0. who'[r] = who[r] /\ call[r] # None
        <5>1. pc[r] # "start"
          BY <3>4, LinkChange DEF LinkWritten, LinkRemoved, Linking, At
        <5>. QED
          BY <1>0, <5>1, NewcomerStays DEF Shape
      <4>1. CASE LinkWritten(r)
        BY <1>0, <2>2, <3>2, <3>4, <4>0, <4>1, LinkChange
           DEF LinkWritten, TakenOver, Linking, At, Committed
      <4>2. CASE LinkRemoved(r)
        BY <1>0, <2>2, <3>2, <3>4, <4>0, <4>2, LinkChange
           DEF LinkRemoved, TakenOver, Linking, At, Committed
      <4>. QED
        BY <3>4, <4>1, <4>2, LinkChange
    <3>5. ASSUME xOwner[call[q].about] = who[q]
          PROVE  LinkStands(q)'
      <4>1. CASE xOwner'[call[q].about] = who[q]
        BY <1>0, <2>2, <4>1 DEF LinkStands
      <4>2. CASE xOwner'[call[q].about] # who[q]
        <5>1. TakenOver(r, q)' /\ r \in Req \ {q}
          BY <2>2, <3>4, <3>5, <4>2
        <5>. QED
          BY <5>1 DEF LinkStands
      <4>. QED
        BY <4>1, <4>2
    <3>. QED
      BY <1>0, <3>2, <3>3, <3>5 DEF LinkStands
  <2>. QED
    BY <2>1, <2>2
<1>. QED
  BY <1>1, <1>2, <1>3 DEF LinksInv

LEMMA LinksInitially == Init => LinksInv
  BY DEF Init, AccountsInit, RequestsInit, ProfilesInit, LinksInv, OneLinkEach,
         Linking, At

LEMMA LinksNext == UsersInv /\ LinksInv /\ [Next]_usersVars => LinksInv'
<1>. SUFFICES ASSUME UsersInv, LinksInv, [Next]_usersVars
              PROVE  LinksInv'
  OBVIOUS
<1>1. ASSUME NEW r \in Req, NEW c \in Calls, Asked(r, c)
      PROVE  LinksInv'
  <2>1. /\ pc[r] = "idle" /\ pc'[r] = "start"
        /\ \A q \in Req \ {r} : pc'[q] = pc[q] /\ call'[q] = call[q]
        /\ UNCHANGED <<xOwner, who, reply>>
    BY <1>1 DEF Asked, UsersInv, RequestsShape
  <2>2. ASSUME NEW q \in Req, Linking(q, "done")', Committed(q)'
        PROVE  call'[q].about \in XAccount /\ LinkStands(q)'
    <3>1. q # r /\ call[q].about \in XAccount /\ LinkStands(q)
      BY <2>1, <2>2 DEF Linking, At, Committed, LinksInv
    <3>2. \A p \in Req : TakenOver(p, q) => TakenOver(p, q)'
      BY <2>1, <3>1 DEF TakenOver, Linking, At, Committed
    <3>. QED
      BY <2>1, <3>1, <3>2 DEF LinkStands
  <2>3. ASSUME NEW q \in Req, Linking(q, "read_link")' \/ Linking(q, "upsert")'
        PROVE  call'[q].about \in XAccount
    BY <2>1, <2>3 DEF Linking, At, LinksInv
  <2>. QED
    BY <2>1, <2>2, <2>3 DEF LinksInv, OneLinkEach
<1>2. CASE Quiet
  BY <1>2 DEF Quiet, LinksInv, OneLinkEach, LinkStands, TakenOver, Linking, At,
     Committed, requestVars
<1>. QED
  BY <1>1, <1>2, NextCases, ServeLinks

\* A user ends with one X account at most, whatever links race, and an
\* acknowledged link stands until its user unlinks it or another user takes it
\* over (profile/postgres/store.go:97-113, profile/postgres/model.go:190-202).
THEOREM LinksAreKept == Spec => []LinksStand
<1>1. Init => UsersInv /\ LinksInv
  BY InitInv, LinksInitially
<1>2. UsersInv /\ LinksInv /\ [Next]_usersVars => (UsersInv /\ LinksInv)'
  BY NextInv, LinksNext
<1>3. UsersInv /\ LinksInv => LinksStand
  <2>. SUFFICES ASSUME UsersInv, LinksInv
                PROVE  LinksStand
    OBVIOUS
  <2>1. ASSUME NEW u \in User
        PROVE  Cardinality(XLinks(u)) <= 1
    <3>1. XLinks(u) = {} \/ \E x \in XAccount : XLinks(u) = {x}
      BY AccountsAssumption DEF XLinks, LinksInv, OneLinkEach
    <3>2. ASSUME NEW x \in XAccount, XLinks(u) = {x}
          PROVE  Cardinality(XLinks(u)) = 1
      BY <3>2, FS_Singleton
    <3>. QED
      BY <3>1, <3>2, FS_EmptySet
  <2>. QED
    BY <2>1 DEF LinksInv, LinkStands, TakenOver, LinksStand
<1>. QED
  BY <1>1, <1>2, <1>3, PTL DEF Spec
-----------------------------------------------------------------------------
(* Checked addresses.                                                      *)

\* The ways the address that r saved may have gone: its user has checked
\* another one, or has unlinked that very address.
GivenUp(q, r, kind) ==
    /\ who[q] = who[r]
    /\ \/ Saved(q, kind) /\ call[q].about # call[r].about
       \/ /\ At(q, {UnlinkOp(kind)}, "done") /\ Committed(q)
          /\ call[q].about = call[r].about

AddressKept(r, kind) ==
    contact[kind][who[r]] = call[r].about \/ \E q \in Req \ {r} : GivenUp(q, r, kind)

\* The user of each address has checked it.
CheckedBy(r, kind, u) ==
    Saved(r, kind) /\ who[r] = u /\ call[r].about = contact[kind][u]

AddressesInv ==
    \A kind \in Kinds :
        /\ \A r \in Req : Saved(r, kind) => AddressKept(r, kind) /\ who[r] \in User
        /\ \A u \in User : contact[kind][u] # None =>
              \E r \in Req : CheckedBy(r, kind, u)

\* What r does to the addresses, if anything.
AddressWritten(r, kind) ==
    /\ At(r, {CheckOp(kind)}, "save")
    /\ contact' = [contact EXCEPT ![kind][who[r]] = call[r].about]
AddressRemoved(r, kind) ==
    /\ At(r, {UnlinkOp(kind)}, "body") /\ contact[kind][who[r]] = call[r].about
    /\ contact' = [contact EXCEPT ![kind][who[r]] = None]

LEMMA AddressChange ==
    ASSUME NEW r \in Req, UsersInv, Serve(r)
    PROVE  \/ contact' = contact
           \/ \E kind \in Kinds :
                 /\ AddressWritten(r, kind) \/ AddressRemoved(r, kind)
                 /\ pc'[r] = "done" /\ reply'[r] \in {"OK", "lost"}
                 /\ who'[r] = who[r]
<1>0. pc \in [Req -> Steps] /\ reply \in [Req -> Replies]
  BY DEF UsersInv, RequestsShape
<1>. USE <1>0 DEF Commits, End, Answer, Goto, Kinds, CheckOp, UnlinkOp
<1>1. CASE SetPhoneNumber(r) \/ SetEmailAddress(r)
  BY <1>1 DEF SetPhoneNumber, SetEmailAddress, SetContact, AddressWritten
<1>2. CASE UnlinkPhone(r) \/ UnlinkEmail(r)
  BY <1>2 DEF UnlinkPhone, UnlinkEmail, Unlink, Unlinked, AddressRemoved
<1>. QED
  BY <1>1, <1>2, ServeChange

\* A check is acknowledged only when the address is saved.
LEMMA SavedMoves ==
    ASSUME NEW r \in Req, UsersInv, Serve(r), NEW kind \in Kinds, call[r] # None,
           call[r].op = CheckOp(kind), pc'[r] = "done", reply'[r] \in {"OK", "lost"}
    PROVE  contact'[kind][who'[r]] = call[r].about /\ who'[r] \in User
<1>0. /\ pc \in [Req -> Steps] /\ reply \in [Req -> Replies]
      /\ contact \in [Kinds -> [User -> Address \cup {None}]]
  BY DEF UsersInv, RequestsShape, TablesOK
<1>1. CASE AccountsStep(r)
  BY <1>1, AccountsAnswers DEF CheckOp
<1>2. CASE ContactsStep(r)
  <2>0. who[r] \in User /\ who' = who
    BY <1>2, ServiceSteps, ActsFor, ContactsChange DEF UsersInv, Waiting
  <2>1. CASE CheckPhoneCode(r) \/ CheckEmailCode(r)
    BY <1>0, <2>1, CheckAnswers
       DEF CheckPhoneCode, CheckEmailCode, End, Answer, GoOn, Goto
  <2>2. CASE SetPhoneNumber(r) \/ SetEmailAddress(r)
    BY <1>0, <2>0, <2>2
       DEF SetPhoneNumber, SetEmailAddress, SetContact, At, CheckOp, Kinds
  <2>. QED
    BY <1>2, <2>1, <2>2 DEF ContactsStep, LookUpPhone, SendPhoneCode, SendEmailCode,
       UnlinkPhone, UnlinkEmail, At, CheckOp
<1>. QED
  BY <1>1, <1>2, ServiceSteps DEF Serve, CheckOp

LEMMA ServeAddresses ==
    ASSUME NEW r \in Req, UsersInv, AddressesInv, Serve(r), NEW kind \in Kinds
    PROVE  /\ \A q \in Req : Saved(q, kind)' =>
                 AddressKept(q, kind)' /\ who'[q] \in User
           /\ \A u \in User : contact'[kind][u] # None =>
                 \E q \in Req : CheckedBy(q, kind, u)'
<1>0. /\ pc \in [Req -> Steps] /\ contact \in [Kinds -> [User -> Address \cup {None}]]
      /\ Moves(r) /\ call' = call /\ Shape(r) /\ call[r] # None
      /\ \A q \in Req \ {r} : /\ pc'[q] = pc[q] /\ who'[q] = who[q]
                              /\ reply'[q] = reply[q]
      /\ pc[r] \notin {"idle", "done"}
  <2>1. Moves(r) /\ Shape(r)
    BY ServeMoves DEF UsersInv, RequestsShape
  <2>2. call[r] # None
    BY <2>1 DEF Moves, Shape
  <2>. QED
    BY <2>1, <2>2 DEF Moves, Alone, UsersInv, RequestsShape, TablesOK
<1>1. ASSUME NEW q \in Req, pc[q] = "done"
      PROVE  /\ q # r /\ (Saved(q, kind) <=> Saved(q, kind)') /\ who'[q] = who[q]
             /\ \A p \in Req : GivenUp(q, p, kind) /\ pc[p] = "done"
                                  => GivenUp(q, p, kind)'
  BY <1>0, <1>1 DEF Saved, GivenUp, At, Committed
<1>2. ASSUME NEW q \in Req, Saved(q, kind)'
      PROVE  AddressKept(q, kind)' /\ who'[q] \in User
  <2>1. CASE q = r
    BY <1>0, <1>2, <2>1, SavedMoves DEF Saved, At, Committed, AddressKept
  <2>2. CASE q # r
    <3>1. Saved(q, kind) /\ pc[q] = "done"
      BY <1>0, <1>2, <2>2 DEF Saved, At, Committed
    <3>2. AddressKept(q, kind) /\ who[q] \in User
      BY <3>1 DEF AddressesInv
    <3>3. ASSUME NEW p \in Req \ {q}, GivenUp(p, q, kind)
          PROVE  AddressKept(q, kind)'
      <4>1. pc[p] = "done"
        BY <3>3 DEF GivenUp, Saved, At
      <4>2. GivenUp(p, q, kind)'
        BY <1>1, <3>1, <3>3, <4>1
      <4>. QED
        BY <4>2 DEF AddressKept
    <3>4. ASSUME contact[kind][who[q]] = call[q].about,
                 contact'[kind][who[q]] # call[q].about
          PROVE  GivenUp(r, q, kind)'
      <4>1. PICK k \in Kinds :
               /\ AddressWritten(r, k) \/ AddressRemoved(r, k)
               /\ pc'[r] = "done" /\ reply'[r] \in {"OK", "lost"}
               /\ who'[r] = who[r]
        BY <3>4, AddressChange
      <4>2. k = kind /\ who[r] = who[q]
        BY <1>0, <3>2, <3>4, <4>1 DEF AddressWritten, AddressRemoved
      <4>3. CASE AddressWritten(r, kind)
        <5>1. who[r] \in User
          BY <1>0, <4>3, ActsFor DEF AddressWritten, At, UsersInv, Waiting
        <5>2. call[r].about # call[q].about
          BY <1>0, <3>4, <4>2, <4>3, <5>1 DEF AddressWritten
        <5>. QED
          BY <1>0, <2>2, <4>1, <4>2, <4>3, <5>2
             DEF AddressWritten, GivenUp, Saved, At, Committed
      <4>4. CASE AddressRemoved(r, kind)
        BY <1>0, <2>2, <3>4, <4>1, <4>2, <4>4
           DEF AddressRemoved, GivenUp, At, Committed
      <4>. QED
        BY <4>1, <4>2, <4>3, <4>4
    <3>5. ASSUME contact[kind][who[q]] = call[q].about
          PROVE  AddressKept(q, kind)'
      <4>1. CASE contact'[kind][who[q]] = call[q].about
        BY <1>0, <2>2, <4>1 DEF AddressKept
      <4>2. CASE contact'[kind][who[q]] # call[q].about
        <5>1. GivenUp(r, q, kind)' /\ r \in Req \ {q}
          BY <2>2, <3>4, <3>5, <4>2
        <5>. QED
          BY <5>1 DEF AddressKept
      <4>. QED
        BY <4>1, <4>2
    <3>. QED
      BY <1>0, <2>2, <3>2, <3>3, <3>5 DEF AddressKept
  <2>. QED
    BY <2>1, <2>2
<1>3. ASSUME NEW u \in User, contact'[kind][u] # None
      PROVE  \E q \in Req : CheckedBy(q, kind, u)'
  <2>1. CASE contact'[kind][u] = contact[kind][u]
    <3>1. PICK q \in Req : Saved(q, kind) /\ who[q] = u
                           /\ call[q].about = contact[kind][u]
      BY <1>3, <2>1 DEF AddressesInv, CheckedBy
    <3>2. pc[q] = "done"
      BY <3>1 DEF Saved, At
    <3>. QED
      BY <1>0, <1>1, <2>1, <3>1, <3>2 DEF CheckedBy
  <2>2. CASE contact'[kind][u] # contact[kind][u]
    <3>1. PICK k \in Kinds :
             /\ AddressWritten(r, k) \/ AddressRemoved(r, k)
             /\ pc'[r] = "done" /\ reply'[r] \in {"OK", "lost"}
             /\ who'[r] = who[r]
      BY <2>2, AddressChange
    <3>2. k = kind /\ who[r] = u
      BY <1>0, <2>2, <3>1 DEF AddressWritten, AddressRemoved
    <3>3. AddressWritten(r, kind) /\ contact'[kind][u] = call[r].about
      BY <1>0, <1>3, <3>1, <3>2 DEF AddressWritten, AddressRemoved
    <3>. QED
      BY <1>0, <3>1, <3>2, <3>3
         DEF AddressWritten, CheckedBy, Saved, At, Committed
  <2>. QED
    BY <2>1, <2>2
<1>. QED
  BY <1>2, <1>3

LEMMA AddressesInitially == Init => AddressesInv
  BY DEF Init, AccountsInit, RequestsInit, ContactsInit, AddressesInv,
         Saved, At

LEMMA AddressesNext == UsersInv /\ AddressesInv /\ [Next]_usersVars => AddressesInv'
<1>. SUFFICES ASSUME UsersInv, AddressesInv, [Next]_usersVars
              PROVE  AddressesInv'
  OBVIOUS
<1>1. ASSUME NEW r \in Req, Serve(r)
      PROVE  AddressesInv'
  BY <1>1, ServeAddresses DEF AddressesInv
<1>2. ASSUME NEW r \in Req, NEW c \in Calls, Asked(r, c)
      PROVE  AddressesInv'
  <2>1. /\ pc[r] = "idle" /\ pc'[r] = "start"
        /\ \A q \in Req \ {r} : pc'[q] = pc[q] /\ call'[q] = call[q]
        /\ UNCHANGED <<contact, who, reply>>
    BY <1>2 DEF Asked, UsersInv, RequestsShape
  <2>2. ASSUME NEW kind \in Kinds, NEW q \in Req
        PROVE  /\ Saved(q, kind)' <=> Saved(q, kind)
               /\ Saved(q, kind) => q # r
    BY <2>1 DEF Saved, At, Committed
  <2>3. ASSUME NEW kind \in Kinds, NEW q \in Req, NEW p \in Req,
               Saved(q, kind), GivenUp(p, q, kind)
        PROVE  GivenUp(p, q, kind)'
    BY <2>1, <2>2, <2>3 DEF GivenUp, Saved, At, Committed
  <2>4. ASSUME NEW kind \in Kinds, NEW q \in Req, Saved(q, kind)'
        PROVE  AddressKept(q, kind)' /\ who'[q] \in User
    <3>1. Saved(q, kind) /\ q # r /\ AddressKept(q, kind) /\ who[q] \in User
      BY <2>2, <2>4 DEF AddressesInv
    <3>. QED
      BY <2>1, <2>3, <3>1 DEF AddressKept
  <2>5. ASSUME NEW kind \in Kinds, NEW u \in User, contact'[kind][u] # None
        PROVE  \E q \in Req : CheckedBy(q, kind, u)'
    <3>1. PICK q \in Req : Saved(q, kind) /\ who[q] = u
                           /\ call[q].about = contact[kind][u]
      BY <2>1, <2>5 DEF AddressesInv, CheckedBy
    <3>. QED
      BY <2>1, <2>2, <3>1 DEF CheckedBy
  <2>. QED
    BY <2>4, <2>5 DEF AddressesInv
<1>3. CASE Quiet
  BY <1>3 DEF Quiet, AddressesInv, AddressKept, GivenUp, CheckedBy, Saved, At,
     Committed, requestVars
<1>. QED
  BY <1>1, <1>2, <1>3, NextCases

\* A user keeps the address whose code was checked last, and holds none without
\* a check of its own (email/server.go:107-118, phone/server.go:114-125).
THEOREM AddressesAreKept == Spec => []CheckedAddressStays
<1>1. Init => UsersInv /\ AddressesInv
  BY InitInv, AddressesInitially
<1>2. UsersInv /\ AddressesInv /\ [Next]_usersVars => (UsersInv /\ AddressesInv)'
  BY NextInv, AddressesNext
<1>3. AddressesInv => CheckedAddressStays
  BY DEF AddressesInv, AddressKept, GivenUp, CheckedBy, CheckedAddressStays
<1>. QED
  BY <1>1, <1>2, <1>3, PTL DEF Spec
-----------------------------------------------------------------------------
(* Push tokens.                                                            *)

\* What a cleanup has yet to delete, Firebase no longer knows.
CleanUpsInv ==
    \A r \in Req : pc[r] = "clean_up" => \A row \in seen[r] : row.token \in gone

LEMMA ServeCleanUps ==
    ASSUME NEW r \in Req, UsersInv, CleanUpsInv, Serve(r)
    PROVE  CleanUpsInv'
<1>0. /\ pc \in [Req -> Steps] /\ seen \in [Req -> Findings] /\ Moves(r) /\ gone' = gone
  BY ServeMoves, ServeChange DEF UsersInv, RequestsShape
<1>. SUFFICES ASSUME pc'[r] = "clean_up"
              PROVE  \A row \in seen'[r] : row.token \in gone
  BY <1>0 DEF CleanUpsInv, Moves, Alone
<1>1. PushesStep(r)
  <2>1. ~AccountsStep(r)
    BY <1>0 DEF AccountsStep, LookUpKey, Bind, SetRegistrationFlag, GetUserId,
       AfterAuthorize, CacheUser, Login, GetPubKeys, IsRegistered, CacheFlag, UseFlag,
       Reject, Fail, Goto, End, Answer, GoOn, Commits
  <2>2. ~PurchasesStep(r)
    BY <1>0 DEF PurchasesStep, CheckProduct, VerifyReceipt, GetPurchaseByID, Fulfil,
       RereadPurchase, Goto, End, Answer, GoOn
  <2>3. ~ProfilesStep(r)
    BY <1>0 DEF ProfilesStep, SetDisplayName, UnlinkXAccount, GetMyUser, GetXProfile,
       UpsertXProfile, Goto, End, Answer, GoOn, Commits
  <2>4. ~ContactsStep(r)
    BY <1>0, SendAnswers, CheckAnswers DEF ContactsStep, LookUpPhone, SendPhoneCode,
       SendEmailCode, CheckPhoneCode, CheckEmailCode, SetPhoneNumber,
       SetEmailAddress, SetContact, UnlinkPhone, UnlinkEmail, Unlink, Goto, End,
       Answer, GoOn, Commits
  <2>. QED
    BY <2>1, <2>2, <2>3, <2>4 DEF Serve
<1>2. CASE SendEachForMulticast(r)
  BY <1>0, <1>2 DEF SendEachForMulticast, Remember
<1>3. CASE DeleteNext(r) /\ pc[r] = "clean_up"
  BY <1>0, <1>3 DEF DeleteNext, Remember, CleanUpsInv
<1>4. CASE CleanUp(r)
  BY <1>0, <1>3, <1>4 DEF CleanUp, Remember, CleanUpsInv, At, GoOn, Goto
<1>5. CASE DeleteToken(r)
  BY <1>0, <1>5 DEF DeleteToken, DeleteNext, At, End, Answer, Goto
<1>6. CASE AddToken(r) \/ GetTokens(r) \/ GetTokensBatch(r)
  BY <1>0, <1>6 DEF AddToken, GetTokens, GetTokensBatch, End, Answer, Goto, Commits
<1>. QED
  BY <1>1, <1>2, <1>4, <1>5, <1>6 DEF PushesStep

LEMMA CleanUpsInitially == Init => CleanUpsInv
  BY DEF Init, AccountsInit, RequestsInit, CleanUpsInv

LEMMA CleanUpsNext == UsersInv /\ CleanUpsInv /\ [Next]_usersVars => CleanUpsInv'
<1>. SUFFICES ASSUME UsersInv, CleanUpsInv, [Next]_usersVars
              PROVE  CleanUpsInv'
  OBVIOUS
<1>1. ASSUME NEW r \in Req, NEW c \in Calls, Ask(r, c)
      PROVE  CleanUpsInv'
  BY <1>1 DEF Ask, Begin, Goto, CleanUpsInv, UsersInv, RequestsShape, pushVars
<1>2. CASE World
  BY <1>2, WorldStep DEF World, Lapse, Forget, pushVars, requestVars, CleanUpsInv
<1>3. CASE UNCHANGED usersVars
  BY <1>3 DEF usersVars, requestVars, pushVars, CleanUpsInv
<1>. QED
  BY <1>1, <1>2, <1>3, ServeCleanUps DEF Next

\* No cleanup deletes a token that Firebase still knows
\* (push/pusher.go:111-121).
THEOREM TokensAreKept == Spec => TokenKept
<1>1. UsersInv /\ CleanUpsInv /\ [Next]_usersVars =>
         [\A u \in User, i \in Install :
             token[u][i] \notin gone \cup {None} /\ token'[u][i] # token[u][i] =>
                \/ \E r \in Req : /\ At(r, {"AddToken"}, "body")
                                  /\ pc'[r] = "done" /\ who[r] = u
                                  /\ call[r].about = i
                \/ \E r \in Req : /\ At(r, {"DeleteTokens"}, "delete")
                                  /\ seen'[r] # seen[r]
                                  /\ \E row \in seen[r] : row.token = token[u][i]
         ]_<<accountVars, requestVars, pushVars>>
  <2>. SUFFICES ASSUME UsersInv, CleanUpsInv, [Next]_usersVars,
                       NEW u \in User, NEW i \in Install,
                       token[u][i] \notin gone \cup {None},
                       token'[u][i] # token[u][i]
                PROVE  \/ \E r \in Req : /\ At(r, {"AddToken"}, "body")
                                         /\ pc'[r] = "done" /\ who[r] = u
                                         /\ call[r].about = i
                       \/ \E r \in Req : /\ At(r, {"DeleteTokens"}, "delete")
                                         /\ seen'[r] # seen[r]
                                         /\ \E row \in seen[r] :
                                               row.token = token[u][i]
    OBVIOUS
  <2>0. /\ token \in [User -> [Install -> Token \cup {None}]]
        /\ pc \in [Req -> Steps] /\ seen \in [Req -> Findings]
    BY DEF UsersInv, RequestsShape, TablesOK
  <2>1. PICK r \in Req : Serve(r)
    BY NextCases DEF Asked, Quiet
  <2>2. CASE AddToken(r)
    <3>1. who[r] = u /\ call[r].about = i
      BY <2>0, <2>2 DEF AddToken
    <3>. QED
      BY <2>0, <2>2, <3>1 DEF AddToken, Commits, End, Answer, Goto
  <2>3. CASE /\ \/ At(r, {"DeleteTokens"}, "delete")
                \/ At(r, {"SendPush"}, "clean_up")
             /\ DeleteNext(r)
    <3>1. PICK row \in seen[r] : token' = Without(row)
                                 /\ seen' = [seen EXCEPT ![r] = seen[r] \ {row}]
      BY <2>3 DEF DeleteNext, Remember
    <3>2. token[u][i] = row.token
      BY <2>0, <3>1 DEF Without
    <3>3. ~At(r, {"SendPush"}, "clean_up")
      BY <3>1, <3>2 DEF At, CleanUpsInv
    <3>4. At(r, {"DeleteTokens"}, "delete")
      BY <2>3, <3>3
    <3>. QED
      BY <2>0, <3>1, <3>2, <3>4
  <2>. QED
    BY <2>1, <2>2, <2>3, ServeChange
<1>2. Init => UsersInv /\ CleanUpsInv
  BY InitInv, CleanUpsInitially
<1>3. UsersInv /\ CleanUpsInv /\ [Next]_usersVars => (UsersInv /\ CleanUpsInv)'
  BY NextInv, CleanUpsNext
<1>. QED
  BY <1>1, <1>2, <1>3, PTL DEF Spec, TokenKept
=============================================================================
