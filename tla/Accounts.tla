------------------------------ MODULE Accounts ------------------------------
(***************************************************************************)
(* The requests of users and the steps they share: account/server.go, the  *)
(* authorization of account/authorizer.go, and the cache of every server   *)
(* (account/cache/store.go) over the tables of account/postgres.           *)
(*                                                                         *)
(* A request is a sequence of steps, one per statement sent to the         *)
(* database, to a cache or to another service; between two steps any other *)
(* request may run.  A call names the server that serves it, the key that  *)
(* signs it, what it is about and what it brings along.  The modules that  *)
(* extend this one have the steps of the other services; each service's    *)
(* own first step is at "body".                                            *)
(***************************************************************************)
EXTENDS Naturals, FiniteSets, Functions

CONSTANTS
    User, Key,      \* user ids; public keys
    Server,         \* the server processes, each with caches of its own
    Req,            \* request executions, each serving one call
    Calls,          \* the calls clients make
    None            \* the absent value

Ops == {"Register", "Login", "GetUserFlags", "OnPurchaseCompleted",
        "SetDisplayName", "LinkSocialAccount", "UnlinkSocialAccount",
        "SendPhoneCode", "CheckPhoneCode", "UnlinkPhone",
        "SendEmailCode", "CheckEmailCode", "UnlinkEmail",
        "AddToken", "DeleteTokens", "SendPush"}

ASSUME AccountsAssumption ==
    /\ None \notin User /\ None \notin Calls /\ None \notin BOOLEAN
    /\ \A c \in Calls :
          /\ c.op \in Ops /\ c.server \in Server
          /\ c.op # "SendPush" => c.key \in Key
          /\ c.op = "GetUserFlags" => c.about \in User

VARIABLES
    userOf,         \* the public keys table: userOf[k], the user k is bound to
    registered,     \* the users table: those whose "isRegistered" is set
    cachedUser,     \* cachedUser[s][k]: the user that s remembers for k
    cachedFlag,     \* cachedFlag[s][u]: the registration s remembers for u
    pc,             \* pc[r]: the next step of request r
    call,           \* call[r]: what r was asked
    who,            \* who[r]: the user r acts for
    seen,           \* seen[r]: what r read last and has yet to use
    reply           \* reply[r]: the answer of r

caches == <<cachedUser, cachedFlag>>
accountVars == <<userOf, registered, caches>>
requestVars == <<pc, call, who, seen, reply>>

Goto(r, step) == pc' = [pc EXCEPT ![r] = step]
Answer(r, a) == Goto(r, "done") /\ reply' = [reply EXCEPT ![r] = a]
At(r, ops, step) == pc[r] = step /\ call[r].op \in ops
Remember(r, x) == seen' = [seen EXCEPT ![r] = x]

\* The usual frame of a step of another service, which goes on to step.
GoOn(r, step) == Goto(r, step) /\ UNCHANGED <<call, who, seen, reply>>
End(r, a) == Answer(r, a) /\ UNCHANGED <<call, who, seen>>

Begin(r, c) ==
    /\ pc[r] = "idle"
    /\ call' = [call EXCEPT ![r] = c]
    /\ Goto(r, "start")
    /\ UNCHANGED <<accountVars, who, seen, reply>>

\* The signature, or the timestamp of a Login, is not valid.
Reject(r) ==
    /\ At(r, Ops \ {"GetUserFlags", "SendPush"}, "start")
    /\ \/ call[r].op = "Login" /\ \E a \in {"INVALID_TIMESTAMP", "DENIED"} : End(r, a)
       \/ call[r].op # "Login" /\ End(r, "unauthenticated")
    /\ UNCHANGED accountVars

\* What r did is committed, and the caller hears of it or does not.
Commits(r) == \E a \in {"OK", "lost"} : End(r, a)
Committed(r) == reply[r] \in {"OK", "lost"}

\* A statement fails, the caller's context ends, or the process dies.
Fail(r) ==
    /\ pc[r] \notin {"idle", "done"}
    /\ End(r, IF reply[r] = "none" THEN "unavailable" ELSE reply[r])
    /\ UNCHANGED accountVars
-----------------------------------------------------------------------------
(* Register: Bind looks the key up, then a transaction inserts the user    *)
(* and the key and sets the flag.                                          *)

\* Mutants, for the runs: each is a plausible slip in the definition whose
\* name it extends.
KeyTakenNever(k) == FALSE
CachedByBindAtOnce(r, u) ==
    [cachedUser EXCEPT ![call[r].server][call[r].key] = u]
WorthCachingAlways(flag) == TRUE

\* The primary key of the public keys table.
KeyTaken(k) == userOf[k] # None

\* The cache lets Bind through and keeps nothing of it.
CachedByBind(r, u) == cachedUser

NewUser == User \ (Range(userOf) \cup Range(who))

LookUpKey(r) ==
    LET known == userOf[call[r].key]
    IN  /\ At(r, {"Register"}, "start")
        /\ \/ /\ known # None
              /\ who' = [who EXCEPT ![r] = known]
              /\ Goto(r, "flag")
              /\ UNCHANGED cachedUser
           \/ /\ known = None
              /\ \E u \in NewUser : /\ who' = [who EXCEPT ![r] = u]
                                    /\ cachedUser' = CachedByBind(r, u)
              /\ Goto(r, "bind")
        /\ UNCHANGED <<userOf, registered, cachedFlag, call, seen, reply>>

Bind(r) ==
    LET k == call[r].key
    IN  /\ At(r, {"Register"}, "bind")
        /\ \/ /\ KeyTaken(k)            \* ErrManyPublicKeys
              /\ End(r, "internal")
              /\ UNCHANGED <<userOf, registered>>
           \/ /\ ~KeyTaken(k)
              /\ userOf' = [userOf EXCEPT ![k] = who[r]]
              /\ registered' = registered \cup {who[r]}
              /\ Commits(r)
        /\ UNCHANGED caches

SetRegistrationFlag(r) ==
    /\ At(r, {"Register"}, "flag")
    /\ registered' = registered \cup {who[r]}
    /\ Commits(r)
    /\ UNCHANGED <<userOf, caches>>
-----------------------------------------------------------------------------
(* Authorize and Login: the key's user, from the server's cache or the     *)
(* table.                                                                  *)

Gated == {"SetDisplayName", "LinkSocialAccount", "SendPhoneCode",
          "CheckPhoneCode", "UnlinkPhone", "SendEmailCode", "CheckEmailCode",
          "UnlinkEmail"}
Authorized == Ops \ {"Register", "GetUserFlags", "SendPush"}

UnknownKey(op) == IF op = "Login" THEN "DENIED" ELSE "permission_denied"

AfterAuthorize(r) == IF call[r].op \in Gated THEN "registered" ELSE "body"

GetUserId(r) ==
    LET known == userOf[call[r].key]
        cached == cachedUser[call[r].server][call[r].key]
    IN  /\ At(r, Authorized, "start")
        /\ \/ /\ cached # None
              /\ who' = [who EXCEPT ![r] = cached]
              /\ Goto(r, AfterAuthorize(r)) /\ UNCHANGED reply
           \/ /\ cached = None /\ known # None
              /\ who' = [who EXCEPT ![r] = known]
              /\ Goto(r, "cache_user") /\ UNCHANGED reply
           \/ /\ cached = None /\ known = None
              /\ Answer(r, UnknownKey(call[r].op)) /\ UNCHANGED who
        /\ UNCHANGED <<accountVars, call, seen>>

CacheUser(r) ==
    /\ pc[r] = "cache_user"
    /\ cachedUser' = [cachedUser EXCEPT ![call[r].server][call[r].key] = who[r]]
    /\ GoOn(r, AfterAuthorize(r))
    /\ UNCHANGED <<userOf, registered, cachedFlag>>

Login(r) ==
    /\ At(r, {"Login"}, "body")
    /\ End(r, "OK")
    /\ UNCHANGED accountVars

\* GetUserFlags lets in the key that is bound to the user it is about.
GetPubKeys(r) ==
    LET u == call[r].about
    IN  /\ At(r, {"GetUserFlags"}, "start")
        /\ \/ /\ userOf[call[r].key] = u
              /\ who' = [who EXCEPT ![r] = u]
              /\ Goto(r, "registered") /\ UNCHANGED reply
           \/ /\ userOf[call[r].key] # u
              /\ Answer(r, "DENIED") /\ UNCHANGED who
        /\ UNCHANGED <<accountVars, call, seen>>
-----------------------------------------------------------------------------
(* IsRegistered, from the server's cache or the table, and what the        *)
(* handlers do with it.                                                    *)

WorthCaching(flag) == flag

\* GetUserFlags returns the flag; the others turn the unregistered away.
UseFlag(r, flag) ==
    \/ /\ call[r].op = "GetUserFlags"
       /\ Answer(r, IF flag THEN "is_registered" ELSE "not_registered")
    \/ call[r].op # "GetUserFlags" /\ flag /\ Goto(r, "body") /\ UNCHANGED reply
    \/ call[r].op # "GetUserFlags" /\ ~flag /\ Answer(r, "not_registered")

IsRegistered(r) ==
    LET cached == cachedFlag[call[r].server][who[r]]
        stored == who[r] \in registered
    IN  /\ pc[r] = "registered"
        /\ \/ cached # None /\ UseFlag(r, cached) /\ UNCHANGED seen
           \/ /\ cached = None /\ WorthCaching(stored)
              /\ Remember(r, stored)
              /\ Goto(r, "cache_flag") /\ UNCHANGED reply
           \/ /\ cached = None /\ ~WorthCaching(stored)
              /\ UseFlag(r, stored) /\ UNCHANGED seen
        /\ UNCHANGED <<accountVars, call, who>>

CacheFlag(r) ==
    /\ pc[r] = "cache_flag"
    /\ cachedFlag' = [cachedFlag EXCEPT ![call[r].server][who[r]] = seen[r]]
    /\ UseFlag(r, seen[r])
    /\ UNCHANGED <<userOf, registered, cachedUser, call, who, seen>>
-----------------------------------------------------------------------------
\* The server processes have just started.
RequestsInit ==
    /\ cachedUser = [s \in Server |-> [k \in Key |-> None]]
    /\ cachedFlag = [s \in Server |-> [u \in User |-> None]]
    /\ pc = [r \in Req |-> "idle"]
    /\ call = [r \in Req |-> None]
    /\ who = [r \in Req |-> None]
    /\ seen = [r \in Req |-> None]
    /\ reply = [r \in Req |-> "none"]

AccountsInit ==
    /\ userOf = [k \in Key |-> None]
    /\ registered = {}
    /\ RequestsInit

AccountsStep(r) ==
    \/ LookUpKey(r) \/ Bind(r) \/ SetRegistrationFlag(r)
    \/ GetUserId(r) \/ CacheUser(r) \/ Login(r) \/ GetPubKeys(r)
    \/ IsRegistered(r) \/ CacheFlag(r)
    \/ Reject(r) \/ Fail(r)
-----------------------------------------------------------------------------
(* Properties *)

\* The requests that were told, or know, whose key they were signed with.
Knows(r) == who[r] # None /\ ~At(r, {"Register"}, "bind")
                          /\ reply[r] \notin {"internal", "unavailable"}

\* A key has one user for good, and a user one key, whatever Registers ran at
\* once and on whatever servers: all requests signed by a key act for the same
\* user, the one that Register answered with (account/server.go:101-119).
KeysAgree ==
    /\ \A r \in Req : Knows(r) => userOf[call[r].key] = who[r]
    /\ \A j, k \in Key : userOf[j] = userOf[k] /\ userOf[j] # None => j = k

\* The caches, which forget nothing (account/cache/store.go:25-27), hold what
\* the tables hold: a user for a key, and a registration.
CachesAgree ==
    \A s \in Server :
        /\ \A k \in Key : cachedUser[s][k] \in {None, userOf[k]}
        /\ \A u \in User : cachedFlag[s][u] = TRUE => u \in registered

\* A registered user is not turned away: none is called unregistered by a step
\* that starts after the registration was committed, be it on another server.
RegisteredNotDenied ==
    [][\A r \in Req :
          reply[r] = "none" /\ reply'[r] = "not_registered"
          => who[r] \notin registered]_<<accountVars, requestVars>>
=============================================================================
