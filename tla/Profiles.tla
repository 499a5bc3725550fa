------------------------------ MODULE Profiles ------------------------------
(***************************************************************************)
(* The names of users and their links to X accounts (profile/server.go     *)
(* over profile/postgres).  A call to link is about the X account that its *)
(* access token belongs to, or about None when X refuses the token.        *)
(***************************************************************************)
EXTENDS Accounts

CONSTANTS XAccount  \* ids of X accounts

ASSUME ProfilesAssumption ==
    /\ None \notin XAccount
    /\ \A c \in Calls :
          /\ c.op = "LinkSocialAccount" => c.about \in XAccount \cup {None}
          /\ c.op = "UnlinkSocialAccount" => c.about \in XAccount

VARIABLES
    name,           \* the users table: the display name of a user
    xOwner          \* the X profiles table: xOwner[x], the user linked to x

profileVars == <<name, xOwner>>

\* Mutants, for the runs: each is a plausible slip in the definition whose
\* name it extends.
LinkedElsewhereNever(u, x) == FALSE

SetDisplayName(r) ==
    /\ At(r, {"SetDisplayName"}, "body")
    /\ name' = [name EXCEPT ![who[r]] = call[r].about]
    /\ Commits(r)
    /\ UNCHANGED <<accountVars, xOwner>>
-----------------------------------------------------------------------------
Linking(r, step) == At(r, {"LinkSocialAccount"}, step)

XLinks(u) == {x \in XAccount : xOwner[x] = u}

\* The unique user id of the X profiles table.
LinkedElsewhere(u, x) == XLinks(u) \ {x} # {}

GetMyUser(r) ==
    /\ Linking(r, "body")
    /\ \/ call[r].about # None /\ GoOn(r, "read_link")
       \/ call[r].about = None /\ End(r, "INVALID_LINKING_TOKEN")
    /\ UNCHANGED <<accountVars, profileVars>>

GetXProfile(r) ==
    LET other == XLinks(who[r]) \ {call[r].about}
    IN  /\ Linking(r, "read_link")
        /\ \/ other = {} /\ GoOn(r, "upsert")
           \/ other # {} /\ End(r, "EXISTING_LINK")
        /\ UNCHANGED <<accountVars, profileVars>>

\* The row of the X account is inserted, or taken over from its former user.
UpsertXProfile(r) ==
    LET x == call[r].about
    IN  /\ Linking(r, "upsert")
        /\ \/ /\ ~LinkedElsewhere(who[r], x)
              /\ xOwner' = [xOwner EXCEPT ![x] = who[r]]
              /\ Commits(r)
           \/ /\ LinkedElsewhere(who[r], x)
              /\ End(r, "internal") /\ UNCHANGED xOwner
        /\ UNCHANGED <<accountVars, name>>
-----------------------------------------------------------------------------
OwnedBy(u, x) == xOwner[x] = u

UnlinkXAccount(r) ==
    LET x == call[r].about
    IN  /\ At(r, {"UnlinkSocialAccount"}, "body")
        /\ \/ /\ OwnedBy(who[r], x)
              /\ xOwner' = [xOwner EXCEPT ![x] = None]
              /\ Commits(r)
           \/ ~OwnedBy(who[r], x) /\ End(r, "DENIED") /\ UNCHANGED xOwner
        /\ UNCHANGED <<accountVars, name>>

ProfilesInit ==
    /\ name = [u \in User |-> None]
    /\ xOwner = [x \in XAccount |-> None]

ProfilesStep(r) ==
    \/ SetDisplayName(r) \/ UnlinkXAccount(r)
    \/ GetMyUser(r) \/ GetXProfile(r) \/ UpsertXProfile(r)
-----------------------------------------------------------------------------
(* Properties *)

\* Whatever links race, a user ends with one X account at most, though the
\* handler checks that before it writes; and an acknowledged link stands until
\* the user unlinks that account or another user proves to own it
\* (profile/postgres/store.go:97-113, profile/postgres/model.go:190-202).
LinksStand ==
    /\ \A u \in User : Cardinality(XLinks(u)) <= 1
    /\ \A r \in Req : Linking(r, "done") /\ Committed(r) =>
          \/ xOwner[call[r].about] = who[r]
          \/ \E q \in Req \ {r} :
                /\ call[q] # None /\ Committed(q)
                /\ call[q].about = call[r].about
                /\ \/ Linking(q, "done") /\ who[q] # who[r]
                   \/ At(q, {"UnlinkSocialAccount"}, "done") /\ who[q] = who[r]
=============================================================================
