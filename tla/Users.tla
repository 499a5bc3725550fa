------------------------------- MODULE Users -------------------------------
(***************************************************************************)
(* The services that keep a user's account, purchases, profile, addresses  *)
(* and push tokens, composed: they share the tables of users and keys, the *)
(* authorization of requests and the caches of every server.               *)
(***************************************************************************)
EXTENDS Purchases, Profiles, Contacts, Pushes

usersVars == <<accountVars, requestVars, purchase, profileVars, contactVars,
               pushVars>>

Init ==
    /\ AccountsInit /\ PurchasesInit /\ ProfilesInit /\ ContactsInit
    /\ PushesInit

Serve(r) ==
    \/ /\ AccountsStep(r)
       /\ UNCHANGED <<purchase, profileVars, contactVars, pushVars>>
    \/ PurchasesStep(r) /\ UNCHANGED <<profileVars, contactVars, pushVars>>
    \/ ProfilesStep(r) /\ UNCHANGED <<purchase, contactVars, pushVars>>
    \/ ContactsStep(r) /\ UNCHANGED <<purchase, profileVars, pushVars>>
    \/ PushesStep(r) /\ UNCHANGED <<purchase, profileVars, contactVars>>

Ask(r, c) ==
    /\ Begin(r, c)
    /\ UNCHANGED <<purchase, profileVars, contactVars, pushVars>>

World ==
    \/ /\ \E a \in Address : Lapse(a)
       /\ UNCHANGED <<purchase, profileVars, pushVars>>
    \/ /\ \E t \in Token : Forget(t)
       /\ UNCHANGED <<purchase, profileVars, contactVars>>

Next ==
    \/ \E r \in Req : Serve(r) \/ \E c \in Calls : Ask(r, c)
    \/ World

Spec == Init /\ [][Next]_usersVars
-----------------------------------------------------------------------------
(* Properties *)

\* The results that the response of each call has.
Results(op) ==
    CASE op \in {"Register", "AddToken", "DeleteTokens"} -> {"OK"}
      [] op = "Login" -> {"OK", "DENIED", "INVALID_TIMESTAMP"}
      [] op = "SendPush" -> {"OK", "dropped"}
      [] op = "GetUserFlags" -> {"is_registered", "not_registered", "DENIED"}
      [] op = "OnPurchaseCompleted" ->
            {"OK", "DENIED", "INVALID_RECEIPT", "INVALID_METADATA"}
      [] op \in {"SetDisplayName", "UnlinkPhone", "UnlinkEmail"} ->
            {"OK", "not_registered"}
      [] op = "LinkSocialAccount" ->
            {"OK", "not_registered", "INVALID_LINKING_TOKEN", "EXISTING_LINK"}
      [] op = "UnlinkSocialAccount" -> {"OK", "DENIED"}
      [] op = "SendPhoneCode" ->
            {"OK", "not_registered", "RATE_LIMITED", "INVALID_PHONE_NUMBER",
             "UNSUPPORTED_PHONE_TYPE"}
      [] op = "SendEmailCode" ->
            {"OK", "not_registered", "RATE_LIMITED", "INVALID_EMAIL_ADDRESS"}
      [] op \in {"CheckPhoneCode", "CheckEmailCode"} ->
            {"OK", "not_registered", "INVALID_CODE", "NO_VERIFICATION"}

Errors == {"lost", "unavailable", "internal", "unauthenticated",
           "permission_denied"}

RequestOK(r) ==
    IF call[r] = None
    THEN pc[r] = "idle" /\ who[r] = None /\ seen[r] = None /\ reply[r] = "none"
    ELSE /\ call[r] \in Calls
         /\ pc[r] # "idle" /\ who[r] \in User \cup {None}
         /\ reply[r] \in {"none"} \cup Results(call[r].op) \cup Errors
         /\ pc[r] = "done" => reply[r] # "none"
         /\ IF call[r].op \in {"DeleteTokens", "SendPush"}
            THEN seen[r] \in {None} \cup SUBSET TokenRows
            ELSE seen[r] \in {None} \cup BOOLEAN
         /\ At(r, {"SendPush"}, "multicast") =>
                Cardinality(seen[r]) \in 1..MaxBatch

\* Every table holds values of its type, every request ends with an answer, an
\* answer is one that the response of its call can carry or an error, and a push
\* has no more tokens than Firebase takes (push/pusher.go:55-63).
UsersTypeOK ==
    /\ userOf \in [Key -> User \cup {None}]
    /\ registered \subseteq User
    /\ cachedUser \in [Server -> [Key -> User \cup {None}]]
    /\ cachedFlag \in [Server -> [User -> BOOLEAN \cup {None}]]
    /\ purchase \in [Receipt -> User \cup {None}]
    /\ xOwner \in [XAccount -> User \cup {None}]
    /\ contact \in [Kinds -> [User -> Address \cup {None}]]
    /\ verification \in [Address -> Verifications \cup {None}]
    /\ token \in [User -> [Install -> Token \cup {None}]]
    /\ gone \subseteq Token
    /\ \A r \in Req : RequestOK(r)
=============================================================================
