------------------------------- MODULE Pushes -------------------------------
(***************************************************************************)
(* The push tokens of users (push/server.go over push/postgres) and the    *)
(* pushes sent to them (push/pusher.go).  A push is not a client's call: a *)
(* server sends it on its own, about a set of users, and then deletes the  *)
(* tokens that Firebase no longer knows, behind the caller's back.         *)
(***************************************************************************)
EXTENDS Accounts

CONSTANTS
    Install, Token, \* app installs; token values
    MaxBatch        \* the most tokens a push may have (500 in the code)

ASSUME PushesAssumption ==
    /\ None \notin Token
    /\ \A c \in Calls : c.op = "AddToken" => c.about \in Install /\ c.with \in Token

VARIABLES
    token,          \* the push tokens table: token[u][i] of user u, install i
    gone            \* external: the tokens that Firebase no longer knows

pushVars == <<token, gone>>
TokenRows == [user : User, install : Install, token : Token]

RowsOf(users) ==
    {row \in TokenRows : /\ row.user \in users
                         /\ token[row.user][row.install] = row.token}

\* Mutants, for the runs: each is a plausible slip in the definition whose
\* name it extends.
FitsMulticastAndOne(rows) == Cardinality(rows) \in 1..(MaxBatch + 1)
WithoutTheRow(row) == [token EXCEPT ![row.user][row.install] = None]

\* DeleteToken goes by the value: whoever holds it loses it.
Without(row) ==
    [u \in User |-> [i \in Install |->
        IF token[u][i] = row.token THEN None ELSE token[u][i]]]

AddToken(r) ==
    /\ At(r, {"AddToken"}, "body")
    /\ token' = [token EXCEPT ![who[r]][call[r].about] = call[r].with]
    /\ Commits(r)
    /\ UNCHANGED <<accountVars, gone>>

\* The tokens read are deleted one by one.
GetTokens(r) ==
    LET rows == {row \in RowsOf({who[r]}) : row.install = call[r].about}
    IN  /\ At(r, {"DeleteTokens"}, "body")
        /\ Remember(r, rows)
        /\ Goto(r, "delete")
        /\ UNCHANGED <<accountVars, pushVars, call, who, reply>>

DeleteNext(r) ==
    \E row \in seen[r] :
        /\ token' = Without(row)
        /\ Remember(r, seen[r] \ {row})
        /\ UNCHANGED <<accountVars, gone, pc, call, who, reply>>

DeleteToken(r) ==
    /\ At(r, {"DeleteTokens"}, "delete")
    /\ \/ DeleteNext(r)
       \/ /\ seen[r] = {} /\ End(r, "OK")
          /\ UNCHANGED <<accountVars, pushVars>>
-----------------------------------------------------------------------------
(* SendBasicPushes *)

\* A message may have MaxBatch tokens, and must have one.
FitsMulticast(rows) == Cardinality(rows) \in 1..MaxBatch

GetTokensBatch(r) ==
    LET rows == RowsOf(call[r].about)
    IN  /\ At(r, {"SendPush"}, "start")
        /\ \/ /\ FitsMulticast(rows)
              /\ Remember(r, rows) /\ Goto(r, "multicast") /\ UNCHANGED reply
           \/ /\ ~FitsMulticast(rows)
              /\ Answer(r, "dropped") /\ UNCHANGED seen
        /\ UNCHANGED <<accountVars, pushVars, call, who>>

\* The caller is answered; the goroutine that cleans up goes on.
SendEachForMulticast(r) ==
    LET invalid == {row \in seen[r] : row.token \in gone}
    IN  /\ At(r, {"SendPush"}, "multicast")
        /\ Remember(r, invalid)
        /\ reply' = [reply EXCEPT ![r] = "OK"]
        /\ Goto(r, IF invalid = {} THEN "done" ELSE "clean_up")
        /\ UNCHANGED <<accountVars, pushVars, call, who>>

\* A deletion that fails is ignored.
CleanUp(r) ==
    /\ At(r, {"SendPush"}, "clean_up")
    /\ \/ DeleteNext(r)
       \/ /\ \E row \in seen[r] : Remember(r, seen[r] \ {row})
          /\ UNCHANGED <<accountVars, pushVars, pc, call, who, reply>>
       \/ /\ seen[r] = {} /\ GoOn(r, "done")
          /\ UNCHANGED <<accountVars, pushVars>>

\* External: the app is uninstalled, or its token is replaced by a new one.
Forget(t) ==
    /\ t \notin gone
    /\ \E u \in User, i \in Install : token[u][i] = t
    /\ gone' = gone \cup {t}
    /\ UNCHANGED <<accountVars, requestVars, token>>

PushesInit ==
    /\ token = [u \in User |-> [i \in Install |-> None]]
    /\ gone = {}

PushesStep(r) ==
    \/ AddToken(r) \/ GetTokens(r) \/ DeleteToken(r)
    \/ GetTokensBatch(r) \/ SendEachForMulticast(r) \/ CleanUp(r)
-----------------------------------------------------------------------------
(* Properties *)

\* No cleanup deletes a token that Firebase still knows, even if an install got
\* it after the push was sent: it goes only when its install gets another one,
\* or by a DeleteTokens that found it (push/pusher.go:111-121).
TokenKept ==
    [][\A u \in User, i \in Install :
          token[u][i] \notin gone \cup {None} /\ token'[u][i] # token[u][i] =>
             \/ \E r \in Req : /\ At(r, {"AddToken"}, "body")
                               /\ pc'[r] = "done" /\ who[r] = u
                               /\ call[r].about = i
             \/ \E r \in Req : /\ At(r, {"DeleteTokens"}, "delete")
                               /\ seen'[r] # seen[r]
                               /\ \E row \in seen[r] : row.token = token[u][i]
      ]_<<accountVars, requestVars, pushVars>>
=============================================================================
