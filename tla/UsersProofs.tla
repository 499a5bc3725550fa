---------------------------- MODULE UsersProofs ----------------------------
(***************************************************************************)
(* Proofs about the requests of users, for all users, keys, servers,       *)
(* caches, requests and calls.                                             *)
(*                                                                         *)
(* RequestsShape says what is known of a request at each of its steps;     *)
(* TablesOK, what the tables and the caches hold.  UserTablesProofs takes  *)
(* the properties of the services from them.                               *)
(***************************************************************************)
EXTENDS Users, TLAPS

(* What is known of a request by the step that it has reached.             *)

Steps ==
    {"idle", "start", "done", "bind", "flag", "cache_user", "body", "registered",
     "cache_flag", "verify", "read_purchase", "fulfil", "reread", "read_link",
     "upsert", "send", "save", "delete", "multicast", "clean_up"}
Replies ==
    {"none", "OK", "dropped", "is_registered", "not_registered", "DENIED",
     "INVALID_TIMESTAMP", "INVALID_RECEIPT", "INVALID_METADATA",
     "INVALID_LINKING_TOKEN", "EXISTING_LINK", "RATE_LIMITED",
     "INVALID_PHONE_NUMBER", "UNSUPPORTED_PHONE_TYPE", "INVALID_EMAIL_ADDRESS",
     "INVALID_CODE", "NO_VERIFICATION"} \cup Errors
PhoneRefusals == {"RATE_LIMITED", "INVALID_PHONE_NUMBER"}
EmailRefusals == {"RATE_LIMITED", "INVALID_EMAIL_ADDRESS"}
Answers(op) == Results(op) \cup Errors

Waiting == {"idle", "start"}
Answered == {"done", "clean_up"}
Findings == {None} \cup BOOLEAN \cup SUBSET TokenRows

TokenOps == {"DeleteTokens", "SendPush"}
FindingsOf(op) ==
    {None} \cup IF op \in TokenOps THEN SUBSET TokenRows ELSE BOOLEAN

Shape(r) ==
    /\ call[r] = None <=> pc[r] = "idle"
    /\ pc[r] \in Waiting => who[r] = None /\ seen[r] = None
    /\ pc[r] \notin Answered => reply[r] = "none"
    /\ pc[r] \in Answered => reply[r] # "none"
    /\ call[r] # None => reply[r] \in {"none"} \cup Answers(call[r].op)
    /\ pc[r] \notin Waiting \cup {"done", "multicast", "clean_up"} => who[r] \in User
    /\ pc[r] = "cache_user" => call[r].op \in Authorized
    /\ pc[r] \in {"registered", "cache_flag"} =>
          call[r].op \in Gated \cup {"GetUserFlags"}
    /\ pc[r] \in {"multicast", "clean_up"} => call[r].op = "SendPush"
    /\ call[r] # None => seen[r] \in FindingsOf(call[r].op)
    /\ pc[r] = "cache_flag" => seen[r] = TRUE
    /\ pc[r] \in {"delete", "multicast", "clean_up"} =>
          call[r].op \in TokenOps /\ seen[r] \in SUBSET TokenRows
    /\ pc[r] = "multicast" => FitsMulticast(seen[r])

RequestsShape ==
    /\ pc \in [Req -> Steps]
    /\ call \in [Req -> Calls \cup {None}]
    /\ who \in [Req -> User \cup {None}]
    /\ seen \in [Req -> Findings]
    /\ reply \in [Req -> Replies]
    /\ \A r \in Req : Shape(r)

\* The other requests stay as they are.
Alone(r) ==
    /\ call' = call
    /\ \A q \in Req \ {r} :
          /\ pc'[q] = pc[q] /\ who'[q] = who[q]
          /\ seen'[q] = seen[q] /\ reply'[q] = reply[q]

\* The tables of keys and users hold keys and users, and so do the caches.
TablesTyped ==
    /\ userOf \in [Key -> User \cup {None}]
    /\ registered \subseteq User
    /\ cachedUser \in [Server -> [Key -> User \cup {None}]]
    /\ cachedFlag \in [Server -> [User -> BOOLEAN \cup {None}]]

\* The steps of each service go by the step a request has reached, touch no
\* other request, and keep the shape of their own.
Moves(r) ==
    /\ pc[r] \notin {"idle", "done"}
    /\ Alone(r)
    /\ pc' \in [Req -> Steps] /\ who' \in [Req -> User \cup {None}]
    /\ seen' \in [Req -> Findings] /\ reply' \in [Req -> Replies]
    /\ Shape(r)'

LEMMA AnswersOf ==
    /\ \A op \in Ops : /\ Errors \subseteq Answers(op)
                       /\ Answers(op) \subseteq Replies \ {"none"}
    /\ \A op \in Ops \ {"GetUserFlags"} : "OK" \in Answers(op)
    /\ \A op \in Gated \cup {"GetUserFlags"} : "not_registered" \in Answers(op)
    /\ {"is_registered", "DENIED"} \subseteq Answers("GetUserFlags")
    /\ {"DENIED", "INVALID_TIMESTAMP"} \subseteq Answers("Login")
    /\ "dropped" \in Answers("SendPush")
    /\ {"DENIED", "INVALID_RECEIPT", "INVALID_METADATA"}
          \subseteq Answers("OnPurchaseCompleted")
    /\ {"INVALID_LINKING_TOKEN", "EXISTING_LINK"}
          \subseteq Answers("LinkSocialAccount")
    /\ "DENIED" \in Answers("UnlinkSocialAccount")
    /\ PhoneRefusals \cup {"UNSUPPORTED_PHONE_TYPE"}
          \subseteq Answers("SendPhoneCode")
    /\ EmailRefusals \subseteq Answers("SendEmailCode")
    /\ \A op \in {"CheckPhoneCode", "CheckEmailCode"} :
          {"INVALID_CODE", "NO_VERIFICATION"} \subseteq Answers(op)
<1>. USE DEF Answers, Results
<1>1. \A op \in Ops : /\ Errors \subseteq Answers(op)
                      /\ Answers(op) \subseteq Replies \ {"none"}
  BY DEF Ops, Replies, Errors
<1>2. \A op \in Ops \ {"GetUserFlags"} : "OK" \in Answers(op)
  BY DEF Ops
<1>3. \A op \in Gated \cup {"GetUserFlags"} : "not_registered" \in Answers(op)
  BY DEF Gated
<1>. QED
  BY <1>1, <1>2, <1>3 DEF PhoneRefusals, EmailRefusals

\* The three ways a step leaves its own request: at its end, at a further step
\* with all else as it was, and at a further step with some of it changed.
LEMMA EndMoves ==
    ASSUME NEW r \in Req, RequestsShape, pc[r] \notin {"idle", "done"},
           NEW a \in Answers(call[r].op), End(r, a)
    PROVE  Moves(r)
<1>0. call[r] \in Calls /\ a \in Replies \ {"none"}
  BY AnswersOf, AccountsAssumption DEF RequestsShape, Shape
<1>1. /\ pc' = [pc EXCEPT ![r] = "done"] /\ reply' = [reply EXCEPT ![r] = a]
      /\ call' = call /\ who' = who /\ seen' = seen
  BY DEF End, Answer, Goto
<1>2. Alone(r)
  BY <1>1 DEF Alone, RequestsShape
<1>3. Shape(r)'
  BY <1>0, <1>1 DEF Shape, RequestsShape, Waiting, Answered
<1>4. reply' \in [Req -> Replies]
  BY <1>0, <1>1 DEF RequestsShape
<1>5. pc' \in [Req -> Steps]
  BY <1>1 DEF RequestsShape, Steps
<1>6. who' \in [Req -> User \cup {None}] /\ seen' \in [Req -> Findings]
  BY <1>1 DEF RequestsShape
<1>. QED
  BY <1>1, <1>2, <1>3, <1>4, <1>5, <1>6 DEF Moves

LEMMA GoOnMoves ==
    ASSUME NEW r \in Req, RequestsShape, pc[r] \notin {"idle", "done"},
           who[r] \in User,
           NEW step \in Steps \ (Waiting \cup Answered),
           step \notin {"cache_user", "cache_flag", "delete", "multicast"},
           pc[r] \notin Answered,
           step = "registered" =>
              call[r].op \in Gated \cup {"GetUserFlags"},
           GoOn(r, step)
    PROVE  Moves(r)
<1>1. /\ pc' = [pc EXCEPT ![r] = step] /\ reply' = reply
      /\ call' = call /\ who' = who /\ seen' = seen
  BY DEF GoOn, Goto
<1>2. Alone(r)
  BY <1>1 DEF Alone, RequestsShape
<1>3. Shape(r)'
  BY <1>1 DEF Shape, RequestsShape, Waiting, Answered
<1>. QED
  BY <1>1, <1>2, <1>3 DEF Moves, RequestsShape

LEMMA StepMoves ==
    ASSUME NEW r \in Req, RequestsShape, pc[r] \notin {"idle", "done"},
           NEW step \in Steps \ Waiting, NEW u \in User \cup {None},
           NEW x \in Findings, NEW a \in Replies,
           pc' = [pc EXCEPT ![r] = step], call' = call,
           who' = [who EXCEPT ![r] = u] \/ (who' = who /\ u = who[r]),
           seen' = [seen EXCEPT ![r] = x] \/ (seen' = seen /\ x = seen[r]),
           reply' = [reply EXCEPT ![r] = a] \/ (reply' = reply /\ a = reply[r]),
           step \notin Answered => a = "none", step \in Answered => a # "none",
           a \in {"none"} \cup Answers(call[r].op),
           step \notin {"done", "multicast", "clean_up"} => u \in User,
           step = "cache_user" => call[r].op \in Authorized,
           step \in {"registered", "cache_flag"} =>
              call[r].op \in Gated \cup {"GetUserFlags"},
           step \in {"multicast", "clean_up"} => call[r].op = "SendPush",
           x \in FindingsOf(call[r].op),
           step = "cache_flag" => x = TRUE,
           step \in {"delete", "multicast", "clean_up"} =>
              call[r].op \in TokenOps /\ x \in SUBSET TokenRows,
           step = "multicast" => FitsMulticast(x)
    PROVE  Moves(r)
<1>1. /\ pc \in [Req -> Steps] /\ who \in [Req -> User \cup {None}]
      /\ seen \in [Req -> Findings] /\ reply \in [Req -> Replies] /\ Shape(r)
  BY DEF RequestsShape
<1>2. /\ pc' \in [Req -> Steps] /\ who' \in [Req -> User \cup {None}]
      /\ seen' \in [Req -> Findings] /\ reply' \in [Req -> Replies]
      /\ pc'[r] = step /\ who'[r] = u /\ seen'[r] = x /\ reply'[r] = a
  BY <1>1
<1>3. Alone(r)
  BY <1>1 DEF Alone
<1>4. Shape(r)'
  BY <1>1, <1>2 DEF Shape, Waiting, Answered
<1>. QED
  BY <1>2, <1>3, <1>4 DEF Moves

LEMMA AccountsMove ==
    ASSUME NEW r \in Req, RequestsShape, TablesTyped, AccountsStep(r)
    PROVE  Moves(r)
<1>0. /\ pc \in [Req -> Steps] /\ call \in [Req -> Calls \cup {None}]
      /\ who \in [Req -> User \cup {None}] /\ seen \in [Req -> Findings]
      /\ reply \in [Req -> Replies] /\ Shape(r)
  BY DEF RequestsShape
<1>1. CASE LookUpKey(r)
  <2>1. PICK u \in User, step \in {"flag", "bind"} :
           /\ pc' = [pc EXCEPT ![r] = step] /\ who' = [who EXCEPT ![r] = u]
           /\ call' = call /\ seen' = seen /\ reply' = reply
    BY <1>1, AccountsAssumption DEF LookUpKey, Goto, NewUser, TablesTyped, At, RequestsShape, Shape
  <2>2. pc[r] = "start" /\ call[r].op = "Register"
    BY <1>1 DEF LookUpKey, At
  <2>. QED
    BY <1>0, <2>1, <2>2 DEF Moves, Alone, Shape, Waiting, Answered, Steps
<1>2. CASE Bind(r)
  BY <1>2, EndMoves, AnswersOf DEF Bind, Commits, Ops, Errors, At
<1>3. CASE SetRegistrationFlag(r)
  BY <1>3, EndMoves, AnswersOf
     DEF SetRegistrationFlag, Commits, Ops, Errors, At
<1>4. CASE GetUserId(r)
  <2>1. /\ pc[r] = "start" /\ call[r].op \in Authorized /\ call[r] \in Calls
        /\ call[r].key \in Key /\ call[r].server \in Server
    BY <1>0, <1>4, AccountsAssumption DEF GetUserId, At, Authorized, Ops, Shape
  <2>2. \/ /\ \E step \in {"registered", "body", "cache_user"}, u \in User :
                /\ pc' = [pc EXCEPT ![r] = step] /\ who' = [who EXCEPT ![r] = u]
                /\ step = "registered" => call[r].op \in Gated
           /\ UNCHANGED <<call, seen, reply>>
        \/ End(r, UnknownKey(call[r].op))
    BY <1>4, <2>1 DEF GetUserId, AfterAuthorize, TablesTyped, Goto, Answer, End
  <2>3. CASE End(r, UnknownKey(call[r].op))
    BY <2>1, <2>3, EndMoves, AnswersOf DEF UnknownKey, Authorized, Ops, Errors
  <2>4. ASSUME NEW step \in {"registered", "body", "cache_user"}, NEW u \in User,
               pc' = [pc EXCEPT ![r] = step], who' = [who EXCEPT ![r] = u],
               step = "registered" => call[r].op \in Gated,
               UNCHANGED <<call, seen, reply>>
        PROVE  Moves(r)
    BY <1>0, <2>1, <2>4, StepMoves DEF Steps, Waiting, Answered, Shape
  <2>. QED
    BY <2>2, <2>3, <2>4
<1>5. CASE CacheUser(r)
  BY <1>0, <1>5, GoOnMoves
     DEF CacheUser, AfterAuthorize, Shape, Waiting, Answered, Steps
<1>6. CASE Login(r)
  BY <1>6, EndMoves, AnswersOf DEF Login, At, Ops
<1>7. CASE GetPubKeys(r)
  <2>1. /\ pc[r] = "start" /\ call[r].op = "GetUserFlags" /\ call[r] \in Calls
        /\ call[r].about \in User
    BY <1>0, <1>7, AccountsAssumption DEF GetPubKeys, At, Shape
  <2>2. \/ /\ pc' = [pc EXCEPT ![r] = "registered"]
           /\ who' = [who EXCEPT ![r] = call[r].about]
           /\ UNCHANGED <<call, seen, reply>>
        \/ End(r, "DENIED")
    BY <1>7 DEF GetPubKeys, Goto, Answer, End
  <2>. QED
    BY <1>0, <2>1, <2>2, EndMoves, StepMoves, AnswersOf
       DEF Steps, Waiting, Answered, Shape
<1>8. ASSUME NEW flag \in BOOLEAN, pc[r] \in {"registered", "cache_flag"},
             UseFlag(r, flag), UNCHANGED <<call, who, seen>>
      PROVE  Moves(r)
  <2>1. \/ call[r].op = "GetUserFlags" /\ End(r, "is_registered")
        \/ End(r, "not_registered") \/ GoOn(r, "body")
    BY <1>8 DEF UseFlag, End, GoOn, Answer
  <2>. QED
    BY <1>0, <1>8, <2>1, EndMoves, GoOnMoves, AnswersOf
       DEF Shape, Steps, Waiting, Answered
<1>9. CASE IsRegistered(r)
  <2>1. /\ pc[r] = "registered" /\ call[r] \in Calls /\ who[r] \in User
        /\ call[r].server \in Server
        /\ call[r].op \in Gated \cup {"GetUserFlags"}
    BY <1>0, <1>9, AccountsAssumption DEF IsRegistered, Shape, Waiting
  <2>2. cachedFlag[call[r].server][who[r]] \in BOOLEAN \cup {None}
    BY <2>1 DEF TablesTyped
  <2>3. \/ \E flag \in BOOLEAN : UseFlag(r, flag) /\ UNCHANGED <<call, who, seen>>
        \/ /\ pc' = [pc EXCEPT ![r] = "cache_flag"]
           /\ seen' = [seen EXCEPT ![r] = TRUE]
           /\ UNCHANGED <<call, who, reply>>
    <3>1. CASE cachedFlag[call[r].server][who[r]] # None
      BY <1>9, <2>2, <3>1 DEF IsRegistered
    <3>2. CASE /\ cachedFlag[call[r].server][who[r]] = None
               /\ who[r] \in registered
      <4>1. (who[r] \in registered) = TRUE
        BY <3>2
      <4>. QED
        BY <1>9, <3>2, <4>1 DEF IsRegistered, WorthCaching, Remember, Goto
    <3>3. CASE /\ cachedFlag[call[r].server][who[r]] = None
               /\ who[r] \notin registered
      <4>1. (who[r] \in registered) = FALSE
        BY <3>3
      <4>. QED
        BY <1>9, <3>3, <4>1 DEF IsRegistered, WorthCaching
    <3>. QED
      BY <3>1, <3>2, <3>3
  <2>4. CASE \E flag \in BOOLEAN : UseFlag(r, flag) /\ UNCHANGED <<call, who, seen>>
    BY <1>8, <2>1, <2>4
  <2>5. ASSUME pc' = [pc EXCEPT ![r] = "cache_flag"],
               seen' = [seen EXCEPT ![r] = TRUE], UNCHANGED <<call, who, reply>>
        PROVE  Moves(r)
    <3>1. TRUE \in FindingsOf(call[r].op) /\ TRUE \in Findings
      BY <2>1 DEF FindingsOf, TokenOps, Gated, Findings
    <3>. QED
      BY <1>0, <2>1, <2>5, <3>1, StepMoves DEF Steps, Waiting, Answered, Shape
  <2>. QED
    BY <2>3, <2>4, <2>5
<1>12. CASE CacheFlag(r)
  BY <1>0, <1>8, <1>12 DEF CacheFlag, Shape
<1>10. CASE Reject(r)
  BY <1>10, EndMoves, AnswersOf DEF Reject, At, Ops, Errors
<1>11. CASE Fail(r)
  <2>1. call[r] \in Calls /\ call[r].op \in Ops /\ pc[r] \notin {"idle", "done"}
    BY <1>0, <1>11, AccountsAssumption DEF Fail, Shape
  <2>2. PICK a \in Answers(call[r].op) : End(r, a)
    BY <1>0, <1>11, <2>1, AnswersOf DEF Fail, Shape, Errors
  <2>. QED
    BY <2>1, <2>2, EndMoves
<1>. QED
  BY <1>1, <1>2, <1>3, <1>4, <1>5, <1>6, <1>7, <1>8, <1>9, <1>10, <1>11, <1>12 DEF AccountsStep

\* The steps of the services other than accounts act for a user.
LEMMA ActsFor ==
    ASSUME NEW r \in Req, RequestsShape,
           pc[r] \notin Waiting \cup {"done", "multicast", "clean_up"}
    PROVE  /\ who[r] \in User /\ call[r] \in Calls /\ pc[r] \notin Answered
           /\ reply[r] = "none"
  BY DEF RequestsShape, Shape, Waiting, Answered

LEMMA PurchasesMove ==
    ASSUME NEW r \in Req, RequestsShape, PurchasesStep(r)
    PROVE  Moves(r)
<1>0. /\ call[r].op = "OnPurchaseCompleted"
      /\ {"OK", "internal", "DENIED", "INVALID_RECEIPT", "INVALID_METADATA"}
            \subseteq Answers(call[r].op)
  <2>1. call[r].op = "OnPurchaseCompleted"
    BY DEF PurchasesStep, CheckProduct, VerifyReceipt, GetPurchaseByID, Fulfil,
           RereadPurchase, Buying, At
  <2>. QED
    BY <2>1, AnswersOf DEF Ops, Errors
<1>1. pc[r] \in {"body", "verify", "read_purchase", "fulfil", "reread"}
  BY DEF PurchasesStep, CheckProduct, VerifyReceipt, GetPurchaseByID, Fulfil,
         RereadPurchase, Buying, At
<1>2. ASSUME NEW a \in Answers(call[r].op), End(r, a)
      PROVE  Moves(r)
  BY <1>1, <1>2, EndMoves
<1>3. ASSUME NEW step \in {"verify", "read_purchase", "fulfil", "reread"},
             GoOn(r, step)
      PROVE  Moves(r)
  BY <1>1, <1>3, ActsFor, GoOnMoves DEF Steps, Waiting, Answered
<1>4. CASE CheckProduct(r)
  BY <1>0, <1>2, <1>3, <1>4 DEF CheckProduct, Judge
<1>5. CASE VerifyReceipt(r)
  BY <1>0, <1>2, <1>3, <1>5 DEF VerifyReceipt
<1>6. CASE GetPurchaseByID(r)
  BY <1>0, <1>2, <1>3, <1>6 DEF GetPurchaseByID
<1>7. CASE Fulfil(r)
  BY <1>0, <1>2, <1>3, <1>7 DEF Fulfil
<1>8. CASE RereadPurchase(r)
  BY <1>0, <1>2, <1>3, <1>8 DEF RereadPurchase
<1>. QED
  BY <1>4, <1>5, <1>6, <1>7, <1>8 DEF PurchasesStep

LEMMA ProfilesMove ==
    ASSUME NEW r \in Req, RequestsShape, ProfilesStep(r)
    PROVE  Moves(r)
<1>1. pc[r] \in {"body", "read_link", "upsert"}
  BY DEF ProfilesStep, SetDisplayName, UnlinkXAccount, GetMyUser, GetXProfile,
         UpsertXProfile, Linking, At
<1>2. ASSUME NEW a \in Answers(call[r].op), End(r, a)
      PROVE  Moves(r)
  BY <1>1, <1>2, EndMoves
<1>3. ASSUME NEW step \in {"read_link", "upsert"}, GoOn(r, step)
      PROVE  Moves(r)
  BY <1>1, <1>3, ActsFor, GoOnMoves DEF Steps, Waiting, Answered
<1>9. /\ \A op \in Ops \ {"GetUserFlags"} : {"OK", "lost", "internal"} \subseteq Answers(op)
      /\ {"INVALID_LINKING_TOKEN", "EXISTING_LINK"} \subseteq Answers("LinkSocialAccount")
      /\ "DENIED" \in Answers("UnlinkSocialAccount")
  BY AnswersOf DEF Errors
<1>. USE DEF Ops
<1>4. CASE SetDisplayName(r)
  BY <1>2, <1>4, <1>9 DEF SetDisplayName, Commits, At
<1>5. CASE UnlinkXAccount(r)
  BY <1>2, <1>5, <1>9 DEF UnlinkXAccount, Commits, At
<1>6. CASE GetMyUser(r)
  BY <1>2, <1>3, <1>6, <1>9 DEF GetMyUser, Linking, At
<1>7. CASE GetXProfile(r)
  BY <1>2, <1>3, <1>7, <1>9 DEF GetXProfile, Linking, At
<1>8. CASE UpsertXProfile(r)
  BY <1>2, <1>8, <1>9 DEF UpsertXProfile, Commits, Linking, At
<1>. QED
  BY <1>4, <1>5, <1>6, <1>7, <1>8 DEF ProfilesStep

\* What the answers of Twilio become.
LEMMA Refusals ==
    /\ {PhoneSendResult(err) : err \in Range(PhoneSendErrors)} \subseteq PhoneRefusals
    /\ {EmailSendResult(err) : err \in Range(EmailSendErrors)} \subseteq EmailRefusals
    /\ PhoneSendResult("ErrInvalidNumber") = "INVALID_PHONE_NUMBER"
    /\ PhoneSendResult("ErrUnsupportedPhoneType") = "UNSUPPORTED_PHONE_TYPE"
<1>1. /\ Range(PhoneSendErrors) \subseteq {"ErrInvalidNumber", "ErrRateLimited"}
      /\ Range(EmailSendErrors) \subseteq {"ErrInvalidEmail", "ErrRateLimited"}
  BY DEF Range, PhoneSendErrors, EmailSendErrors
<1>. QED
  BY <1>1 DEF PhoneSendResult, EmailSendResult, PhoneRefusals, EmailRefusals

LEMMA SendAnswers ==
    ASSUME NEW r, NEW refusals, CreateVerification(r, refusals)
    PROVE  /\ \E a \in refusals \cup {"OK", "lost"} : End(r, a)
           /\ UNCHANGED <<accountVars, contact>>
  BY DEF CreateVerification, Commits

LEMMA CheckAnswers ==
    ASSUME NEW r, NEW errors \in {PhoneCheckErrors, EmailCheckErrors},
           CreateVerificationCheck(r, errors)
    PROVE  /\ \/ End(r, "INVALID_CODE") \/ End(r, "NO_VERIFICATION")
              \/ GoOn(r, "save")
           /\ UNCHANGED <<accountVars, contact>>
<1>1. /\ errors["404"] = "ErrNoVerification"
      /\ errors["max_checks"] = "ErrNoVerification"
  BY DEF PhoneCheckErrors, EmailCheckErrors
<1>2. /\ CheckResult("ErrInvalidVerificationCode") = "INVALID_CODE"
      /\ CheckResult("ErrNoVerification") = "NO_VERIFICATION"
  BY DEF CheckResult
<1>. QED
  BY <1>1, <1>2 DEF CreateVerificationCheck

LEMMA ContactsMove ==
    ASSUME NEW r \in Req, RequestsShape, ContactsStep(r)
    PROVE  Moves(r)
<1>1. pc[r] \in {"body", "send", "save"}
  BY DEF ContactsStep, LookUpPhone, SendPhoneCode, SendEmailCode, CheckPhoneCode,
         CheckEmailCode, SetPhoneNumber, SetEmailAddress, UnlinkPhone,
         UnlinkEmail, At
<1>2. ASSUME NEW a \in Answers(call[r].op), End(r, a)
      PROVE  Moves(r)
  BY <1>1, <1>2, EndMoves
<1>3. ASSUME NEW step \in {"send", "save"}, GoOn(r, step)
      PROVE  Moves(r)
  BY <1>1, <1>3, ActsFor, GoOnMoves DEF Steps, Waiting, Answered
<1>10. \A op \in Ops \ {"GetUserFlags"} : {"OK", "lost"} \subseteq Answers(op)
  BY AnswersOf DEF Errors
<1>4. CASE LookUpPhone(r)
  BY <1>2, <1>3, <1>4, Refusals, AnswersOf
     DEF LookUpPhone, At, PhoneRefusals
<1>5. CASE SendPhoneCode(r)
  <2>1. \E a \in PhoneRefusals \cup {"OK", "lost"} : End(r, a)
    BY <1>5, SendAnswers, Refusals DEF SendPhoneCode
  <2>. QED
    BY <1>2, <1>5, <1>10, <2>1, AnswersOf DEF SendPhoneCode, At, Ops
<1>6. CASE SendEmailCode(r)
  <2>1. \E a \in EmailRefusals \cup {"OK", "lost"} : End(r, a)
    BY <1>6, SendAnswers, Refusals DEF SendEmailCode
  <2>. QED
    BY <1>2, <1>6, <1>10, <2>1, AnswersOf DEF SendEmailCode, At, Ops
<1>7. CASE CheckPhoneCode(r) \/ CheckEmailCode(r)
  <2>1. End(r, "INVALID_CODE") \/ End(r, "NO_VERIFICATION") \/ GoOn(r, "save")
    BY <1>7, CheckAnswers DEF CheckPhoneCode, CheckEmailCode
  <2>. QED
    BY <1>2, <1>3, <1>7, <2>1, AnswersOf DEF CheckPhoneCode, CheckEmailCode, At
<1>8. CASE SetPhoneNumber(r) \/ SetEmailAddress(r)
  BY <1>2, <1>8, <1>10
     DEF SetPhoneNumber, SetEmailAddress, SetContact, Commits, At, Ops
<1>9. CASE UnlinkPhone(r) \/ UnlinkEmail(r)
  BY <1>2, <1>9, <1>10
     DEF UnlinkPhone, UnlinkEmail, Unlink, Commits, At, Ops
<1>. QED
  BY <1>4, <1>5, <1>6, <1>7, <1>8, <1>9 DEF ContactsStep

LEMMA PushesMove ==
    ASSUME NEW r \in Req, RequestsShape, PushesStep(r)
    PROVE  Moves(r)
<1>0. /\ pc \in [Req -> Steps] /\ call \in [Req -> Calls \cup {None}]
      /\ who \in [Req -> User \cup {None}] /\ seen \in [Req -> Findings]
      /\ reply \in [Req -> Replies] /\ Shape(r)
  BY DEF RequestsShape
<1>1. pc[r] \in {"start", "body", "delete", "multicast", "clean_up"}
  BY DEF PushesStep, AddToken, GetTokens, DeleteToken, GetTokensBatch,
         SendEachForMulticast, CleanUp, At
<1>2. ASSUME NEW a \in Answers(call[r].op), End(r, a)
      PROVE  Moves(r)
  BY <1>1, <1>2, EndMoves
\* The steps that change what the request has yet to use.
<1>3. ASSUME NEW step \in {"delete", "multicast", "clean_up", "done"},
             NEW rows \in SUBSET TokenRows, NEW a \in Replies,
             pc' = [pc EXCEPT ![r] = step] \/ (pc' = pc /\ step = pc[r]),
             seen' = [seen EXCEPT ![r] = rows], call' = call, who' = who,
             reply' = [reply EXCEPT ![r] = a] \/ (reply' = reply /\ a = reply[r]),
             step \notin Answered => a = "none", call[r].op \in TokenOps,
             step \in Answered => a # "none",
             a \in {"none"} \cup Answers(call[r].op),
             step = "delete" => call[r].op = "DeleteTokens" /\ who[r] \in User,
             step \in {"multicast", "clean_up"} => call[r].op = "SendPush",
             step = "multicast" => FitsMulticast(rows)
      PROVE  Moves(r)
  <2>1. pc' = [pc EXCEPT ![r] = step]
    BY <1>0, <1>3
  <2>2. rows \in Findings /\ rows \in FindingsOf(call[r].op)
    BY <1>3 DEF Findings, FindingsOf
  <2>. QED
    BY <1>0, <1>1, <1>3, <2>1, <2>2, StepMoves DEF Steps, Waiting, Answered
<1>11. /\ \A op \in Ops \ {"GetUserFlags"} : {"OK", "lost"} \subseteq Answers(op)
       /\ "dropped" \in Answers("SendPush")
  BY AnswersOf DEF Errors
<1>4. CASE AddToken(r)
  BY <1>2, <1>4, <1>11 DEF AddToken, Commits, At, Ops
<1>5. CASE GetTokens(r)
  BY <1>3, <1>5, ActsFor DEF GetTokens, At, Goto, Remember, RowsOf, TokenOps,
     Waiting, Answered, Replies
<1>6. ASSUME DeleteNext(r), pc[r] \in {"delete", "clean_up"},
             pc[r] = "delete" => call[r].op = "DeleteTokens"
      PROVE  Moves(r)
  <2>1. PICK row \in seen[r] : /\ seen' = [seen EXCEPT ![r] = seen[r] \ {row}]
                               /\ UNCHANGED <<pc, call, who, reply>>
    BY <1>6 DEF DeleteNext, Remember
  <2>2. /\ call[r].op \in TokenOps /\ seen[r] \ {row} \in SUBSET TokenRows
        /\ reply[r] \in Replies
        /\ pc[r] \notin Answered => reply[r] = "none"
        /\ pc[r] \in Answered => reply[r] # "none"
        /\ pc[r] = "delete" => who[r] \in User
        /\ pc[r] = "clean_up" => call[r].op = "SendPush"
        /\ reply[r] \in {"none"} \cup Answers(call[r].op)
    <3>1. call[r] # None
      BY <1>0, <1>6 DEF Shape
    <3>. QED
      BY <1>0, <1>6, <3>1 DEF Shape, Waiting
  <2>3. CASE pc[r] = "clean_up"
    BY <1>3, <2>1, <2>2, <2>3 DEF Answered
  <2>4. CASE pc[r] = "delete"
    BY <1>3, <1>6, <2>1, <2>2, <2>4 DEF Answered
  <2>. QED
    BY <1>6, <2>3, <2>4
<1>7. CASE DeleteToken(r)
  BY <1>2, <1>6, <1>7, <1>11 DEF DeleteToken, At, Ops
<1>8. CASE GetTokensBatch(r)
  <2>1. /\ call[r].op = "SendPush" /\ reply[r] = "none"
        /\ RowsOf(call[r].about) \in SUBSET TokenRows
    BY <1>0, <1>8 DEF GetTokensBatch, At, Shape, Answered, RowsOf
  <2>2. CASE /\ FitsMulticast(RowsOf(call[r].about))
             /\ seen' = [seen EXCEPT ![r] = RowsOf(call[r].about)]
             /\ pc' = [pc EXCEPT ![r] = "multicast"]
             /\ UNCHANGED <<call, who, reply>>
    BY <1>3, <2>1, <2>2 DEF TokenOps, Replies, Answered
  <2>3. CASE End(r, "dropped")
    BY <1>2, <1>11, <2>1, <2>3
  <2>. QED
    BY <1>8, <2>2, <2>3 DEF GetTokensBatch, Remember, Goto, Answer, End
<1>9. CASE SendEachForMulticast(r)
  <2>1. PICK rows \in SUBSET TokenRows, step \in {"done", "clean_up"} :
           /\ seen' = [seen EXCEPT ![r] = rows] /\ pc' = [pc EXCEPT ![r] = step]
           /\ reply' = [reply EXCEPT ![r] = "OK"] /\ UNCHANGED <<call, who>>
    <3>1. {row \in seen[r] : row.token \in gone} \in SUBSET TokenRows
      BY <1>0, <1>9 DEF SendEachForMulticast, At, Shape
    <3>. QED
      BY <1>9, <3>1 DEF SendEachForMulticast, Remember, Goto
  <2>2. call[r].op = "SendPush"
    BY <1>9 DEF SendEachForMulticast, At
  <2>. QED
    <3>1. "OK" \in Answers(call[r].op) /\ "OK" \in Replies
      <4>1. "SendPush" \in Ops \ {"GetUserFlags"} /\ "OK" \in Replies
        BY DEF Ops, Replies
      <4>. QED
        BY <1>11, <2>2, <4>1
    <3>. QED
      BY <1>3, <2>1, <2>2, <3>1 DEF TokenOps, Answered
<1>10. CASE CleanUp(r)
  <2>1. /\ pc[r] = "clean_up" /\ call[r].op = "SendPush"
        /\ seen[r] \in SUBSET TokenRows /\ reply[r] \in Replies
        /\ reply[r] \in {"none"} \cup Answers(call[r].op) /\ reply[r] # "none"
    BY <1>0, <1>10 DEF CleanUp, At, Shape, Answered
  <2>2. CASE DeleteNext(r)
    BY <1>6, <2>1, <2>2
  <2>3. ASSUME NEW row \in seen[r], Remember(r, seen[r] \ {row}),
               UNCHANGED <<pc, call, who, reply>>
        PROVE  Moves(r)
    <3>1. seen[r] \ {row} \in SUBSET TokenRows
      BY <2>1
    <3>. QED
      BY <1>3, <2>1, <2>3, <3>1 DEF Remember, TokenOps, Answered
  <2>4. CASE GoOn(r, "done")
    BY <1>0, <2>1, <2>4, StepMoves DEF GoOn, Goto, Steps, Waiting, Answered, Shape
  <2>. QED
    BY <1>10, <2>2, <2>3, <2>4 DEF CleanUp
<1>. QED
  BY <1>4, <1>5, <1>7, <1>8, <1>9, <1>10 DEF PushesStep
-----------------------------------------------------------------------------
(* Which steps change which table, and the types of the tables.            *)

TablesOK ==
    /\ TablesTyped
    /\ purchase \in [Receipt -> User \cup {None}]
    /\ xOwner \in [XAccount -> User \cup {None}]
    /\ contact \in [Kinds -> [User -> Address \cup {None}]]
    /\ verification \in [Address -> Verifications \cup {None}]
    /\ token \in [User -> [Install -> Token \cup {None}]]
    /\ gone \subseteq Token

UsersInv == RequestsShape /\ TablesOK

\* The step of each service that writes each table, and each cache.
LEMMA AccountsChange ==
    ASSUME NEW r, AccountsStep(r)
    PROVE  /\ userOf' = userOf \/ Bind(r)
           /\ registered' = registered \/ Bind(r) \/ SetRegistrationFlag(r)
           /\ cachedUser' = cachedUser \/ CacheUser(r)
           /\ cachedFlag' = cachedFlag \/ CacheFlag(r)
           /\ who' = who \/ LookUpKey(r) \/ GetUserId(r) \/ GetPubKeys(r)
<1>. USE DEF accountVars, caches, End, GoOn
<1>1. CASE LookUpKey(r)
  BY <1>1 DEF LookUpKey, CachedByBind
<1>2. CASE Bind(r) \/ SetRegistrationFlag(r)
  BY <1>2 DEF Bind, SetRegistrationFlag, Commits
<1>3. CASE GetUserId(r) \/ GetPubKeys(r)
  BY <1>3 DEF GetUserId, GetPubKeys
<1>4. CASE CacheUser(r) \/ CacheFlag(r)
  BY <1>4 DEF CacheUser, CacheFlag
<1>5. CASE Login(r) \/ IsRegistered(r) \/ Reject(r) \/ Fail(r)
  BY <1>5 DEF Login, IsRegistered, Reject, Fail
<1>. QED
  BY <1>1, <1>2, <1>3, <1>4, <1>5 DEF AccountsStep

LEMMA PurchasesChange ==
    ASSUME NEW r, PurchasesStep(r)
    PROVE  /\ UNCHANGED <<userOf, caches, who>>
           /\ UNCHANGED <<registered, purchase>> \/ Fulfil(r)
  BY DEF PurchasesStep, CheckProduct, VerifyReceipt, GetPurchaseByID, Fulfil,
         RereadPurchase, accountVars, End, GoOn

LEMMA ProfilesChange ==
    ASSUME NEW r, ProfilesStep(r)
    PROVE  /\ UNCHANGED <<accountVars, who>>
           /\ UNCHANGED xOwner \/ UpsertXProfile(r) \/ UnlinkXAccount(r)
  BY DEF ProfilesStep, SetDisplayName, UnlinkXAccount, GetMyUser, GetXProfile,
         UpsertXProfile, profileVars, End, GoOn, Commits

LEMMA ContactsChange ==
    ASSUME NEW r, ContactsStep(r)
    PROVE  /\ UNCHANGED <<accountVars, who>>
           /\ \/ UNCHANGED contact \/ SetPhoneNumber(r) \/ SetEmailAddress(r)
              \/ UnlinkPhone(r) \/ UnlinkEmail(r)
<1>1. CASE LookUpPhone(r) \/ UnlinkPhone(r) \/ UnlinkEmail(r)
           \/ SetPhoneNumber(r) \/ SetEmailAddress(r)
  BY <1>1 DEF LookUpPhone, contactVars, End, GoOn, Unlink, SetContact, Commits,
     UnlinkPhone, UnlinkEmail, SetPhoneNumber, SetEmailAddress
<1>2. CASE SendPhoneCode(r) \/ SendEmailCode(r)
  BY <1>2, SendAnswers DEF SendPhoneCode, SendEmailCode, End
<1>3. CASE CheckPhoneCode(r) \/ CheckEmailCode(r)
  BY <1>3, CheckAnswers DEF CheckPhoneCode, CheckEmailCode, End, GoOn
<1>. QED
  BY <1>1, <1>2, <1>3 DEF ContactsStep

LEMMA PushesChange ==
    ASSUME NEW r, PushesStep(r)
    PROVE  /\ UNCHANGED <<accountVars, who, gone>>
           /\ \/ UNCHANGED token \/ AddToken(r)
              \/ /\ \/ At(r, {"DeleteTokens"}, "delete")
                    \/ At(r, {"SendPush"}, "clean_up")
                 /\ DeleteNext(r)
  BY DEF PushesStep, AddToken, GetTokens, DeleteToken, GetTokensBatch,
         SendEachForMulticast, CleanUp, DeleteNext, pushVars, End, GoOn, Commits, At

\* A request is asked something at most once.
LEMMA AskShape ==
    ASSUME NEW r \in Req, NEW c \in Calls, RequestsShape, Begin(r, c)
    PROVE  RequestsShape'
<1>1. /\ pc' = [pc EXCEPT ![r] = "start"] /\ call' = [call EXCEPT ![r] = c]
      /\ who' = who /\ seen' = seen /\ reply' = reply /\ pc[r] = "idle"
  BY DEF Begin, Goto
<1>2. /\ pc' \in [Req -> Steps] /\ call' \in [Req -> Calls \cup {None}]
      /\ who' \in [Req -> User \cup {None}] /\ seen' \in [Req -> Findings]
      /\ reply' \in [Req -> Replies]
  BY <1>1 DEF RequestsShape, Steps
<1>3. ASSUME NEW q \in Req
      PROVE  Shape(q)'
  <2>1. Shape(q) /\ c # None
    BY AccountsAssumption DEF RequestsShape
  <2>2. CASE q = r
    BY <1>1, <2>1, <2>2
       DEF RequestsShape, Shape, Waiting, Answered, FindingsOf
  <2>3. CASE q # r
    BY <1>1, <2>1, <2>3 DEF RequestsShape, Shape, Waiting, Answered
  <2>. QED
    BY <2>2, <2>3
<1>. QED
  BY <1>2, <1>3 DEF RequestsShape

LEMMA ServeMoves ==
    ASSUME NEW r \in Req, UsersInv, Serve(r)
    PROVE  Moves(r)
  BY AccountsMove, PurchasesMove, ProfilesMove, ContactsMove, PushesMove
     DEF Serve, UsersInv, TablesOK

LEMMA ServeShape ==
    ASSUME NEW r \in Req, UsersInv, Serve(r)
    PROVE  RequestsShape'
<1>1. Moves(r)
  BY ServeMoves
<1>2. ASSUME NEW q \in Req
      PROVE  Shape(q)'
  <2>1. CASE q = r
    BY <1>1, <2>1 DEF Moves
  <2>2. CASE q # r
    BY <1>1, <2>2 DEF Moves, Alone, UsersInv, RequestsShape, Shape
  <2>. QED
    BY <2>1, <2>2
<1>. QED
  BY <1>1, <1>2 DEF Moves, Alone, UsersInv, RequestsShape

LEMMA AccountsTyped ==
    ASSUME NEW r \in Req, UsersInv, AccountsStep(r)
    PROVE  TablesTyped'
<1>. USE DEF TablesTyped
<1>0. /\ RequestsShape /\ TablesTyped /\ Shape(r)
  BY DEF UsersInv, TablesOK, RequestsShape
<1>1. userOf' \in [Key -> User \cup {None}]
  <2>1. CASE Bind(r)
    <3>1. who[r] \in User
      BY <1>0, <2>1, ActsFor DEF Bind, At, Waiting
    <3>. QED
      BY <1>0, <2>1, <3>1 DEF Bind
  <2>. QED
    BY <1>0, <2>1, AccountsChange
<1>2. registered' \subseteq User
  <2>1. CASE Bind(r) \/ SetRegistrationFlag(r)
    <3>1. who[r] \in User
      BY <1>0, <2>1, ActsFor DEF Bind, SetRegistrationFlag, At, Waiting
    <3>. QED
      BY <1>0, <2>1, <3>1 DEF Bind, SetRegistrationFlag
  <2>. QED
    BY <1>0, <2>1, AccountsChange
<1>3. cachedUser' \in [Server -> [Key -> User \cup {None}]]
  <2>1. CASE CacheUser(r)
    <3>1. who[r] \in User
      BY <1>0, <2>1, ActsFor DEF CacheUser, Waiting
    <3>. QED
      BY <1>0, <2>1, <3>1 DEF CacheUser
  <2>. QED
    BY <1>0, <2>1, AccountsChange
<1>4. cachedFlag' \in [Server -> [User -> BOOLEAN \cup {None}]]
  <2>1. CASE CacheFlag(r)
    BY <1>0, <2>1 DEF CacheFlag, Shape
  <2>. QED
    BY <1>0, <2>1, AccountsChange
<1>. QED
  BY <1>1, <1>2, <1>3, <1>4

LEMMA PurchasesTyped ==
    ASSUME NEW r \in Req, UsersInv, PurchasesStep(r)
    PROVE  TablesTyped' /\ purchase' \in [Receipt -> User \cup {None}]
<1>1. CASE Fulfil(r)
  <2>1. who[r] \in User
    BY <1>1, ActsFor DEF UsersInv, Fulfil, Buying, At, Waiting
  <2>. QED
    BY <1>1, <2>1 DEF UsersInv, TablesOK, TablesTyped, Fulfil, Commit, caches
<1>. QED
  BY <1>1, PurchasesChange DEF UsersInv, TablesOK, TablesTyped, caches

LEMMA ProfilesTyped ==
    ASSUME NEW r \in Req, UsersInv, ProfilesStep(r)
    PROVE  xOwner' \in [XAccount -> User \cup {None}]
<1>1. CASE UpsertXProfile(r)
  <2>1. who[r] \in User
    BY <1>1, ActsFor DEF UsersInv, UpsertXProfile, Linking, At, Waiting
  <2>. QED
    BY <1>1, <2>1 DEF UsersInv, TablesOK, UpsertXProfile
<1>2. CASE UnlinkXAccount(r)
  BY <1>2 DEF UsersInv, TablesOK, UnlinkXAccount
<1>. QED
  BY <1>1, <1>2, ProfilesChange DEF UsersInv, TablesOK

\* A request about an address that acts for a user.
LEMMA AboutAddress ==
    ASSUME NEW r \in Req, UsersInv, pc[r] \in {"body", "send", "save"},
           call[r].op \in VerificationOps
    PROVE  who[r] \in User /\ call[r].about \in Address
<1>1. who[r] \in User /\ call[r] \in Calls
  BY ActsFor DEF UsersInv, Waiting
<1>. QED
  BY <1>1, ContactsAssumption

LEMMA VerificationsTyped ==
    ASSUME NEW r, UsersInv, call[r].about \in Address,
           \/ \E refusals : CreateVerification(r, refusals)
           \/ \E errors : CreateVerificationCheck(r, errors)
    PROVE  verification' \in [Address -> Verifications \cup {None}]
<1>. DEFINE a == call[r].about
<1>0. /\ verification \in [Address -> Verifications \cup {None}] /\ MaxChecks \in Nat
  BY ContactsAssumption DEF UsersInv, TablesOK
<1>1. ASSUME NEW c \in Code,
             verification' = [verification EXCEPT ![a] = [code |-> c, checks |-> 0]]
      PROVE  verification' \in [Address -> Verifications \cup {None}]
  <2>1. [code |-> c, checks |-> 0] \in Verifications
    BY <1>0 DEF Verifications
  <2>. QED
    BY <1>0, <1>1, <2>1
<1>2. ASSUME verification[a] # None, verification[a].checks < MaxChecks,
             verification' = [verification EXCEPT ![a].checks = @ + 1]
      PROVE  verification' \in [Address -> Verifications \cup {None}]
  <2>1. [verification[a] EXCEPT !.checks = @ + 1] \in Verifications
    BY <1>0, <1>2 DEF Verifications
  <2>. QED
    BY <1>0, <1>2, <2>1
<1>3. CASE \E refusals : CreateVerification(r, refusals)
  BY <1>0, <1>1, <1>3 DEF CreateVerification
<1>4. CASE \E errors : CreateVerificationCheck(r, errors)
  BY <1>0, <1>2, <1>4 DEF CreateVerificationCheck
<1>. QED
  BY <1>3, <1>4

LEMMA ContactsTyped ==
    ASSUME NEW r \in Req, UsersInv, ContactsStep(r)
    PROVE  /\ contact' \in [Kinds -> [User -> Address \cup {None}]]
           /\ verification' \in [Address -> Verifications \cup {None}]
<1>0. /\ contact \in [Kinds -> [User -> Address \cup {None}]]
      /\ verification \in [Address -> Verifications \cup {None}]
  BY DEF UsersInv, TablesOK
<1>1. CASE SetPhoneNumber(r) \/ SetEmailAddress(r)
  <2>1. /\ who[r] \in User /\ call[r].about \in Address
    BY <1>1, AboutAddress DEF SetPhoneNumber, SetEmailAddress, At, VerificationOps
  <2>. QED
    BY <1>0, <1>1, <2>1 DEF SetPhoneNumber, SetEmailAddress, SetContact, Kinds
<1>2. CASE UnlinkPhone(r) \/ UnlinkEmail(r)
  BY <1>0, <1>2 DEF UnlinkPhone, UnlinkEmail, Unlink, Unlinked, Kinds
<1>3. CASE LookUpPhone(r)
  BY <1>0, <1>3 DEF LookUpPhone, contactVars
<1>4. CASE SendPhoneCode(r) \/ SendEmailCode(r)
  <2>1. call[r].about \in Address
    BY <1>4, AboutAddress DEF SendPhoneCode, SendEmailCode, At, VerificationOps
  <2>2. \E refusals : CreateVerification(r, refusals)
    BY <1>4 DEF SendPhoneCode, SendEmailCode
  <2>3. verification' \in [Address -> Verifications \cup {None}]
    BY <2>1, <2>2, VerificationsTyped
  <2>. QED
    BY <1>0, <2>2, <2>3, SendAnswers
<1>5. CASE CheckPhoneCode(r) \/ CheckEmailCode(r)
  <2>1. call[r].about \in Address
    BY <1>5, AboutAddress DEF CheckPhoneCode, CheckEmailCode, At, VerificationOps
  <2>2. \E errors \in {PhoneCheckErrors, EmailCheckErrors} :
            CreateVerificationCheck(r, errors)
    BY <1>5 DEF CheckPhoneCode, CheckEmailCode
  <2>3. verification' \in [Address -> Verifications \cup {None}]
    BY <2>1, <2>2, VerificationsTyped
  <2>. QED
    BY <1>0, <2>2, <2>3, CheckAnswers
<1>. QED
  BY <1>1, <1>2, <1>3, <1>4, <1>5 DEF ContactsStep

LEMMA PushesTyped ==
    ASSUME NEW r \in Req, UsersInv, PushesStep(r)
    PROVE  token' \in [User -> [Install -> Token \cup {None}]] /\ gone' \subseteq Token
<1>0. /\ token \in [User -> [Install -> Token \cup {None}]] /\ gone \subseteq Token
  BY DEF UsersInv, TablesOK
<1>1. CASE AddToken(r)
  <2>1. call[r].with \in Token
    BY <1>1, PushesAssumption, ActsFor DEF UsersInv, AddToken, At, Waiting
  <2>. QED
    BY <1>0, <1>1, <2>1 DEF AddToken
<1>2. CASE DeleteNext(r)
  BY <1>0, <1>2 DEF DeleteNext, Without
<1>. QED
  BY <1>0, <1>1, <1>2, PushesChange
-----------------------------------------------------------------------------
(* The invariant.                                                          *)

LEMMA ServeTables ==
    ASSUME NEW r \in Req, UsersInv, Serve(r)
    PROVE  TablesOK'
<1>. USE DEF UsersInv, TablesOK
<1>1. CASE /\ AccountsStep(r)
           /\ UNCHANGED <<purchase, profileVars, contactVars, pushVars>>
  BY <1>1, AccountsTyped DEF profileVars, contactVars, pushVars
<1>2. CASE PurchasesStep(r) /\ UNCHANGED <<profileVars, contactVars, pushVars>>
  BY <1>2, PurchasesTyped DEF profileVars, contactVars, pushVars
<1>3. CASE ProfilesStep(r) /\ UNCHANGED <<purchase, contactVars, pushVars>>
  BY <1>3, ProfilesTyped, ProfilesChange
     DEF TablesTyped, accountVars, caches, contactVars, pushVars
<1>4. CASE ContactsStep(r) /\ UNCHANGED <<purchase, profileVars, pushVars>>
  BY <1>4, ContactsTyped, ContactsChange
     DEF TablesTyped, accountVars, caches, profileVars, pushVars
<1>5. CASE PushesStep(r) /\ UNCHANGED <<purchase, profileVars, contactVars>>
  BY <1>5, PushesTyped, PushesChange
     DEF TablesTyped, accountVars, caches, profileVars, contactVars
<1>. QED
  BY <1>1, <1>2, <1>3, <1>4, <1>5 DEF Serve

LEMMA WorldStep ==
    ASSUME UsersInv, World
    PROVE  /\ UsersInv'
           /\ UNCHANGED <<requestVars, accountVars, purchase, profileVars,
                          contact, token>>
<1>1. UNCHANGED <<requestVars, accountVars, purchase, profileVars, contact,
                  token>>
  BY DEF World, Lapse, Forget, contactVars, pushVars
<1>2. RequestsShape'
  BY <1>1 DEF UsersInv, RequestsShape, Shape, requestVars
<1>3. verification' \in [Address -> Verifications \cup {None}] /\ gone' \subseteq Token
  BY DEF World, Lapse, Forget, contactVars, pushVars, UsersInv, TablesOK
<1>. QED
  BY <1>1, <1>2, <1>3
     DEF UsersInv, TablesOK, TablesTyped, accountVars, caches, profileVars

LEMMA InitInv == Init => UsersInv
<1>1. ASSUME Init
      PROVE  RequestsShape
  BY <1>1 DEF Init, AccountsInit, RequestsInit, RequestsShape, Shape, Steps,
     Replies, Findings, Waiting, Answered
<1>2. ASSUME Init
      PROVE  TablesOK
  BY <1>2 DEF Init, AccountsInit, RequestsInit, PurchasesInit, ProfilesInit,
     ContactsInit, PushesInit, TablesOK, TablesTyped
<1>. QED
  BY <1>1, <1>2 DEF UsersInv

LEMMA NextInv == UsersInv /\ [Next]_usersVars => UsersInv'
<1>. SUFFICES ASSUME UsersInv, [Next]_usersVars
              PROVE  UsersInv'
  OBVIOUS
<1>1. ASSUME NEW r \in Req, Serve(r)
      PROVE  UsersInv'
  BY <1>1, ServeShape, ServeTables DEF UsersInv
<1>2. ASSUME NEW r \in Req, NEW c \in Calls, Ask(r, c)
      PROVE  UsersInv'
  <2>1. RequestsShape'
    BY <1>2, AskShape DEF UsersInv, Ask
  <2>. QED
    BY <1>2, <2>1 DEF UsersInv, TablesOK, TablesTyped, Ask, Begin, accountVars,
       caches, profileVars, contactVars, pushVars
<1>3. CASE World
  BY <1>3, WorldStep
<1>4. CASE UNCHANGED usersVars
  BY <1>4 DEF UsersInv, RequestsShape, Shape, TablesOK, TablesTyped, usersVars,
     accountVars, requestVars, caches, profileVars, contactVars, pushVars
<1>. QED
  BY <1>1, <1>2, <1>3, <1>4 DEF Next

\* Every request is, at each of its steps, what the step takes it to be, and
\* every table holds values of its type.
THEOREM UsersInvariance == Spec => []UsersInv
  BY InitInv, NextInv, PTL DEF Spec

\* Every table holds values of its type, a request ends with an answer that its
\* response can carry or with an error, and no push has more tokens than
\* Firebase takes (push/pusher.go:55-63).
THEOREM UsersTypeCorrect == Spec => []UsersTypeOK
<1>1. UsersInv => UsersTypeOK
  <2>. SUFFICES ASSUME UsersInv
                PROVE  UsersTypeOK
    OBVIOUS
  <2>1. ASSUME NEW r \in Req
        PROVE  RequestOK(r)
    <3>1. /\ Shape(r) /\ call[r] \in Calls \cup {None}
          /\ who[r] \in User \cup {None}
      BY DEF UsersInv, RequestsShape
    <3>2. CASE call[r] = None
      BY <3>1, <3>2 DEF RequestOK, Shape, Waiting, Answered
    <3>3. CASE call[r] # None
      BY <3>1, <3>3 DEF RequestOK, Shape, Answered, Answers, At, FitsMulticast,
         FindingsOf, TokenOps
    <3>. QED
      BY <3>2, <3>3
  <2>. QED
    BY <2>1 DEF UsersInv, TablesOK, TablesTyped, UsersTypeOK
<1>. QED
  BY <1>1, UsersInvariance, PTL
=============================================================================
