------------------------------ MODULE Contacts ------------------------------
(***************************************************************************)
(* The phone numbers and email addresses of users: phone/server.go and     *)
(* email/server.go with their verifiers on Twilio, and the two columns of  *)
(* the users table.  A verification of Twilio belongs to an address, not   *)
(* to a user: it is external, and modelled by the answers the verifiers    *)
(* expect.  A call is about an address and brings along a code.            *)
(***************************************************************************)
EXTENDS Accounts

CONSTANTS
    Address,        \* phone numbers and email addresses
    Code,           \* well-formed codes
    MaxChecks       \* external: the checks a verification admits

VerificationOps == {"SendPhoneCode", "CheckPhoneCode", "UnlinkPhone",
                    "SendEmailCode", "CheckEmailCode", "UnlinkEmail"}

ASSUME ContactsAssumption ==
    /\ MaxChecks \in Nat
    /\ None \notin Address
    /\ None \notin [code : Code, checks : 0..MaxChecks]
    /\ \A c \in Calls : c.op \in VerificationOps => c.about \in Address

VARIABLES
    contact,        \* the users table: contact[kind][u], an address or None
    verification    \* external: the pending verification of an address

contactVars == <<contact, verification>>
Kinds == {"phone", "email"}
Verifications == [code : Code, checks : 0..MaxChecks]

\* Mutants, for the runs: each is a plausible slip in the definition whose
\* name it extends.
UnlinkedRegardless(kind, u, a) == [contact EXCEPT ![kind][u] = None]
-----------------------------------------------------------------------------
(* Sending a code.  A pending verification is sent again, code and all.    *)

\* What the errors of CreateVerification become; others are left as they are.
PhoneSendErrors ==
    [error \in {"bad_to", "max_sends", "fraud", "vetting"} |->
        IF error = "bad_to" THEN "ErrInvalidNumber" ELSE "ErrRateLimited"]
EmailSendErrors ==
    [error \in {"bad_to", "max_sends"} |->
        IF error = "bad_to" THEN "ErrInvalidEmail" ELSE "ErrRateLimited"]

PhoneSendResult(err) ==
    CASE err = "ErrInvalidNumber" -> "INVALID_PHONE_NUMBER"
      [] err = "ErrUnsupportedPhoneType" -> "UNSUPPORTED_PHONE_TYPE"
      [] err = "ErrRateLimited" -> "RATE_LIMITED"
EmailSendResult(err) ==
    CASE err = "ErrInvalidEmail" -> "INVALID_EMAIL_ADDRESS"
      [] err = "ErrRateLimited" -> "RATE_LIMITED"

CreateVerification(r, refusals) ==
    LET a == call[r].about
    IN  /\ \/ /\ \/ verification[a] # None /\ UNCHANGED verification
                 \/ /\ verification[a] = None
                    /\ \E c \in Code : verification' =
                          [verification EXCEPT ![a] = [code |-> c, checks |-> 0]]
              /\ Commits(r)
           \/ /\ \E refusal \in refusals : End(r, refusal)
              /\ UNCHANGED verification
        /\ UNCHANGED <<accountVars, contact>>

\* The lookup may name no type, and the country and network are not used.
LineTypes == {"mobile", "voip", "landline", "unknown"}

\* A number that is not in E.164 format, or a lookup that fails, is a Fail.
LookUpPhone(r) ==
    /\ At(r, {"SendPhoneCode"}, "body")
    /\ \/ End(r, PhoneSendResult("ErrInvalidNumber"))     \* a 404
       \/ \E type \in LineTypes :
             IF type = "landline"
             THEN End(r, PhoneSendResult("ErrUnsupportedPhoneType"))
             ELSE GoOn(r, "send")
    /\ UNCHANGED <<accountVars, contactVars>>

SendPhoneCode(r) ==
    /\ At(r, {"SendPhoneCode"}, "send")
    /\ CreateVerification(r, {PhoneSendResult(err) : err \in Range(PhoneSendErrors)})

\* An address that is not well-formed is answered as if Twilio refused it.
SendEmailCode(r) ==
    /\ At(r, {"SendEmailCode"}, "body")
    /\ CreateVerification(r, {EmailSendResult(err) : err \in Range(EmailSendErrors)})
-----------------------------------------------------------------------------
(* Checking a code: Twilio approves it and forgets it, then it is saved.   *)

\* What the errors of CreateVerificationCheck become.
PhoneCheckErrors == [error \in {"404", "max_checks"} |-> "ErrNoVerification"]
EmailCheckErrors == [error \in {"404", "max_checks"} |-> "ErrNoVerification"]

CheckResult(err) ==
    CASE err = "ErrInvalidVerificationCode" -> "INVALID_CODE"
      [] err = "ErrNoVerification" -> "NO_VERIFICATION"

Approves(v, code) == v.checks < MaxChecks /\ v.code = code

CreateVerificationCheck(r, errors) ==
    LET a == call[r].about
        v == verification[a]
        code == call[r].with
        Refused(error) == End(r, CheckResult(errors[error]))
        WrongCode == End(r, CheckResult("ErrInvalidVerificationCode"))
    IN  /\ \/ /\ code \notin Code       \* not even sent to Twilio
              /\ WrongCode /\ UNCHANGED verification
           \/ /\ code \in Code /\ v = None
              /\ Refused("404") /\ UNCHANGED verification
           \/ /\ code \in Code /\ v # None /\ v.checks = MaxChecks
              /\ Refused("max_checks") /\ UNCHANGED verification
           \/ /\ code \in Code /\ v # None /\ Approves(v, code)
              /\ verification' = [verification EXCEPT ![a] = None]
              /\ GoOn(r, "save")
           \/ /\ code \in Code /\ v # None /\ v.checks < MaxChecks
              /\ v.code # code
              /\ verification' = [verification EXCEPT ![a].checks = @ + 1]
              /\ WrongCode
        /\ UNCHANGED <<accountVars, contact>>

CheckPhoneCode(r) ==
    /\ At(r, {"CheckPhoneCode"}, "body")
    /\ CreateVerificationCheck(r, PhoneCheckErrors)

CheckEmailCode(r) ==
    /\ At(r, {"CheckEmailCode"}, "body")
    /\ CreateVerificationCheck(r, EmailCheckErrors)

SetContact(r, kind) ==
    /\ contact' = [contact EXCEPT ![kind][who[r]] = call[r].about]
    /\ Commits(r)
    /\ UNCHANGED <<accountVars, verification>>

SetPhoneNumber(r) == At(r, {"CheckPhoneCode"}, "save") /\ SetContact(r, "phone")
SetEmailAddress(r) == At(r, {"CheckEmailCode"}, "save") /\ SetContact(r, "email")

\* External: a verification lapses, or is canceled.
Lapse(a) ==
    /\ verification[a] # None
    /\ verification' = [verification EXCEPT ![a] = None]
    /\ UNCHANGED <<accountVars, requestVars, contact>>
-----------------------------------------------------------------------------
\* The column is cleared only while it holds the address to unlink.
Unlinked(kind, u, a) ==
    IF contact[kind][u] = a THEN [contact EXCEPT ![kind][u] = None] ELSE contact

Unlink(r, kind) ==
    /\ contact' = Unlinked(kind, who[r], call[r].about)
    /\ Commits(r)
    /\ UNCHANGED <<accountVars, verification>>

UnlinkPhone(r) == At(r, {"UnlinkPhone"}, "body") /\ Unlink(r, "phone")
UnlinkEmail(r) == At(r, {"UnlinkEmail"}, "body") /\ Unlink(r, "email")

ContactsInit ==
    /\ contact = [kind \in Kinds |-> [u \in User |-> None]]
    /\ verification = [a \in Address |-> None]

ContactsStep(r) ==
    \/ LookUpPhone(r) \/ SendPhoneCode(r) \/ SendEmailCode(r)
    \/ CheckPhoneCode(r) \/ CheckEmailCode(r)
    \/ SetPhoneNumber(r) \/ SetEmailAddress(r)
    \/ UnlinkPhone(r) \/ UnlinkEmail(r)
-----------------------------------------------------------------------------
(* Properties *)

CheckOp(kind) == IF kind = "phone" THEN "CheckPhoneCode" ELSE "CheckEmailCode"
UnlinkOp(kind) == IF kind = "phone" THEN "UnlinkPhone" ELSE "UnlinkEmail"
Saved(r, kind) == At(r, {CheckOp(kind)}, "done") /\ Committed(r)

\* A user keeps the address whose code was checked last: it goes only when the
\* user unlinks that very address or checks another one, and no address is held
\* without a check by that user, though an approved code is spent before the
\* address is saved and may be lost (email/server.go:107-118,
\* phone/server.go:114-125).
CheckedAddressStays ==
    \A kind \in Kinds :
        /\ \A r \in Req : Saved(r, kind) =>
              \/ contact[kind][who[r]] = call[r].about
              \/ \E q \in Req \ {r} :
                    /\ who[q] = who[r]
                    /\ \/ Saved(q, kind) /\ call[q].about # call[r].about
                       \/ /\ At(q, {UnlinkOp(kind)}, "done") /\ Committed(q)
                          /\ call[q].about = call[r].about
        /\ \A u \in User : contact[kind][u] # None =>
              \E r \in Req : /\ Saved(r, kind) /\ who[r] = u
                             /\ call[r].about = contact[kind][u]
=============================================================================
