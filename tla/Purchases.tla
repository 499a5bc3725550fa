----------------------------- MODULE Purchases -----------------------------
(***************************************************************************)
(* OnPurchaseCompleted (iap/server.go): a receipt of a store registers the *)
(* user who submits it, once.  A call is about a receipt and brings along  *)
(* the platform and the product.                                           *)
(***************************************************************************)
EXTENDS Accounts

CONSTANTS
    Receipt,        \* receipt identifiers
    ValidReceipts   \* external: those the platform's store vouches for

\* "unknown" stands for all platforms but the two.
ASSUME PurchasesAssumption ==
    /\ ValidReceipts \subseteq Receipt
    /\ \A c \in Calls : c.op = "OnPurchaseCompleted" =>
          c.platform \in {"apple", "google", "unknown"}

VARIABLES purchase  \* the purchases table: purchase[p], the buyer of receipt p

Buying(r, step) == At(r, {"OnPurchaseCompleted"}, step)

\* Mutants, for the runs: each is a plausible slip in the definition whose
\* name it extends.
ReceiptTakenNever(p) == FALSE

\* The unique key of the purchases table.
ReceiptTaken(p) == purchase[p] # None

\* What becomes of a product, by platform.
Judge(platform, product) ==
    IF platform \notin {"apple", "google"} THEN "DENIED"
    ELSE CASE product = "create_account" -> "accepted"
           [] product = "bonus_google" /\ platform = "google" -> "DENIED"
           [] product = "bonus_apple" /\ platform = "apple" -> "DENIED"
           [] OTHER -> "INVALID_METADATA"

CheckProduct(r) ==
    LET verdict == Judge(call[r].platform, call[r].product)
    IN  /\ Buying(r, "body")
        /\ \/ verdict = "accepted" /\ GoOn(r, "verify")
           \/ verdict # "accepted" /\ End(r, verdict)
        /\ UNCHANGED <<accountVars, purchase>>

VerifyReceipt(r) ==
    /\ Buying(r, "verify")
    /\ \/ call[r].about \in ValidReceipts /\ GoOn(r, "read_purchase")
       \/ call[r].about \notin ValidReceipts /\ End(r, "INVALID_RECEIPT")
    /\ UNCHANGED <<accountVars, purchase>>

GetPurchaseByID(r) ==
    LET buyer == purchase[call[r].about]
    IN  /\ Buying(r, "read_purchase")
        /\ \/ buyer = None /\ GoOn(r, "fulfil")
           \/ buyer = who[r] /\ End(r, "OK")
           \/ buyer \notin {None, who[r]} /\ End(r, "DENIED")
        /\ UNCHANGED <<accountVars, purchase>>

\* The flag and the purchase are committed together.
Commit(r) ==
    /\ registered' = registered \cup {who[r]}
    /\ purchase' = [purchase EXCEPT ![call[r].about] = who[r]]

\* The transaction commits, or fails, on the key or for any other reason; it
\* may be committed though the handler gets an error.
Fulfil(r) ==
    /\ Buying(r, "fulfil")
    /\ \/ ~ReceiptTaken(call[r].about) /\ Commit(r) /\ End(r, "OK")
       \/ ~ReceiptTaken(call[r].about) /\ Commit(r) /\ GoOn(r, "reread")
       \/ GoOn(r, "reread") /\ UNCHANGED <<registered, purchase>>
    /\ UNCHANGED <<userOf, caches>>

\* After a failure only a purchase of the user's own counts as a success.
RereadPurchase(r) ==
    /\ Buying(r, "reread")
    /\ End(r, IF purchase[call[r].about] = who[r] THEN "OK" ELSE "internal")
    /\ UNCHANGED <<accountVars, purchase>>

PurchasesInit == purchase = [p \in Receipt |-> None]

PurchasesStep(r) ==
    \/ CheckProduct(r) \/ VerifyReceipt(r) \/ GetPurchaseByID(r)
    \/ Fulfil(r) \/ RereadPurchase(r)
-----------------------------------------------------------------------------
(* Properties *)

\* A receipt registers one user, however many submit it at once: whoever is
\* registered by a purchase holds it, an acknowledged purchase is the caller's
\* and has registered the caller, and a denied one is another user's
\* (iap/server.go:126-178).
ReceiptsRegisterOnce ==
    /\ \A u \in registered :
          \/ \E p \in ValidReceipts : purchase[p] = u
          \/ \E r \in Req : At(r, {"Register"}, "done") /\ who[r] = u
          \/ \E r \in Req : /\ call[r] # None /\ call[r].op = "Register"
                            /\ userOf[call[r].key] = u
    /\ \A r \in Req :
          call[r] # None /\ call[r].op = "OnPurchaseCompleted" =>
             /\ reply[r] = "OK" =>
                   purchase[call[r].about] = who[r] /\ who[r] \in registered
             /\ reply[r] = "DENIED" /\ call[r].product = "create_account"
                   /\ call[r].platform # "unknown" =>
                   purchase[call[r].about] \notin {None, who[r]}
=============================================================================
