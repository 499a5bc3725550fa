------------------------------ MODULE MCUsers ------------------------------
(* Instances of Users: scenarios of up to four calls, one per request.     *)
EXTENDS Users, TLC

CONSTANTS
    s1, s2, r1, r2, r3, r4, u0, u1, u2, u3, k0, k1, k3,
    p0, p1, p3, x1, x2, ad1, ad2, right, wrong, i1, t1, t2

MCServer == {s1, s2}
MCReq == {r1, r2, r3, r4}
MCUser == {u0, u1, u2, u3}
MCKey == {k0, k1, k3}
MCReceipt == {p0, p1, p3}
MCValid == {p0, p1, p3}
MCXAccount == {x1, x2}
MCAddress == {ad1, ad2}
MCCode == {right, wrong}

C(op, s, k, about, with) ==
    [op |-> op, server |-> s, key |-> k, about |-> about, with |-> with]
Buy(s, k, p, platform, product) ==
    [op |-> "OnPurchaseCompleted", server |-> s, key |-> k, about |-> p,
     platform |-> platform, product |-> product]

\* u0 and u3 have keys from the start; in some scenarios they have registered,
\* with the receipts p0 and p3.
Newcomers ==
    { << C("Register", s1, k1, None, None), C("Register", s2, k1, None, None),
         C("Login", s1, k1, None, None), C("GetUserFlags", s2, k0, u0, None) >>,
      << C("Register", s1, k1, None, None), C("Register", s2, k0, None, None),
         C("SetDisplayName", s2, k0, "name", None),
         C("GetUserFlags", s1, k3, u0, None) >>,
      << Buy(s1, k0, p1, "apple", "create_account"),
         Buy(s2, k3, p1, "apple", "create_account"),
         C("GetUserFlags", s1, k0, u0, None),
         C("SetDisplayName", s1, k0, "name", None) >>,
      << Buy(s1, k0, p1, "google", "create_account"),
         Buy(s2, k0, p1, "google", "create_account"),
         Buy(s2, k3, "forged", "apple", "create_account"),
         Buy(s1, k3, p3, "apple", "bonus_apple") >> }

Members ==
    { << Buy(s1, k3, p0, "apple", "create_account"),
         C("LinkSocialAccount", s1, k0, x1, None),
         C("LinkSocialAccount", s2, k0, x2, None),
         C("UnlinkSocialAccount", s1, k0, x2, None) >>,
      << C("LinkSocialAccount", s1, k0, x1, None),
         C("LinkSocialAccount", s2, k3, x1, None),
         C("UnlinkSocialAccount", s1, k0, x1, None),
         C("LinkSocialAccount", s1, k3, None, None) >>,
      << C("SendPhoneCode", s1, k0, ad1, None),
         C("CheckPhoneCode", s2, k0, ad1, right),
         C("CheckPhoneCode", s1, k3, ad1, wrong),
         C("UnlinkPhone", s1, k0, ad2, None) >>,
      << C("SendEmailCode", s1, k0, ad1, None),
         C("CheckEmailCode", s2, k0, ad1, right),
         C("CheckEmailCode", s2, k0, ad1, "malformed"),
         C("UnlinkEmail", s1, k0, ad1, None) >>,
      << C("AddToken", s1, k0, i1, t1), C("AddToken", s2, k0, i1, t2),
         C("SendPush", s1, None, {u0, u3}, None),
         C("DeleteTokens", s1, k0, i1, None) >>,
      << C("AddToken", s1, k0, i1, t1), C("AddToken", s2, k3, i1, t1),
         C("SendPush", s1, None, {u0, u3}, None),
         C("DeleteTokens", s1, k0, i1, None) >> }

Scenarios == Newcomers \cup Members
MCCalls == UNION {{sc[n] : n \in 1..4} : sc \in Scenarios}

VARIABLE scenario
mcVars == <<usersVars, scenario>>

Number == (r1 :> 1) @@ (r2 :> 2) @@ (r3 :> 3) @@ (r4 :> 4)
AsksFor(r) == scenario[Number[r]]

Seeded ==
    /\ userOf = [k \in Key |->
                    CASE k = k0 -> u0 [] k = k3 -> u3 [] OTHER -> None]
    /\ registered = IF scenario \in Members THEN {u0, u3} ELSE {}
    /\ purchase = [p \in Receipt |->
                      CASE p = p0 /\ scenario \in Members -> u0
                        [] p = p3 /\ scenario \in Members -> u3
                        [] OTHER -> None]

MCInit ==
    /\ scenario \in Scenarios
    /\ Seeded /\ RequestsInit /\ ProfilesInit /\ ContactsInit /\ PushesInit

MCNext ==
    /\ \/ \E r \in Req : Serve(r) \/ Ask(r, AsksFor(r))
       \/ World
    /\ UNCHANGED scenario

MCSpec == MCInit /\ [][MCNext]_mcVars
=============================================================================
