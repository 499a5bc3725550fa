-------------------------- MODULE EventStreamsProofs --------------------------
(***************************************************************************)
(* Proofs about EventStreams, for all servers, handlers and times.  The    *)
(* inductive invariant says what the mutex of a server protects: only the  *)
(* handler that holds it has a record at the server's address, but for     *)
(* records of handlers that were lost.                                     *)
(***************************************************************************)
EXTENDS EventStreams, TLAPS

Inside(h) == pc[h] \in {"create", "serve", "extend", "leave", "delete"}
Running(h) == pc[h] = "lock" \/ Inside(h)
Open(h) == pc[h] \in {"lock", "create", "serve", "extend"} /\ ~closed[h]

HasHome == \A h \in Handler : Running(h) => home[h] \in Server
HasMutex == \A h \in Handler : Inside(h) => streamMu[home[h]] = h
OwnsRecordAtHome ==
    \A h \in Handler :
        pc[h] \in {"serve", "extend"} /\ AtHome(h) => rendezvous.owner = h
HasRecordInTime ==
    \A h \in Handler :
        pc[h] = "serve" /\ now <= expiresAt[h] =>
            /\ rendezvous # None /\ rendezvous.owner = h
            /\ rendezvous.expiresAt = expiresAt[h]
OwnerWroteRecord ==
    rendezvous # None =>
        /\ rendezvous.address = home[rendezvous.owner]
        /\ pc[rendezvous.owner] \in
              {"serve", "extend", "leave", "delete", "lost"}

Inv == /\ TypeOK /\ HasHome /\ HasMutex /\ OpenIsRegistered
       /\ OwnsRecordAtHome /\ HasRecordInTime /\ OwnerWroteRecord
-------------------------------------------------------------------------------
LEMMA InvInit == Init => Inv
  BY TimesAssumption, NamesAssumption
     DEF Init, Inv, TypeOK, Steps, Reasons, HasHome, HasMutex, OpenIsRegistered,
         OwnsRecordAtHome, HasRecordInTime, OwnerWroteRecord, Running, Inside,
         AtHome

LEMMA TypeStep == TypeOK /\ HasHome /\ [Next]_vars => TypeOK'
  <1> SUFFICES ASSUME TypeOK, HasHome, [Next]_vars PROVE TypeOK'
    OBVIOUS
  <1> USE TimesAssumption, NamesAssumption
      DEF TypeOK, Steps, Reasons, Goto, End, Forget, registry, timers
  <1>1. ASSUME NEW h \in Handler, Refuse(h) PROVE TypeOK'
    BY <1>1 DEF Refuse
  <1>2. ASSUME NEW h \in Handler, NEW s \in Server, Register(h, s) PROVE TypeOK'
    BY <1>2 DEF Register, Superseding
  <1>3. ASSUME NEW h \in Handler, Enter(h) PROVE TypeOK'
    <2>1. now + Expiry \in 0 .. MaxTime + Expiry
      OBVIOUS
    <2>2. expiresAt' \in [Handler -> 0 .. MaxTime + Expiry]
      BY <1>3, <2>1 DEF Enter, AskExpiry
    <2>3. refreshAt' \in [Handler -> 0 .. MaxTime + Refresh]
      BY <1>3 DEF Enter
    <2>4. streamMu' \in [Server -> Handler \cup {None}]
      BY <1>3 DEF Enter
    <2>5. pc' \in [Handler -> Steps] /\ ended' \in [Handler -> Reasons]
      BY <1>3 DEF Enter
    <2> QED BY <1>3, <2>2, <2>3, <2>4, <2>5 DEF Enter
  <1>4. ASSUME NEW h \in Handler, CreateRendezvous(h) PROVE TypeOK'
    <2>1. home[h] \in Server
      BY <1>4 DEF CreateRendezvous, HasHome, Running, Inside
    <2>2. Create(h) => rendezvous' \in Record
      BY <2>1 DEF Create, Record
    <2> QED BY <1>4, <2>2 DEF CreateRendezvous, Serve, NextRefresh
  <1>5. ASSUME NEW h \in Handler, StartRefresh(h) PROVE TypeOK'
    BY <1>5 DEF StartRefresh, AskExpiry
  <1>6. ASSUME NEW h \in Handler, ExtendRendezvousExpiry(h) PROVE TypeOK'
    <2>1. Extendable(h) /\ Extend(h) => rendezvous' \in Record
      BY DEF Extendable, AtHome, Extend, Record
    <2> QED BY <1>6, <2>1 DEF ExtendRendezvousExpiry, Serve, NextRefresh
  <1>7. ASSUME NEW h \in Handler, SeeClosed(h) PROVE TypeOK'
    BY <1>7 DEF SeeClosed
  <1>8. ASSUME NEW h \in Handler, LoseClient(h) PROVE TypeOK'
    BY <1>8 DEF LoseClient
  <1>9. ASSUME NEW h \in Handler, Unregister(h) PROVE TypeOK'
    BY <1>9 DEF Unregister, Unregistered
  <1>10. ASSUME NEW h \in Handler, DeleteRendezvous(h) PROVE TypeOK'
    BY <1>10 DEF DeleteRendezvous, Left
  <1>11. ASSUME NEW h \in Handler, NotifyTimesOut(h) PROVE TypeOK'
    BY <1>11 DEF NotifyTimesOut
  <1>12. ASSUME NEW s \in Server, Crash(s) PROVE TypeOK'
    BY <1>12 DEF Crash
  <1>13. CASE Tick
    BY <1>13 DEF Tick
  <1>14. CASE UNCHANGED vars
    BY <1>14 DEF vars
  <1> QED
    BY <1>1, <1>2, <1>3, <1>4, <1>5, <1>6, <1>7, <1>8, <1>9, <1>10, <1>11,
       <1>12, <1>13, <1>14 DEF Next, Work

\* What a row names.
LEMMA RecordFields ==
    ASSUME TypeOK, rendezvous # None
    PROVE  rendezvous.owner \in Handler /\ rendezvous.address \in Server
  BY DEF TypeOK, Record

LEMMA InvStep == Inv /\ [Next]_vars => Inv'
  <1> SUFFICES ASSUME Inv, [Next]_vars PROVE Inv'
    OBVIOUS
  <1> DEFINE Rest == /\ HasHome /\ HasMutex /\ OpenIsRegistered
                     /\ OwnsRecordAtHome /\ HasRecordInTime /\ OwnerWroteRecord
  <1>0. TypeOK'
    BY TypeStep DEF Inv
  <1> USE TimesAssumption, NamesAssumption
      DEF Inv, TypeOK, HasHome, HasMutex, OpenIsRegistered, OwnsRecordAtHome,
          HasRecordInTime, OwnerWroteRecord, Running, Inside, AtHome, Goto, End,
          Forget, registry, timers, Steps, Reasons
  <1>1. ASSUME NEW h \in Handler, Refuse(h) PROVE Rest'
    BY <1>1 DEF Refuse
  <1>2. ASSUME NEW h \in Handler, NEW s \in Server, Register(h, s) PROVE Rest'
    <2>1. HasHome'
      BY <1>2 DEF Register, Superseding
    <2>2. HasMutex'
      BY <1>2 DEF Register, Superseding
    <2>3. OpenIsRegistered'
      BY <1>2 DEF Register, Superseding
    <2>4. OwnsRecordAtHome'
      BY <1>2 DEF Register, Superseding
    <2>5. HasRecordInTime'
      BY <1>2 DEF Register, Superseding
    <2>6. OwnerWroteRecord'
      BY <1>2 DEF Register, Superseding
    <2> QED BY <2>1, <2>2, <2>3, <2>4, <2>5, <2>6
  <1>3. ASSUME NEW h \in Handler, Enter(h) PROVE Rest'
    <2>1. HasHome'
      BY <1>3 DEF Enter, AskExpiry
    <2>2. HasMutex'
      BY <1>3 DEF Enter, AskExpiry
    <2>3. OpenIsRegistered'
      BY <1>3 DEF Enter, AskExpiry
    <2>4. OwnsRecordAtHome'
      BY <1>3 DEF Enter, AskExpiry
    <2>5. HasRecordInTime'
      BY <1>3 DEF Enter, AskExpiry
    <2>6. OwnerWroteRecord'
      <3>1. pc[h] = "lock" /\ \A g \in Handler : g # h => pc'[g] = pc[g]
        BY <1>3 DEF Enter
      <3> QED BY <1>3, <3>1, RecordFields DEF Enter
    <2> QED BY <2>1, <2>2, <2>3, <2>4, <2>5, <2>6
  <1>4. ASSUME NEW h \in Handler, CreateRendezvous(h) PROVE Rest'
    BY <1>4 DEF CreateRendezvous, Serve, NextRefresh, Create, Vacant, Record
  <1>5. ASSUME NEW h \in Handler, StartRefresh(h) PROVE Rest'
    BY <1>5 DEF StartRefresh, AskExpiry
  <1>6. ASSUME NEW h \in Handler, ExtendRendezvousExpiry(h) PROVE Rest'
    BY <1>6 DEF ExtendRendezvousExpiry, Serve, NextRefresh, Extendable, Extend, Record
  <1>7. ASSUME NEW h \in Handler, SeeClosed(h) PROVE Rest'
    BY <1>7 DEF SeeClosed
  <1>8. ASSUME NEW h \in Handler, LoseClient(h) PROVE Rest'
    BY <1>8 DEF LoseClient
  <1>9. ASSUME NEW h \in Handler, Unregister(h) PROVE Rest'
    BY <1>9 DEF Unregister, Unregistered
  <1>10. ASSUME NEW h \in Handler, DeleteRendezvous(h) PROVE Rest'
    <2>1. HasHome'
      BY <1>10 DEF DeleteRendezvous, Left
    <2>2. HasMutex'
      BY <1>10 DEF DeleteRendezvous, Left
    <2>3. OpenIsRegistered'
      BY <1>10 DEF DeleteRendezvous, Left
    <2>4. OwnsRecordAtHome'
      BY <1>10 DEF DeleteRendezvous, Left
    <2>5. HasRecordInTime'
      BY <1>10 DEF DeleteRendezvous, Left
    <2>6. OwnerWroteRecord'
      <3> SUFFICES ASSUME rendezvous' # None PROVE OwnerWroteRecord'
        OBVIOUS
      <3>1. rendezvous' = rendezvous
        BY <1>10 DEF DeleteRendezvous, Left
      <3>2. rendezvous.owner \in Handler
        BY <3>1, RecordFields
      <3>3. CASE rendezvous.owner = h
        <4>1. pc'[h] = "lost"
          BY <1>10, <3>1, <3>3 DEF DeleteRendezvous, Left
        <4> QED BY <1>10, <3>1, <3>3, <4>1 DEF DeleteRendezvous
      <3>4. CASE rendezvous.owner # h
        BY <1>10, <3>1, <3>2, <3>4 DEF DeleteRendezvous
      <3> QED BY <3>3, <3>4
    <2> QED BY <2>1, <2>2, <2>3, <2>4, <2>5, <2>6
  <1>11. ASSUME NEW h \in Handler, NotifyTimesOut(h) PROVE Rest'
    BY <1>11 DEF NotifyTimesOut
  <1>12. ASSUME NEW s \in Server, Crash(s) PROVE Rest'
    <2>1. HasHome'
      BY <1>12 DEF Crash, Ended
    <2>2. HasMutex'
      BY <1>12 DEF Crash, Ended
    <2>3. OpenIsRegistered'
      BY <1>12 DEF Crash, Ended
    <2>4. OwnsRecordAtHome'
      BY <1>12 DEF Crash, Ended
    <2>5. HasRecordInTime'
      BY <1>12 DEF Crash, Ended
    <2>6. OwnerWroteRecord'
      <3>1. \A g \in Handler : pc'[g] \in {pc[g], "lost"}
        BY <1>12 DEF Crash
      <3>2. rendezvous' = rendezvous /\ home' = home
        BY <1>12 DEF Crash
      <3> QED BY <3>1, <3>2, RecordFields
    <2> QED BY <2>1, <2>2, <2>3, <2>4, <2>5, <2>6
  <1>13. CASE Tick
    BY <1>13 DEF Tick
  <1>14. CASE UNCHANGED vars
    BY <1>14 DEF vars
  <1> QED
    BY <1>0, <1>1, <1>2, <1>3, <1>4, <1>5, <1>6, <1>7, <1>8, <1>9, <1>10, <1>11,
       <1>12, <1>13, <1>14 DEF Next, Work
-------------------------------------------------------------------------------
THEOREM Invariance == Spec => []Inv
  <1>1. Inv /\ UNCHANGED vars => Inv'
    BY InvStep
  <1> QED BY InvInit, InvStep, PTL DEF Spec

\* Rows, handlers and the maps of the servers keep their types.
THEOREM StreamsTypeCorrect == Spec => []TypeOK
  <1>1. Inv => TypeOK
    BY DEF Inv
  <1> QED BY <1>1, Invariance, PTL

\* A stream that nobody closed is the one that events reach
\* (event/server.go:156-220, 224-237), on any number of servers.
THEOREM OpenStreamsAreRegistered == Spec => []OpenIsRegistered
  <1>1. Inv => OpenIsRegistered
    BY DEF Inv
  <1> QED BY <1>1, Invariance, PTL

\* Nobody removes or replaces the record of a handler that serves before the
\* expiry last acknowledged to it.
THEOREM ServingHandlersAreReachable == Spec => []ServingIsReachable
  <1>1. Inv => ServingIsReachable
    BY DEF Inv, HasRecordInTime, OwnerWroteRecord, ServingIsReachable
  <1> QED BY <1>1, Invariance, PTL

\* A handler that ended in order has left no record.
THEOREM NoRecordIsOrphaned == Spec => []NoOrphanRecord
  <1>1. Inv => NoOrphanRecord
    BY DEF Inv, OwnerWroteRecord, NoOrphanRecord
  <1> QED BY <1>1, Invariance, PTL
-------------------------------------------------------------------------------
(* EventStreams implements UserLease *)

LEMMA LeaseInit == Init => Lease!Init
  BY DEF Init, Lease!Init, Holder, Live, Gone, Ended

LEMMA LeaseActions ==
    /\ \A h : Lease!Take(h) <=> /\ h \notin Gone /\ ~Live
                               /\ Holder' = h /\ Live' \in BOOLEAN
                               /\ Gone' = Gone
    /\ Lease!Lapse <=> /\ Live /\ Live' = FALSE
                      /\ Holder' = Holder /\ Gone' = Gone
    /\ \A h : Lease!GiveUp(h) <=> /\ h \notin Gone /\ Holder = h
                                 /\ Holder' = None /\ Live' = FALSE
                                 /\ Gone' \in {Gone, Gone \cup {h}}
    /\ \A h : Lease!Reclaim(h) <=> /\ Holder \in Gone
                                  /\ Holder' = None /\ Live' = FALSE
                                  /\ Gone' = Gone \cup {h}
    /\ \A H : Lease!Leave(H) <=> /\ Gone' = Gone \cup H
                                /\ Holder' = Holder /\ Live' = Live
  BY Zenon DEF Lease!Take, Lease!Lapse, Lease!GiveUp, Lease!Reclaim, Lease!Leave

\* A step that leaves the row and the clock alone at most ends handlers.
LEMMA EndingStep ==
    ASSUME rendezvous' = rendezvous, now' = now,
           NEW H \in SUBSET Handler,
           Gone' = Gone \cup H
    PROVE  Lease!Next
  <1>1. Holder' = Holder /\ Live' = Live
    BY DEF Holder, Live
  <1>2. Lease!Leave(H)
    BY <1>1, LeaseActions
  <1> QED BY <1>2 DEF Lease!Next

LEMMA StutterStep ==
    ASSUME rendezvous' = rendezvous, now' = now,
           \A h \in Handler : Ended(h)' <=> Ended(h)
    PROVE  UNCHANGED Lease!vars
  BY DEF Lease!vars, Holder, Live, Gone

LEMMA LeaseStep == Inv /\ [Next]_vars => [Lease!Next]_(Lease!vars)
  <1> SUFFICES ASSUME Inv, [Next]_vars
               PROVE  Lease!Next \/ UNCHANGED Lease!vars
    BY DEF Lease!vars
  <1>0. TypeOK
    BY DEF Inv
  <1> DEFINE Progress == Lease!Next \/ UNCHANGED Lease!vars
  <1>1. ASSUME NEW h \in Handler, Refuse(h) PROVE Progress
    <2>1. Gone' = Gone \cup {h}
      BY <1>0, <1>1 DEF Refuse, Goto, TypeOK, Gone, Ended
    <2> QED BY <1>1, <2>1, EndingStep DEF Refuse
  <1>2. ASSUME NEW h \in Handler, NEW s \in Server, Register(h, s) PROVE Progress
    BY <1>0, <1>2, StutterStep DEF Register, Goto, TypeOK, Ended
  <1>3. ASSUME NEW h \in Handler, Enter(h) PROVE Progress
    BY <1>0, <1>3, StutterStep DEF Enter, Goto, End, TypeOK, Ended
  <1>4. ASSUME NEW h \in Handler, CreateRendezvous(h) PROVE Progress
    <2>1. Gone' = Gone /\ h \notin Gone
      BY <1>0, <1>4 DEF CreateRendezvous, Serve, Goto, End, TypeOK, Gone, Ended
    <2>2. CASE Vacant /\ Create(h)
      <3>1. Holder' = h
        BY <1>0, <2>2, NamesAssumption, <1>4
           DEF Create, Holder, TypeOK, Record, CreateRendezvous, HasHome, Inv,
               Running, Inside
      <3>2. ~Live /\ Live' \in BOOLEAN
        BY <1>0, <2>2 DEF Vacant, Live, TypeOK, Record
      <3> QED BY <2>1, <3>1, <3>2, LeaseActions DEF Lease!Next
    <2>3. CASE UNCHANGED rendezvous
      BY <1>4, <2>1, <2>3 DEF CreateRendezvous, Lease!vars, Holder, Live
    <2> QED BY <1>4, <2>2, <2>3 DEF CreateRendezvous
  <1>5. ASSUME NEW h \in Handler, StartRefresh(h) PROVE Progress
    BY <1>0, <1>5, StutterStep DEF StartRefresh, Goto, TypeOK, Ended
  <1>6. ASSUME NEW h \in Handler, ExtendRendezvousExpiry(h) PROVE Progress
    <2>1. Gone' = Gone
      BY <1>0, <1>6 DEF ExtendRendezvousExpiry, Serve, Goto, End, TypeOK, Gone, Ended
    <2>2. CASE Extendable(h) /\ Extend(h)
      <3>1. rendezvous \in Record /\ rendezvous # None
        BY <1>0, <2>2 DEF Extendable, AtHome, TypeOK
      <3>2. rendezvous' \in Record /\ rendezvous'.owner = rendezvous.owner
        BY <1>0, <2>2, <3>1, TimesAssumption DEF Extend, TypeOK, Record
      <3>3. Holder' = Holder
        BY <3>1, <3>2, NamesAssumption DEF Holder
      <3>4. Live /\ Live' \in BOOLEAN
        BY <1>0, <2>2, <3>1 DEF Extendable, Live, TypeOK, Record
      <3>5. CASE Live'
        BY <2>1, <3>3, <3>4, <3>5 DEF Lease!vars
      <3>6. CASE ~Live'
        BY <2>1, <3>3, <3>4, <3>6, LeaseActions DEF Lease!Next
      <3> QED BY <3>5, <3>6
    <2>3. CASE UNCHANGED rendezvous
      BY <1>6, <2>1, <2>3 DEF ExtendRendezvousExpiry, Lease!vars, Holder, Live
    <2> QED BY <1>6, <2>2, <2>3 DEF ExtendRendezvousExpiry
  <1>7. ASSUME NEW h \in Handler, SeeClosed(h) PROVE Progress
    BY <1>0, <1>7, StutterStep DEF SeeClosed, End, Goto, TypeOK, Ended
  <1>8. ASSUME NEW h \in Handler, LoseClient(h) PROVE Progress
    BY <1>0, <1>8, StutterStep DEF LoseClient, End, Goto, TypeOK, Ended
  <1>9. ASSUME NEW h \in Handler, Unregister(h) PROVE Progress
    BY <1>0, <1>9, StutterStep DEF Unregister, Goto, TypeOK, Ended
  <1>10. ASSUME NEW h \in Handler, DeleteRendezvous(h) PROVE Progress
    <2>1. Gone' = Gone \cup {h} /\ h \notin Gone
      BY <1>0, <1>10 DEF DeleteRendezvous, Goto, TypeOK, Gone, Ended
    <2>2. CASE UNCHANGED rendezvous
      BY <1>10, <2>1, <2>2, EndingStep DEF DeleteRendezvous
    <2>3. CASE AtHome(h) /\ rendezvous' = None
      <3>1. Holder' = None /\ Live' = FALSE
        BY <2>3 DEF Holder, Live
      <3>2. Holder = rendezvous.owner /\ Holder \in Handler
        BY <1>0, <2>3, RecordFields DEF AtHome, Holder
      <3>3. CASE Holder = h
        BY <2>1, <3>1, <3>3, LeaseActions DEF Lease!Next
      <3>4. CASE Holder # h
        \* The owner was here, but h holds the mutex of its server.
        <4>1. home[Holder] = home[h] /\ pc[Holder] \in {"serve", "extend", "leave", "delete", "lost"}
          BY <2>3, <3>2 DEF Inv, OwnerWroteRecord, AtHome
        <4>2. pc[Holder] = "lost"
          BY <1>10, <3>2, <3>4, <4>1 DEF Inv, HasMutex, Inside, DeleteRendezvous
        <4>3. Holder \in Gone
          BY <3>2, <4>2 DEF Gone, Ended
        <4> QED BY <2>1, <3>1, <4>3, LeaseActions DEF Lease!Next
      <3> QED BY <3>3, <3>4
    <2> QED BY <1>10, <2>2, <2>3 DEF DeleteRendezvous, Left
  <1>11. ASSUME NEW h \in Handler, NotifyTimesOut(h) PROVE Progress
    BY <1>0, <1>11, StutterStep DEF NotifyTimesOut, TypeOK, Ended
  <1>12. ASSUME NEW s \in Server, Crash(s) PROVE Progress
    <2> DEFINE victims == {h \in Handler : home[h] = s /\ ~Ended(h)}
    <2>1. Gone' = Gone \cup victims
      BY <1>0, <1>12 DEF Crash, Gone, Ended, TypeOK
    <2> QED BY <1>12, <2>1, EndingStep DEF Crash
  <1>13. CASE Tick
    <2>1. Holder' = Holder /\ Gone' = Gone
      BY <1>13 DEF Tick, Holder, Gone, Ended
    <2>2. Live \in BOOLEAN /\ Live' \in BOOLEAN /\ (Live' => Live)
      BY <1>0, <1>13 DEF Tick, Live, TypeOK, Record
    <2>3. CASE Live' = Live
      BY <2>1, <2>3 DEF Lease!vars
    <2>4. CASE Live /\ ~Live'
      BY <2>1, <2>4, LeaseActions DEF Lease!Next
    <2> QED BY <2>2, <2>3, <2>4
  <1>14. CASE UNCHANGED vars
    BY <1>14, StutterStep DEF vars, Ended
  <1> QED
    BY <1>1, <1>2, <1>3, <1>4, <1>5, <1>6, <1>7, <1>8, <1>9, <1>10, <1>11,
       <1>12, <1>13, <1>14 DEF Next, Work

\* The record of a user is a lease on it: nobody ends or takes the live lease
\* of another handler that runs, although rows name servers only.
THEOREM LeaseRefinement == Spec => ImplementsLease
  BY LeaseInit, LeaseStep, Invariance, PTL DEF Spec, ImplementsLease, Lease!Spec
===============================================================================
