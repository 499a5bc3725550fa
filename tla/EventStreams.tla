---------------------------- MODULE EventStreams ----------------------------
(***************************************************************************)
(* The event streams of one user, over the servers that may host them:     *)
(* StreamEvents of event/server.go, the map of live streams and the mutex  *)
(* that each server keeps for the user, and the rendezvous record of       *)
(* event/postgres/model.go that tells all servers where the stream is.     *)
(* Streams of different users share nothing but streamsMu, which guards    *)
(* the map in steps that are atomic here.                                  *)
(*                                                                         *)
(* A handler is one execution of StreamEvents.  The stream it creates is   *)
(* named after it.  Servers crash and restart under the same address.      *)
(***************************************************************************)
EXTENDS Integers

CONSTANTS
    Server,     \* servers, by broadcast address
    Handler,    \* executions of StreamEvents
    Expiry,     \* rendezvousExpiryTime
    Refresh,    \* rendezvousRefreshInterval
    MaxTime,    \* bound: the last time of the clock
    None        \* the absent value

ASSUME TimesAssumption ==
    /\ Expiry \in Nat /\ Refresh \in Nat /\ MaxTime \in Nat
    /\ 0 < Refresh /\ Refresh < Expiry
\* The row; its owner is the handler that wrote it, which no column tells.
Record == [address: Server, owner: Handler, expiresAt: Int]

ASSUME NamesAssumption ==
    None \notin Handler /\ None \notin Server /\ None \notin Record

VARIABLES
    rendezvous,     \* the rendezvous row of the user
    now,            \* the clock of the servers and of the database
    streams,        \* streams[s]: the stream in the map of server s
    streamMu,       \* streamMu[s]: the handler that holds the user's mutex on s
    pc,             \* pc[h]: the next step of handler h
    home,           \* home[h]: the server that runs h
    closed,         \* closed[h]: the channel of h's stream is closed
    expiresAt,      \* expiresAt[h]: the expiry h asked for last
    refreshAt,      \* refreshAt[h]: when h refreshes its record next
    ended           \* ended[h]: why h ended

registry == <<streams, streamMu, closed>>
timers == <<expiresAt, refreshAt>>
vars == <<rendezvous, now, streams, streamMu, pc, home, closed, expiresAt,
          refreshAt, ended>>

Steps == {"idle", "lock", "create", "serve", "extend", "leave", "delete",
          "done",       \* ended, and cleaned up behind itself
          "lost"}       \* ended without: a crash, or a failing delete
\* "superseded": the handler gave way to another stream of the user.
Reasons == {"none", "superseded", "other"}

Ended(h) == pc[h] \in {"done", "lost"}
-----------------------------------------------------------------------------
(* event/postgres/model.go *)

\* Mutants, for the runs: each is a plausible slip in the definition whose
\* name it extends.
VacantAlways == TRUE
AtHomeAnywhere(h) == rendezvous # None
LeftIfRegistered(h) ==
    IF /\ rendezvous # None /\ rendezvous.address = home[h]
       /\ streams[home[h]] = None
    THEN None ELSE rendezvous
SupersedingNothing(s) == closed
NextRefreshAfterExpiry(h) == expiresAt[h] + Refresh
UnregisteredAnyway(h) == [streams EXCEPT ![home[h]] = None]

\* dbCreate inserts, or takes over a row WHERE "expiresAt" < NOW().
Vacant == rendezvous # None => rendezvous.expiresAt < now

\* dbExtendRendezvousExpiry and dbDeleteRendezvous work on the row of this
\* address, the first one WHERE "expiresAt" > NOW().
AtHome(h) == rendezvous # None /\ rendezvous.address = home[h]
Extendable(h) == AtHome(h) /\ rendezvous.expiresAt > now

Create(h) == rendezvous' = [address |-> home[h], owner |-> h,
                            expiresAt |-> expiresAt[h]]
Extend(h) == rendezvous' = [rendezvous EXCEPT !.expiresAt = expiresAt[h]]

\* The row that DeleteRendezvous leaves.
Left(h) == IF AtHome(h) THEN None ELSE rendezvous
-----------------------------------------------------------------------------
(* StreamEvents *)

Goto(h, step) == pc' = [pc EXCEPT ![h] = step]

\* The local variables of the handlers H go with them.
Forget(H) ==
    /\ expiresAt' = [h \in Handler |-> IF h \in H THEN 0 ELSE expiresAt[h]]
    /\ refreshAt' = [h \in Handler |-> IF h \in H THEN 0 ELSE refreshAt[h]]

End(h, why) == /\ Goto(h, "leave")
               /\ ended' = [ended EXCEPT ![h] = why]
               /\ Forget({h})

\* Timestamp, authorization or registration: nothing was touched yet.
Refuse(h) ==
    /\ pc[h] = "idle"
    /\ Goto(h, "done")
    /\ ended' = [ended EXCEPT ![h] = "other"]
    /\ UNCHANGED <<rendezvous, now, registry, home, timers>>

\* Under streamsMu: close the stream the user has on this server and put the
\* new one in its place.
Superseding(s) == [g \in Handler |-> closed[g] \/ streams[s] = g]

Register(h, s) ==
    /\ pc[h] = "idle"
    /\ Goto(h, "lock")
    /\ home' = [home EXCEPT ![h] = s]
    /\ closed' = Superseding(s)
    /\ streams' = [streams EXCEPT ![s] = h]
    /\ UNCHANGED <<rendezvous, now, streamMu, timers, ended>>

\* The expiry of the record is computed before the statement is sent.
AskExpiry(h) == expiresAt' = [expiresAt EXCEPT ![h] = now + Expiry]

\* The mutex admits any handler that waits, in any order; the client may be
\* gone by then.
Enter(h) ==
    /\ pc[h] = "lock"
    /\ streamMu[home[h]] = None
    /\ streamMu' = [streamMu EXCEPT ![home[h]] = h]
    /\ \/ Goto(h, "create") /\ AskExpiry(h) /\ UNCHANGED <<refreshAt, ended>>
       \/ End(h, "other")
    /\ UNCHANGED <<rendezvous, now, streams, home, closed>>

\* time.After(rendezvousRefreshInterval), from the moment the row is stored.
NextRefresh(h) == now + Refresh
Serve(h) == /\ Goto(h, "serve")
            /\ refreshAt' = [refreshAt EXCEPT ![h] = NextRefresh(h)]
            /\ UNCHANGED <<expiresAt, ended>>

CreateRendezvous(h) ==
    /\ pc[h] = "create"
    /\ \/ Vacant /\ Create(h) /\ Serve(h)
       \/ /\ ~Vacant
          /\ End(h, "superseded")
          /\ UNCHANGED rendezvous
       \/ /\ (Vacant /\ Create(h)) \/ UNCHANGED rendezvous  \* it fails
          /\ End(h, "other")
    /\ UNCHANGED <<now, registry, home>>

StartRefresh(h) ==
    /\ pc[h] = "serve" /\ refreshAt[h] <= now
    /\ Goto(h, "extend") /\ AskExpiry(h)
    /\ UNCHANGED <<rendezvous, now, registry, home, refreshAt, ended>>

ExtendRendezvousExpiry(h) ==
    /\ pc[h] = "extend"
    /\ \/ Extendable(h) /\ Extend(h) /\ Serve(h)
       \/ /\ ~Extendable(h)
          /\ End(h, "superseded")
          /\ UNCHANGED rendezvous
       \/ /\ (Extendable(h) /\ Extend(h)) \/ UNCHANGED rendezvous  \* it fails
          /\ End(h, "other")
    /\ UNCHANGED <<now, registry, home>>

\* The loop finds the channel drained and closed ...
SeeClosed(h) ==
    /\ pc[h] = "serve" /\ closed[h]
    /\ End(h, "superseded")
    /\ UNCHANGED <<rendezvous, now, registry, home>>

\* ... or that the client is gone: a send fails, no pong arrives in time, or
\* the context ends.
LoseClient(h) ==
    /\ pc[h] = "serve"
    /\ End(h, "other")
    /\ UNCHANGED <<rendezvous, now, registry, home>>

\* The deferred cleanup: the map first, under streamsMu ...
Unregistered(h) == [streams EXCEPT ![home[h]] = IF @ = h THEN None ELSE @]

Unregister(h) ==
    /\ pc[h] = "leave"
    /\ streams' = Unregistered(h)
    /\ Goto(h, "delete")
    /\ UNCHANGED <<rendezvous, now, streamMu, home, closed, timers, ended>>

\* ... then the row, and the mutex is released whether that works or not.
DeleteRendezvous(h) ==
    /\ pc[h] = "delete"
    /\ \/ rendezvous' = Left(h) /\ Goto(h, "done")
       \/ UNCHANGED rendezvous /\ Goto(h, "lost")
    /\ streamMu' = [streamMu EXCEPT ![home[h]] = None]
    /\ UNCHANGED <<now, streams, home, closed, timers, ended>>
-----------------------------------------------------------------------------
(* The environment of the handlers *)

\* Notify waited streamTimeout for room in the channel: it closes the stream,
\* which stays in the map, and whose handler may have left.
NotifyTimesOut(h) ==
    /\ pc[h] # "idle" /\ ~closed[h]
    /\ closed' = [closed EXCEPT ![h] = TRUE]
    /\ UNCHANGED <<rendezvous, now, streams, streamMu, pc, home, timers, ended>>

\* A server stops, and is started again with nothing in memory.
Crash(s) ==
    LET victims == {h \in Handler : home[h] = s /\ ~Ended(h)}
    IN  /\ victims # {}
        /\ pc' = [h \in Handler |-> IF h \in victims THEN "lost" ELSE pc[h]]
        /\ ended' = [h \in Handler |->
                        IF h \in victims THEN "other" ELSE ended[h]]
        /\ streams' = [streams EXCEPT ![s] = None]
        /\ streamMu' = [streamMu EXCEPT ![s] = None]
        /\ Forget(victims)
        /\ UNCHANGED <<rendezvous, now, home, closed>>

Tick ==
    /\ now < MaxTime
    /\ now' = now + 1
    /\ UNCHANGED <<rendezvous, registry, pc, home, timers, ended>>
-----------------------------------------------------------------------------
Init ==
    /\ rendezvous = None
    /\ now = 0
    /\ streams = [s \in Server |-> None]
    /\ streamMu = [s \in Server |-> None]
    /\ pc = [h \in Handler |-> "idle"]
    /\ home = [h \in Handler |-> None]
    /\ closed = [h \in Handler |-> FALSE]
    /\ expiresAt = [h \in Handler |-> 0]
    /\ refreshAt = [h \in Handler |-> 0]
    /\ ended = [h \in Handler |-> "none"]

\* The steps of a handler that runs; its client decides about the others.
Work(h) == \/ CreateRendezvous(h)
           \/ StartRefresh(h) \/ ExtendRendezvousExpiry(h)
           \/ Unregister(h) \/ DeleteRendezvous(h)

Next ==
    \/ \E h \in Handler : \/ Refuse(h) \/ Enter(h) \/ Work(h)
                          \/ SeeClosed(h) \/ LoseClient(h) \/ NotifyTimesOut(h)
                          \/ \E s \in Server : Register(h, s)
    \/ \E s \in Server : Crash(s)
    \/ Tick

Spec == Init /\ [][Next]_vars

\* Handlers run on, the Go mutex starves no waiter, and select, which picks
\* among ready cases at random, comes round to the closed channel.
Fairness == \A h \in Handler :
    WF_vars(Work(h)) /\ SF_vars(Enter(h)) /\ SF_vars(SeeClosed(h))

FairSpec == Spec /\ Fairness
-----------------------------------------------------------------------------
(* Properties *)

TypeOK ==
    /\ rendezvous \in Record \cup {None}
    /\ now \in 0 .. MaxTime
    /\ streams \in [Server -> Handler \cup {None}]
    /\ streamMu \in [Server -> Handler \cup {None}]
    /\ pc \in [Handler -> Steps]
    /\ home \in [Handler -> Server \cup {None}]
    /\ closed \in [Handler -> BOOLEAN]
    /\ expiresAt \in [Handler -> 0 .. MaxTime + Expiry]
    /\ refreshAt \in [Handler -> 0 .. MaxTime + Refresh]
    /\ ended \in [Handler -> Reasons]

\* A stream that nobody closed is the one in the map of its server: events
\* for the user reach it, and the handler of an older stream, however late it
\* cleans up (server.go:229-235), has not removed it.
OpenIsRegistered ==
    \A h \in Handler :
        pc[h] \in {"lock", "create", "serve", "extend"} /\ ~closed[h]
        => streams[home[h]] = h

\* Until the expiry that was last acknowledged to it has passed, a handler that
\* serves its client is where all servers look for the user: neither the
\* cleanup of another handler of the server, which deletes by address
\* (server.go:240), nor another server has removed or replaced its record.
ServingIsReachable ==
    \A h \in Handler :
        pc[h] = "serve" /\ now <= expiresAt[h] =>
            /\ rendezvous # None
            /\ rendezvous.owner = h /\ rendezvous.address = home[h]

\* A handler that ended in order leaves no record behind, in whatever way it
\* ended, even if it never knew that it had written one: users are not sent
\* to a server that has no stream (server.go:414-416 expects this to be rare).
NoOrphanRecord == rendezvous # None => pc[rendezvous.owner] # "done"

\* The lease that the record stands for.  Rows name servers, handlers come and
\* go on each, yet nobody ends the live lease of another handler that runs.
Holder == IF rendezvous = None THEN None ELSE rendezvous.owner
Live == rendezvous # None /\ rendezvous.expiresAt >= now
Gone == {h \in Handler : Ended(h)}
Lease == INSTANCE UserLease WITH holder <- Holder, live <- Live, gone <- Gone
ImplementsLease == Lease!Spec

\* The newest stream of a user on a server gets its turn, whatever happens to
\* the older ones: their channels are closed, and they give the mutex away.
NewestGetsItsTurn ==
    \A h \in Handler :
        (pc[h] = "lock" /\ ~closed[h]) ~> (pc[h] # "lock" \/ closed[h])

\* event/tests/server.go:92-124 opens many streams of one user on two servers at
\* once, closes none, and expects that one of them is left to serve the user.
SomeStreamSurvives ==
    (\A h \in Handler : pc[h] = "done") =>
        \E h \in Handler :
            ended[h] # "superseded"
=============================================================================
