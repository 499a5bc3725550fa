---------------------------- MODULE EventDelivery ----------------------------
(***************************************************************************)
(* The events of one user on their way to its streams: the tasks that look *)
(* up the rendezvous record, notify a local stream or forward to another   *)
(* server, and retry (event/server.go, forwarder.go), the channel and the  *)
(* lock of each stream (stream.go), and the detector of stale bet updates  *)
(* (pool/event.go).  EventStreams has the streams and their records; here  *)
(* its steps are taken only when the locks they need are free.             *)
(***************************************************************************)
EXTENDS EventStreams, Sequences, FiniteSets

CONSTANTS
    Event,          \* events published for the user
    Votes,          \* Votes[e]: the votes a bet update counts; None for others
    Task,           \* bound: the goroutines that carry events at once
    Worker,         \* the process that publishes and hosts no stream
    Buffer,         \* streamBufferSize
    MaxTries        \* coderetry.Limit

ASSUME DeliveryAssumption ==
    /\ Votes \in [Event -> Nat \cup {None}]
    /\ None \notin Nat /\ None \notin Task /\ None \notin Event
    /\ Worker \notin Server \cup {None}
    /\ Buffer \in Nat \ {0} /\ MaxTries \in Nat \ {0}

VARIABLES
    channel,        \* channel[h]: what the channel of h's stream holds
    streamLock,     \* streamLock[h]: the task that holds the lock of the stream
    streamsMu,      \* streamsMu[s]: the handler that holds it to close a stream
    latest,         \* latest[h]: the votes that h's detector let through last
    task,           \* task[k]: the event k carries, and how far it got
    sent,           \* history, sent[h]: what h sent to its client
    steady,         \* history, steady[e]: the handler that could have been
                    \* reached at all times since e was published
    lostAcks,       \* history, lostAcks[e]: deliveries whose reply was lost
    fate            \* history, fate[e]: whether e is published in this behaviour,
                    \* was, and whether a task with e gave up or crashed

locks == <<streamLock, streamsMu>>
history == <<sent, lostAcks, fate>>
delivery == <<channel, locks, latest, task, history>>
allVars == <<vars, delivery, steady>>

Place == Server \cup {Worker}
TaskSteps == {"lookup", "find", "select", "notify", "push", "close", "forward"}
Carrying == [event: Event, at: Place, try: 1 .. MaxTries, step: TaskSteps,
             to: Server \cup Handler \cup {None}]

\* A task that is under way is not the absent value.
ASSUME CarryingAssumption == None \notin Carrying

\* What has been put into the channel of h's stream so far.
Accepted(h) == sent[h] \o channel[h]

\* Where e has been put: the streams, and the places in them.
Copies(e) == UNION {{<<h, i>> : i \in {j \in DOMAIN Accepted(h) : Accepted(h)[j] = e}} :
                    h \in Handler}
-----------------------------------------------------------------------------
(* The tasks: forwardUserEvent under coderetry.Retry *)

\* Mutants, for the runs: each is a plausible slip in the definition whose
\* name it extends.
ShouldDropOlder(h, e) == Votes[e] # None /\ latest[h] > Votes[e]
MayReplaceAnyway(h, s) == streamsMu[s] \in {None, h}
ReachableForAWhile == rendezvous # None /\ rendezvous.expiresAt > now + Refresh
HasRoomForOneMore(h) == Len(channel[h]) <= Buffer
ClosesAndLeaves(h) ==
    /\ closed' = [closed EXCEPT ![h] = TRUE]
    /\ streams' = [streams EXCEPT ![home[h]] = IF @ = h THEN None ELSE @]
    /\ UNCHANGED <<rendezvous, now, streamMu, pc, home, timers, ended>>

Carries(k, step) == task[k] # None /\ task[k].step = step
Carry(e, place) == [event |-> e, at |-> place, try |-> 1, step |-> "lookup",
                    to |-> None]
MoveTo(k, step, target) ==
    task' = [task EXCEPT ![k].step = step, ![k].to = target]
Finish(k) == task' = [task EXCEPT ![k] = None]

\* An error is retried from the start, MaxTries attempts in all.
Retried(k) == IF task[k].try < MaxTries
              THEN [task[k] EXCEPT !.step = "lookup", !.to = None, !.try = @ + 1]
              ELSE None
AgainOrGiveUp(k) ==
    /\ task' = [task EXCEPT ![k] = Retried(k)]
    /\ fate' = [fate EXCEPT ![task[k].event] =
                    IF task[k].try < MaxTries THEN @ ELSE "failed"]

\* Bet updates come from the worker that handles payments, other events from
\* the bus of a server.  One task is started for an event and a user.
Origin(e) == IF Votes[e] # None THEN {Worker} ELSE Server

Publish(k, e, place) ==
    /\ task[k] = None /\ place \in Origin(e)
    /\ fate[e] = "unpublished"
    /\ task' = [task EXCEPT ![k] = Carry(e, place)]
    /\ fate' = [fate EXCEPT ![e] = "published"]
    /\ UNCHANGED <<vars, channel, locks, latest, sent, lostAcks>>

\* GetRendezvous returns a row WHERE "expiresAt" > NOW().
Reachable == rendezvous # None /\ rendezvous.expiresAt > now

\* The record decides: drop the event, notify here or forward it.  The worker
\* only forwards.
LookUp(k) ==
    /\ Carries(k, "lookup")
    /\ \/ ~Reachable /\ Finish(k)
       \/ /\ Reachable /\ rendezvous.address = task[k].at
          /\ MoveTo(k, "find", None)
       \/ /\ Reachable /\ rendezvous.address # task[k].at
          /\ MoveTo(k, "forward", rendezvous.address)
    /\ UNCHANGED <<vars, channel, locks, latest, history>>

LookUpFails(k) ==
    /\ Carries(k, "lookup")
    /\ AgainOrGiveUp(k)
    /\ UNCHANGED <<vars, channel, locks, latest, sent, lostAcks>>

\* ForwardEvents starts a task j of its own on the receiver and replies.  The
\* reply may be lost or late ...
AfterSuccessRetried(k) == Retried(k)
AfterSuccess(k) == None

Deliver(k, j) ==
    /\ Carries(k, "forward") /\ task[j] = None
    /\ LET Arrived(sender) == [task EXCEPT ![k] = sender,
                                ![j] = Carry(task[k].event, task[k].to)]
       IN  \/ /\ task' = Arrived(AfterSuccess(k))
              /\ UNCHANGED lostAcks
           \/ /\ task' = Arrived(Retried(k))
              /\ lostAcks' = [lostAcks EXCEPT ![task[k].event] = @ + 1]
    /\ UNCHANGED <<vars, channel, locks, latest, sent, fate>>

\* ... and the request as well: no connection, no answer in time, or DENIED.
ForwardFails(k) ==
    /\ Carries(k, "forward")
    /\ AgainOrGiveUp(k)
    /\ UNCHANGED <<vars, channel, locks, latest, sent, lostAcks>>

\* The stream is taken from the map under streamsMu and used after it.
FindStream(k) ==
    LET s == task[k].at
    IN  /\ Carries(k, "find") /\ streamsMu[s] = None
        /\ IF streams[s] = None THEN Finish(k)
           ELSE MoveTo(k, "select", streams[s])
        /\ UNCHANGED <<vars, channel, locks, latest, history>>
-----------------------------------------------------------------------------
(* ProtoEventStream.Notify *)

\* StaleEventDetector: a bet update goes on if it counts more votes than the
\* one before it.
ShouldDrop(h, e) == Votes[e] # None /\ latest[h] >= Votes[e]

\* The selector, which runs before the stream is locked.
SelectEvent(k) ==
    LET h == task[k].to
        e == task[k].event
    IN  /\ Carries(k, "select")
        /\ IF ShouldDrop(h, e) THEN Finish(k) ELSE MoveTo(k, "notify", h)
        /\ latest' = IF ShouldDrop(h, e) \/ Votes[e] = None THEN latest
                     ELSE [latest EXCEPT ![h] = Votes[e]]
        /\ UNCHANGED <<vars, channel, locks, history>>

HasRoom(h) == Len(channel[h]) < Buffer
Send(h, e) == channel' = [channel EXCEPT ![h] = Append(@, e)]

\* Under the lock: refuse, send, or wait for room and keep the lock.
LockToNotify(k) ==
    LET h == task[k].to
    IN  /\ Carries(k, "notify") /\ streamLock[h] = None
        /\ \/ closed[h] /\ Finish(k) /\ UNCHANGED <<channel, streamLock>>
           \/ /\ ~closed[h] /\ HasRoom(h)
              /\ Send(h, task[k].event) /\ Finish(k)
              /\ UNCHANGED streamLock
           \/ /\ ~closed[h] /\ ~HasRoom(h)
              /\ streamLock' = [streamLock EXCEPT ![h] = k]
              /\ MoveTo(k, "push", h)
              /\ UNCHANGED channel
        /\ UNCHANGED <<vars, streamsMu, latest, history>>

Unlocked(h) == streamLock' = [streamLock EXCEPT ![h] = None]

Push(k) ==
    LET h == task[k].to
    IN  /\ Carries(k, "push") /\ HasRoom(h)
        /\ Send(h, task[k].event)
        /\ Unlocked(h) /\ Finish(k)
        /\ UNCHANGED <<vars, streamsMu, latest, history>>

\* After streamTimeout the lock is given up, and taken again to close the
\* stream.
TimeOut(k) ==
    /\ Carries(k, "push")
    /\ Unlocked(task[k].to)
    /\ MoveTo(k, "close", task[k].to)
    /\ UNCHANGED <<vars, channel, streamsMu, latest, history>>

Closes(h) == NotifyTimesOut(h)
CloseTimedOut(k) ==
    LET h == task[k].to
    IN  /\ Carries(k, "close") /\ streamLock[h] = None
        /\ Finish(k)
        /\ IF closed[h] THEN UNCHANGED vars ELSE Closes(h)
        /\ UNCHANGED <<channel, locks, latest, history>>
-----------------------------------------------------------------------------
(* The handlers, as far as the locks and the channel restrict them *)

Registering(h) == \E s \in Server : streamsMu[s] = h
StreamHeld(s) == streams[s] # None /\ streamLock[streams[s]] # None

\* Close, called with streamsMu held, waits for the lock of the old stream.
WaitToReplace(h, s) ==
    /\ pc[h] = "idle" /\ ~Registering(h)
    /\ streamsMu[s] = None /\ StreamHeld(s)
    /\ streamsMu' = [streamsMu EXCEPT ![s] = h]
    /\ UNCHANGED <<vars, channel, streamLock, latest, task, history>>

MayReplace(h, s) == streamsMu[s] \in {None, h} /\ ~StreamHeld(s)

Replace(h, s) ==
    /\ Registering(h) => streamsMu[s] = h
    /\ MayReplace(h, s)
    /\ Register(h, s)
    /\ streamsMu' = [streamsMu EXCEPT ![s] = None]
    /\ UNCHANGED <<channel, streamLock, latest, task, history>>

\* A batch goes from the channel to the client.
SendToClient(h) ==
    /\ pc[h] = "serve" /\ channel[h] # <<>>
    /\ sent' = [sent EXCEPT ![h] = Append(@, Head(channel[h]))]
    /\ channel' = [channel EXCEPT ![h] = Tail(@)]
    /\ UNCHANGED <<vars, locks, latest, task, lostAcks, fate>>

\* A closed channel is drained before it is seen to be closed.
SeeDrained(h) ==
    channel[h] = <<>> /\ SeeClosed(h) /\ UNCHANGED delivery

Leave(h) ==
    Unregister(h) /\ streamsMu[home[h]] = None /\ UNCHANGED delivery

\* The steps of a handler that need nothing of this module.
Alone(h) ==
    /\ \/ CreateRendezvous(h) \/ StartRefresh(h) \/ ExtendRendezvousExpiry(h)
       \/ DeleteRendezvous(h)
    /\ UNCHANGED delivery

EndEarly(h) ==
    /\ (~Registering(h) /\ Refuse(h)) \/ LoseClient(h)
    /\ UNCHANGED delivery

EnterAlone(h) == Enter(h) /\ UNCHANGED delivery

\* The tasks of a server, and the locks they hold, go with it.
Killed(s) == {k \in Task : task[k] # None /\ task[k].at = s}

Stop(s) ==
    /\ Crash(s)
    /\ task' = [k \in Task |-> IF k \in Killed(s) THEN None ELSE task[k]]
    /\ fate' = [e \in Event |-> IF \E k \in Killed(s) : task[k].event = e
                                THEN "failed" ELSE fate[e]]
    /\ streamLock' = [h \in Handler |-> IF streamLock[h] \in Killed(s)
                                        THEN None ELSE streamLock[h]]
    /\ streamsMu' = [streamsMu EXCEPT ![s] = None]
    /\ UNCHANGED <<channel, latest, sent, lostAcks>>

TimePasses == Tick /\ UNCHANGED delivery
-----------------------------------------------------------------------------
NothingSent(E) ==
    /\ channel = [h \in Handler |-> <<>>]
    /\ fate = [e \in Event |-> IF e \in E THEN "unpublished" ELSE "never"]

DeliveryInit ==
    /\ Init
    /\ \E E \in SUBSET Event : NothingSent(E)
    /\ streamLock = [h \in Handler |-> None]
    /\ streamsMu = [s \in Server |-> None]
    /\ latest = [h \in Handler |-> -1]
    /\ task = [k \in Task |-> None]
    /\ sent = [h \in Handler |-> <<>>]
    /\ lostAcks = [e \in Event |-> 0]
    /\ steady = [e \in Event |-> None]

TaskWork(k) == \/ LookUp(k) \/ LookUpFails(k) \/ ForwardFails(k)
               \/ FindStream(k) \/ SelectEvent(k) \/ LockToNotify(k)
               \/ Push(k) \/ TimeOut(k) \/ CloseTimedOut(k)
               \/ \E j \in Task : Deliver(k, j)

\* Events on their way to the streams that are there, ...
Travel ==
    \/ \E h \in Handler : SendToClient(h) \/ SeeDrained(h)
    \/ \E k \in Task :
          \/ TaskWork(k)
          \/ \E e \in Event, place \in Place : Publish(k, e, place)

\* ... the streams as they last and end, ...
LastAndEnd ==
    \/ \E h \in Handler : Alone(h) \/ Leave(h) \/ EndEarly(h)
    \/ \E s \in Server : Stop(s)

\* ... and others that are opened in their place.
OpenStream ==
    \E h \in Handler :
        EnterAlone(h) \/ \E s \in Server : WaitToReplace(h, s) \/ Replace(h, s)

Progress == Travel \/ LastAndEnd \/ OpenStream \/ TimePasses

\* The handler that serves its client with a record that everybody sees.
InService ==
    IF /\ rendezvous # None /\ rendezvous.expiresAt > now
       /\ ~closed[rendezvous.owner]
       /\ pc[rendezvous.owner] \in {"serve", "extend"}
    THEN rendezvous.owner ELSE None

\* History: it accompanies every step.
Observe ==
    steady' = [e \in Event |->
                  IF \/ fate[e] = "unpublished" /\ fate'[e] # "failed"
                     \/ fate'[e] = "published" /\ steady[e] = InService'
                  THEN InService' ELSE None]

DeliveryNext == Progress /\ Observe
DeliverySpec == DeliveryInit /\ [][DeliveryNext]_allVars
-----------------------------------------------------------------------------
(* Properties *)

DeliveryTypeOK ==
    /\ channel \in [Handler -> Seq(Event)]
    /\ \A h \in Handler : Len(channel[h]) <= Buffer
    /\ streamLock \in [Handler -> Task \cup {None}]
    /\ streamsMu \in [Server -> Handler \cup {None}]
    /\ latest \in [Handler -> Nat \cup {-1}]
    /\ task \in [Task -> Carrying \cup {None}]
    /\ sent \in [Handler -> Seq(Event)]
    /\ steady \in [Event -> Handler \cup {None}]
    /\ lostAcks \in [Event -> Nat]
    /\ fate \in [Event -> {"never", "unpublished", "published", "failed"}]

\* The streams and the rendezvous record take only steps of EventStreams,
\* whatever the tasks do to them: a stream that times out is closed and stays
\* in the map (stream.go:59), where its handler or the next one removes it.
ImplementsStreams == [][Next]_vars

\* Sending on a closed channel, or closing it twice, panics: nobody closes
\* the stream whose lock a task holds while it waits for room (stream.go:55),
\* neither another task nor the handler that replaces it (server.go:159).
\* Nor is the lock kept by anybody else: not by a task that goes on to close
\* the stream, which needs the lock again (stream.go:58-59), or that is gone.
\* So a handler that waits for the lock with streamsMu held, and all who wait
\* for that one, get on when the timer runs out.
WaitsOnOpenChannel ==
    /\ \A k \in Task : Carries(k, "push") =>
          /\ ~closed[task[k].to]
          /\ streamLock[task[k].to] = k
    /\ \A h \in Handler : streamLock[h] # None =>
          Carries(streamLock[h], "push") /\ task[streamLock[h]].to = h

\* A client sees each count of a pool's votes at most once on a stream, though
\* updates are forwarded again after a lost reply (server.go:446-449) and
\* notified by several tasks at once.
UpdateSentOnce ==
    \A h \in Handler : \A i, j \in DOMAIN Accepted(h) :
        /\ i # j
        /\ Votes[Accepted(h)[i]] # None
        => Votes[Accepted(h)[i]] # Votes[Accepted(h)[j]]

\* Any other event reaches the streams of its user more often than once only
\* if the reply to a forwarding call was lost: a task that hears of a success
\* does not try again, nor does one that has notified a stream.
CopiesHaveCause ==
    \A e \in Event : Cardinality(Copies(e)) <= 1 + lostAcks[e]

\* An event whose tasks all ran to their end without giving up has been put
\* into the stream that served the user all the while, on whichever server
\* it was published, or a newer count of votes has.
SteadyStreamIsServed ==
    \A e \in Event :
        LET h == steady[e]
            carried == \E k \in Task : task[k] # None /\ task[k].event = e
        IN  fate[e] = "published" /\ ~carried /\ h # None =>
                \/ \E i \in DOMAIN Accepted(h) : Accepted(h)[i] = e
                \/ Votes[e] # None /\ latest[h] >= Votes[e]
=============================================================================
