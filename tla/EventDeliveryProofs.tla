------------------------- MODULE EventDeliveryProofs -------------------------
(***************************************************************************)
(* Proofs about EventDelivery, for any number of servers, streams, events, *)
(* tasks and retries: the types, what the locks of streams protect, and    *)
(* that every step is one of EventStreams or leaves its state alone; then  *)
(* what is put into the streams: no count of votes twice into one of them, *)
(* every event into one that serves its user all the while and was not     *)
(* given up on, and no event more often than replies got lost.             *)
(***************************************************************************)
EXTENDS EventDelivery, EventStreamsProofs, SequenceTheorems, FiniteSetTheorems

\* The target of a task is what its step takes it for.
TargetsKnown ==
    \A k \in Task : task[k] # None =>
        /\ task[k].step = "find" => task[k].at \in Server
        /\ task[k].step = "forward" => task[k].to \in Server
        /\ task[k].step \in {"select", "notify", "push", "close"} =>
              task[k].to \in Handler

-----------------------------------------------------------------------------
(* Facts about the tasks *)

LEMMA TaskFields ==
    ASSUME NEW c \in Carrying
    PROVE  /\ c # None
           /\ c.event \in Event /\ c.at \in Place /\ c.try \in 1 .. MaxTries
           /\ c.step \in TaskSteps /\ c.to \in Server \cup Handler \cup {None}
  BY CarryingAssumption DEF Carrying

LEMMA CarryFields ==
    ASSUME NEW e \in Event, NEW place \in Place
    PROVE  /\ Carry(e, place) \in Carrying
           /\ Carry(e, place).event = e /\ Carry(e, place).at = place
           /\ Carry(e, place).step = "lookup"
  BY DeliveryAssumption DEF Carry, Carrying, TaskSteps

\* What becomes of the tasks when k goes on to another step ...
LEMMA Moved ==
    ASSUME DeliveryTypeOK, NEW k \in Task, task[k] # None,
           NEW step \in TaskSteps, NEW target \in Server \cup Handler \cup {None},
           MoveTo(k, step, target)
    PROVE  /\ task' \in [Task -> Carrying \cup {None}]
           /\ task'[k] # None
           /\ task'[k].event = task[k].event /\ task'[k].at = task[k].at
           /\ task'[k].step = step /\ task'[k].to = target
           /\ \A j \in Task : j # k => task'[j] = task[j]
  <1> DEFINE c == [task[k] EXCEPT !.step = step, !.to = target]
  <1>1. task[k] \in Carrying
    BY DEF DeliveryTypeOK
  <1>2. /\ c \in Carrying
        /\ c.event = task[k].event /\ c.at = task[k].at
        /\ c.step = step /\ c.to = target
    BY <1>1 DEF Carrying
  <1>3. task' = [task EXCEPT ![k] = c]
    BY DEF MoveTo
  <1> HIDE DEF c
  <1> QED BY <1>2, <1>3, CarryingAssumption DEF DeliveryTypeOK

\* ... ends ...
LEMMA Finished ==
    ASSUME DeliveryTypeOK, NEW k \in Task, Finish(k)
    PROVE  /\ task' \in [Task -> Carrying \cup {None}]
           /\ task'[k] = None
           /\ \A j \in Task : j # k => task'[j] = task[j]
  BY DEF Finish, DeliveryTypeOK

\* ... or starts again.
LEMMA RetriedFields ==
    ASSUME DeliveryTypeOK, NEW k \in Task, task[k] # None
    PROVE  /\ Retried(k) \in Carrying \cup {None}
           /\ task[k].try < MaxTries => Retried(k) # None
           /\ Retried(k) # None => /\ Retried(k).event = task[k].event
                                   /\ Retried(k).at = task[k].at
                                   /\ Retried(k).step = "lookup"
  <1>1. task[k] \in Carrying
    BY DEF DeliveryTypeOK
  <1>2. CASE task[k].try < MaxTries
    <2> DEFINE c == [task[k] EXCEPT !.step = "lookup", !.to = None, !.try = @ + 1]
    <2>1. task[k].try \in 1 .. MaxTries
      BY <1>1, TaskFields
    <2>2. task[k].try + 1 \in 1 .. MaxTries
      BY <1>2, <2>1, DeliveryAssumption
    <2>3. /\ c \in Carrying
          /\ c.event = task[k].event /\ c.at = task[k].at /\ c.step = "lookup"
      BY <1>1, <2>2 DEF Carrying, TaskSteps
    <2>4. Retried(k) = c
      BY <1>2 DEF Retried
    <2> QED BY <2>3, <2>4, CarryingAssumption
  <1>3. CASE ~(task[k].try < MaxTries)
    BY <1>3 DEF Retried
  <1> QED BY <1>2, <1>3

LEMMA TriedAgain ==
    ASSUME DeliveryTypeOK, NEW k \in Task, task[k] # None, AgainOrGiveUp(k)
    PROVE  /\ task' \in [Task -> Carrying \cup {None}]
           /\ task'[k] # None => /\ task'[k].event = task[k].event
                                 /\ task'[k].at = task[k].at
                                 /\ task'[k].step = "lookup"
           /\ \A j \in Task : j # k => task'[j] = task[j]
           /\ fate' = [fate EXCEPT ![task[k].event] =
                          IF task'[k] # None THEN @ ELSE "failed"]
  <1>1. task[k] \in Carrying /\ task[k].event \in Event
    BY TaskFields DEF DeliveryTypeOK
  <1>2. task' = [task EXCEPT ![k] = Retried(k)]
    BY DEF AgainOrGiveUp
  <1>3. task'[k] = Retried(k) /\ \A j \in Task : j # k => task'[j] = task[j]
    BY <1>2 DEF DeliveryTypeOK
  <1>4. Retried(k) # None <=> task[k].try < MaxTries
    BY RetriedFields DEF Retried
  <1>5. fate' = [fate EXCEPT ![task[k].event] =
                    IF task[k].try < MaxTries THEN @ ELSE "failed"]
    BY DEF AgainOrGiveUp
  <1> QED BY <1>2, <1>3, <1>4, <1>5, RetriedFields DEF DeliveryTypeOK

\* A forwarding call leaves a task on the receiver and none or a new try on
\* the sender.
LEMMA Delivered ==
    ASSUME DeliveryTypeOK, TargetsKnown, NEW k \in Task, NEW j \in Task, Deliver(k, j)
    PROVE  /\ task' \in [Task -> Carrying \cup {None}]
           /\ j # k /\ task[k] # None /\ task[j] = None
           /\ task'[k] # None => /\ task'[k].event = task[k].event
                                 /\ task'[k].step = "lookup"
           /\ task'[j] # None /\ task'[j].event = task[k].event
           /\ task'[j].step = "lookup"
           /\ \A i \in Task : i \notin {j, k} => task'[i] = task[i]
  <1>1. /\ task[k] # None /\ task[k].step = "forward" /\ task[j] = None /\ j # k
    BY DEF Deliver, Carries
  <1>2. task[k] \in Carrying /\ task[k].event \in Event /\ task[k].to \in Server
    BY <1>1, TaskFields DEF DeliveryTypeOK, TargetsKnown
  <1> DEFINE c == Carry(task[k].event, task[k].to)
  <1>3. c \in Carrying /\ c # None /\ c.event = task[k].event /\ c.step = "lookup"
    BY <1>2, CarryFields, TaskFields DEF Place
  <1>4. PICK sender \in {None, Retried(k)} : task' = [task EXCEPT ![k] = sender, ![j] = c]
    BY DEF Deliver, AfterSuccess
  <1>5. sender \in Carrying \cup {None}
    BY <1>1, RetriedFields
  <1> HIDE DEF c
  <1>6. task'[k] = sender /\ task'[j] = c
        /\ \A i \in Task : i \notin {j, k} => task'[i] = task[i]
    BY <1>1, <1>4 DEF DeliveryTypeOK
  <1>7. task' \in [Task -> Carrying \cup {None}]
    BY <1>3, <1>4, <1>5 DEF DeliveryTypeOK
  <1> QED BY <1>1, <1>3, <1>6, <1>7, RetriedFields

-----------------------------------------------------------------------------
(* Types and targets *)

LEMMA InServiceType == TypeOK => InService \in Handler \cup {None}
  BY RecordFields DEF InService

LEMMA TypeInitial == DeliveryInit => DeliveryTypeOK /\ TargetsKnown
  <1> SUFFICES ASSUME DeliveryInit PROVE DeliveryTypeOK /\ TargetsKnown
    OBVIOUS
  <1>1. /\ channel \in [Handler -> Seq(Event)]
        /\ \A h \in Handler : Len(channel[h]) <= Buffer
    BY DeliveryAssumption DEF DeliveryInit, NothingSent
  <1>2. fate \in [Event -> {"never", "unpublished", "published", "failed"}]
    BY DEF DeliveryInit, NothingSent
  <1> QED BY <1>1, <1>2 DEF DeliveryInit, DeliveryTypeOK, TargetsKnown

\* DeliveryTypeOK, but for the history that Observe keeps.
CarriersTypeOK ==
    /\ channel \in [Handler -> Seq(Event)]
    /\ \A h \in Handler : Len(channel[h]) <= Buffer
    /\ streamLock \in [Handler -> Task \cup {None}]
    /\ streamsMu \in [Server -> Handler \cup {None}]
    /\ latest \in [Handler -> Nat \cup {-1}]
    /\ task \in [Task -> Carrying \cup {None}]
    /\ sent \in [Handler -> Seq(Event)]
    /\ lostAcks \in [Event -> Nat]
    /\ fate \in [Event -> {"never", "unpublished", "published", "failed"}]

\* The steps of a handler, of a server and of the clock.
OthersStep ==
    \/ \E h \in Handler : \/ SendToClient(h) \/ SeeDrained(h) \/ Alone(h)
                          \/ Leave(h) \/ EndEarly(h) \/ EnterAlone(h)
                          \/ \E s \in Server : WaitToReplace(h, s) \/ Replace(h, s)
    \/ \E s \in Server : Stop(s)
    \/ TimePasses

LEMMA OthersKeepTypes ==
    ASSUME DeliveryTypeOK, TargetsKnown, OthersStep
    PROVE  CarriersTypeOK' /\ TargetsKnown'
  <1> DEFINE Goal == CarriersTypeOK' /\ TargetsKnown'
  <1> USE DEF DeliveryTypeOK, CarriersTypeOK, TargetsKnown, delivery, locks, history
  <1>1. ASSUME NEW h \in Handler,
               SeeDrained(h) \/ Alone(h) \/ Leave(h) \/ EndEarly(h) \/ EnterAlone(h)
        PROVE  Goal
    <2>1. UNCHANGED delivery
      BY <1>1 DEF SeeDrained, Alone, Leave, EndEarly, EnterAlone
    <2> QED BY <2>1
  <1>2. ASSUME NEW h \in Handler, SendToClient(h) PROVE Goal
    <2>1. /\ channel[h] \in Seq(Event) /\ channel[h] # <<>> /\ sent[h] \in Seq(Event)
          /\ channel' = [channel EXCEPT ![h] = Tail(channel[h])]
          /\ sent' = [sent EXCEPT ![h] = Append(sent[h], Head(channel[h]))]
      BY <1>2 DEF SendToClient
    <2>2. /\ Tail(channel[h]) \in Seq(Event) /\ Len(Tail(channel[h])) <= Buffer
          /\ Head(channel[h]) \in Event
      BY <2>1, DeliveryAssumption
    <2>3. /\ channel' \in [Handler -> Seq(Event)]
          /\ \A g \in Handler : Len(channel'[g]) <= Buffer
          /\ sent' \in [Handler -> Seq(Event)]
      BY <2>1, <2>2
    <2> QED BY <1>2, <2>3 DEF SendToClient
  <1>3. ASSUME NEW h \in Handler, NEW s \in Server,
               WaitToReplace(h, s) \/ Replace(h, s)
        PROVE  Goal
    BY <1>3 DEF WaitToReplace, Replace
  <1>4. ASSUME NEW s \in Server, Stop(s) PROVE Goal
    <2>1. /\ task' \in [Task -> Carrying \cup {None}]
          /\ \A k \in Task : task'[k] \in {None, task[k]}
          /\ fate' \in [Event -> {"never", "unpublished", "published", "failed"}]
          /\ streamLock' \in [Handler -> Task \cup {None}]
          /\ streamsMu' \in [Server -> Handler \cup {None}]
          /\ UNCHANGED <<channel, latest, sent, lostAcks>>
      BY <1>4 DEF Stop
    <2>2. TargetsKnown'
      <3> SUFFICES ASSUME NEW k \in Task, task'[k] # None
                   PROVE  task'[k] = task[k]
        OBVIOUS
      <3> QED BY <2>1
    <2> QED BY <2>1, <2>2
  <1>5. CASE TimePasses
    BY <1>5 DEF TimePasses
  <1> QED BY <1>1, <1>2, <1>3, <1>4, <1>5 DEF OthersStep

\* The steps of a task.
TaskStep(k) ==
    TaskWork(k) \/ \E e \in Event, place \in Place : Publish(k, e, place)

LEMMA ProgressIsEither ==
    Progress <=> OthersStep \/ \E k \in Task : TaskStep(k)
  BY DEF Progress, Travel, LastAndEnd, OpenStream, OthersStep, TaskStep

\* A task that ends, or goes on to a step with a target, leaves the tasks
\* well-formed.
LEMMA FinishKeepsTasks ==
    ASSUME DeliveryTypeOK, TargetsKnown, NEW k \in Task, Finish(k)
    PROVE  task' \in [Task -> Carrying \cup {None}] /\ TargetsKnown'
  <1>1. \A j \in Task : task'[j] = None \/ task'[j] = task[j]
    BY Finished
  <1> QED BY <1>1, Finished DEF TargetsKnown

LEMMA MoveKeepsTasks ==
    ASSUME DeliveryTypeOK, TargetsKnown, NEW k \in Task, task[k] # None,
           NEW step, NEW target, MoveTo(k, step, target),
           \/ step = "find" /\ task[k].at \in Server /\ target = None
           \/ step = "forward" /\ target \in Server
           \/ step \in {"select", "notify", "push", "close"} /\ target \in Handler
    PROVE  task' \in [Task -> Carrying \cup {None}] /\ TargetsKnown'
  <1>1. step \in TaskSteps /\ target \in Server \cup Handler \cup {None}
    BY DEF TaskSteps
  <1>2. /\ task' \in [Task -> Carrying \cup {None}]
        /\ task'[k].at = task[k].at /\ task'[k].step = step /\ task'[k].to = target
        /\ \A j \in Task : j # k => task'[j] = task[j]
    BY <1>1, Moved
  <1>3. ASSUME NEW j \in Task, task'[j] # None
        PROVE  /\ task'[j].step = "find" => task'[j].at \in Server
               /\ task'[j].step = "forward" => task'[j].to \in Server
               /\ task'[j].step \in {"select", "notify", "push", "close"} =>
                     task'[j].to \in Handler
    <2>1. CASE j = k
      BY <1>2, <2>1
    <2>2. CASE j # k
      <3>1. task'[j] = task[j]
        BY <1>2, <2>2
      <3> QED BY <1>3, <3>1 DEF TargetsKnown
    <2> QED BY <2>1, <2>2
  <1> QED BY <1>2, <1>3 DEF TargetsKnown

LEMMA TasksKeepTypes ==
    ASSUME TypeOK, DeliveryTypeOK, TargetsKnown, NEW k \in Task, TaskStep(k)
    PROVE  CarriersTypeOK' /\ TargetsKnown'
  <1> DEFINE Goal == CarriersTypeOK' /\ TargetsKnown'
             h == task[k].to
             e == task[k].event
             Tasks == task' \in [Task -> Carrying \cup {None}] /\ TargetsKnown'
  <1>0. task[k] # None => /\ task[k] \in Carrying /\ e \in Event
                          /\ task[k].at \in Place
    BY TaskFields DEF DeliveryTypeOK
  <1>1. CASE LookUp(k)
    <2>1. task[k] # None
      BY <1>1 DEF LookUp, Carries
    <2>2. ASSUME Finish(k)
        PROVE  Tasks
      BY <2>2, FinishKeepsTasks
    <2>3. ASSUME Reachable /\ rendezvous.address = task[k].at /\ MoveTo(k, "find", None)
        PROVE  Tasks
      <3>1. task[k].at \in Server
        BY <2>3, RecordFields DEF Reachable
      <3> QED BY <2>1, <2>3, <3>1, MoveKeepsTasks
    <2>4. ASSUME Reachable /\ MoveTo(k, "forward", rendezvous.address)
        PROVE  Tasks
      <3>1. rendezvous.address \in Server
        BY <2>4, RecordFields DEF Reachable
      <3> QED BY <2>1, <2>4, <3>1, MoveKeepsTasks
    <2>5. Tasks
      BY <1>1, <2>2, <2>3, <2>4 DEF LookUp
    <2> QED BY <1>1, <2>5 DEF LookUp, DeliveryTypeOK, CarriersTypeOK, locks, history
  <1>2. CASE LookUpFails(k) \/ ForwardFails(k)
    <2>1. /\ task[k] # None /\ AgainOrGiveUp(k)
          /\ UNCHANGED <<channel, locks, latest, sent, lostAcks>>
      BY <1>2 DEF LookUpFails, ForwardFails, Carries
    <2>2. Tasks
      BY <2>1, TriedAgain DEF TargetsKnown
    <2>3. fate' \in [Event -> {"never", "unpublished", "published", "failed"}]
      BY <1>0, <2>1 DEF AgainOrGiveUp, DeliveryTypeOK
    <2> QED BY <2>1, <2>2, <2>3 DEF DeliveryTypeOK, CarriersTypeOK, locks
  <1>3. CASE FindStream(k)
    <2>1. task[k] # None /\ task[k].at \in Server
      BY <1>3 DEF FindStream, Carries, TargetsKnown
    <2>2. ASSUME Finish(k)
        PROVE  Tasks
      BY <2>2, FinishKeepsTasks
    <2>3. ASSUME streams[task[k].at] # None /\ MoveTo(k, "select", streams[task[k].at])
        PROVE  Tasks
      <3>1. streams[task[k].at] \in Handler
        BY <2>1, <2>3 DEF TypeOK
      <3> QED BY <2>1, <2>3, <3>1, MoveKeepsTasks
    <2>4. Tasks
      BY <1>3, <2>2, <2>3 DEF FindStream
    <2> QED BY <1>3, <2>4 DEF FindStream, DeliveryTypeOK, CarriersTypeOK, locks, history
  <1>4. CASE SelectEvent(k)
    <2>1. task[k] # None /\ h \in Handler /\ e \in Event
      BY <1>0, <1>4 DEF SelectEvent, Carries, TargetsKnown
    <2>2. latest' \in [Handler -> Nat \cup {-1}]
      BY <1>4, <2>1, DeliveryAssumption DEF SelectEvent, DeliveryTypeOK
    <2>3. Finish(k) \/ MoveTo(k, "notify", h)
      BY <1>4 DEF SelectEvent
    <2>4. Tasks
      BY <2>1, <2>3, FinishKeepsTasks, MoveKeepsTasks
    <2> QED BY <1>4, <2>2, <2>4 DEF SelectEvent, DeliveryTypeOK, CarriersTypeOK,
                                    locks, history
  <1>5. ASSUME h \in Handler, e \in Event, HasRoom(h), Send(h, e)
        PROVE  /\ channel' \in [Handler -> Seq(Event)]
               /\ \A g \in Handler : Len(channel'[g]) <= Buffer
    <2>1. /\ channel[h] \in Seq(Event) /\ Len(channel[h]) < Buffer
          /\ channel' = [channel EXCEPT ![h] = Append(channel[h], e)]
      BY <1>5 DEF HasRoom, Send, DeliveryTypeOK
    <2>2. /\ Append(channel[h], e) \in Seq(Event)
          /\ Len(Append(channel[h], e)) <= Buffer
      BY <1>5, <2>1, DeliveryAssumption
    <2> QED BY <2>1, <2>2 DEF DeliveryTypeOK
  <1>6. CASE LockToNotify(k)
    <2>1. task[k] # None /\ h \in Handler /\ e \in Event
      BY <1>0, <1>6 DEF LockToNotify, Carries, TargetsKnown
    <2>2. /\ channel' \in [Handler -> Seq(Event)]
          /\ \A g \in Handler : Len(channel'[g]) <= Buffer
          /\ streamLock' \in [Handler -> Task \cup {None}]
      BY <1>5, <1>6, <2>1 DEF LockToNotify, DeliveryTypeOK
    <2>3. Finish(k) \/ MoveTo(k, "push", h)
      BY <1>6 DEF LockToNotify
    <2>4. Tasks
      BY <2>1, <2>3, FinishKeepsTasks, MoveKeepsTasks
    <2> QED BY <1>6, <2>2, <2>4 DEF LockToNotify, DeliveryTypeOK, CarriersTypeOK,
                                    history
  <1>7. CASE Push(k)
    <2>1. task[k] # None /\ h \in Handler /\ e \in Event
      BY <1>0, <1>7 DEF Push, Carries, TargetsKnown
    <2>2. /\ channel' \in [Handler -> Seq(Event)]
          /\ \A g \in Handler : Len(channel'[g]) <= Buffer
      BY <1>5, <1>7, <2>1 DEF Push
    <2>3. Tasks
      BY <1>7, FinishKeepsTasks DEF Push
    <2> QED BY <1>7, <2>2, <2>3 DEF Push, Unlocked, DeliveryTypeOK, CarriersTypeOK,
                                    history
  <1>8. CASE TimeOut(k)
    <2>1. task[k] # None /\ h \in Handler /\ MoveTo(k, "close", h)
      BY <1>8 DEF TimeOut, Carries, TargetsKnown
    <2>2. Tasks
      BY <2>1, MoveKeepsTasks
    <2> QED BY <1>8, <2>2 DEF TimeOut, Unlocked, DeliveryTypeOK, CarriersTypeOK,
                              history
  <1>9. CASE CloseTimedOut(k)
    <2>1. Tasks
      BY <1>9, FinishKeepsTasks DEF CloseTimedOut
    <2> QED BY <1>9, <2>1 DEF CloseTimedOut, DeliveryTypeOK, CarriersTypeOK,
                              locks, history
  <1>10. ASSUME NEW j \in Task, Deliver(k, j) PROVE Goal
    <2>1. e \in Event
      BY <1>0, <1>10, Delivered
    <2>2. lostAcks' \in [Event -> Nat]
      <3>1. \/ lostAcks' = lostAcks
            \/ lostAcks' = [lostAcks EXCEPT ![e] = lostAcks[e] + 1]
        BY <1>10 DEF Deliver
      <3>2. lostAcks[e] + 1 \in Nat
        BY <2>1 DEF DeliveryTypeOK
      <3> QED BY <3>1, <3>2 DEF DeliveryTypeOK
    <2>3. TargetsKnown'
      BY <1>10, Delivered DEF TargetsKnown
    <2>4. task' \in [Task -> Carrying \cup {None}]
      BY <1>10, Delivered
    <2> QED BY <1>10, <2>2, <2>3, <2>4 DEF Deliver, DeliveryTypeOK, CarriersTypeOK,
                                           locks
  <1>11. ASSUME NEW f \in Event, NEW place \in Place, Publish(k, f, place)
         PROVE  Goal
    <2> DEFINE c == Carry(f, place)
    <2>1. c \in Carrying /\ c.step = "lookup"
      BY CarryFields
    <2>2. task' = [task EXCEPT ![k] = c]
      BY <1>11 DEF Publish
    <2> HIDE DEF c
    <2>3. Tasks
      BY <2>1, <2>2 DEF DeliveryTypeOK, TargetsKnown
    <2> QED BY <1>11, <2>3 DEF Publish, DeliveryTypeOK, CarriersTypeOK, locks
  <1> QED BY <1>1, <1>2, <1>3, <1>4, <1>6, <1>7, <1>8, <1>9, <1>10, <1>11
          DEF TaskStep, TaskWork

-----------------------------------------------------------------------------
(* The streams take steps of EventStreams *)

LEMMA StreamsStep ==
    ASSUME DeliveryTypeOK, TargetsKnown, [DeliveryNext]_allVars
    PROVE  [Next]_vars
  <1>1. CASE UNCHANGED allVars
    BY <1>1 DEF allVars
  <1>2. CASE OthersStep
    BY <1>2 DEF OthersStep, SendToClient, SeeDrained, Alone, Leave, EndEarly,
                EnterAlone, WaitToReplace, Replace, Stop, TimePasses, Next, Work
  <1>3. ASSUME NEW k \in Task, TaskStep(k) PROVE [Next]_vars
    <2>1. CASE CloseTimedOut(k)
      <3>1. task[k].to \in Handler
        BY <2>1 DEF CloseTimedOut, Carries, TargetsKnown
      <3> QED BY <2>1, <3>1 DEF CloseTimedOut, Closes, Next
    <2>2. CASE ~CloseTimedOut(k)
      BY <1>3, <2>2 DEF TaskStep, TaskWork, LookUp, LookUpFails, ForwardFails,
             FindStream, SelectEvent, LockToNotify, Push, TimeOut, Deliver, Publish
    <2> QED BY <2>1, <2>2
  <1> QED BY <1>1, <1>2, <1>3, ProgressIsEither DEF DeliveryNext

DeliveryInv == Inv /\ DeliveryTypeOK /\ TargetsKnown

LEMMA DeliveryStep ==
    ASSUME DeliveryInv, [DeliveryNext]_allVars
    PROVE  DeliveryInv'
  <1>1. Inv'
    BY StreamsStep, InvStep DEF DeliveryInv
  <1>2. CASE UNCHANGED allVars
    BY <1>1, <1>2 DEF DeliveryInv, DeliveryTypeOK, TargetsKnown, allVars, delivery,
                      locks, history
  <1>3. CASE DeliveryNext
    <2>1. CarriersTypeOK' /\ TargetsKnown'
      BY <1>3, ProgressIsEither, OthersKeepTypes, TasksKeepTypes
         DEF DeliveryNext, DeliveryInv, Inv
    <2>2. InService' \in Handler \cup {None}
      <3>1. TypeOK'
        BY <1>1 DEF Inv
      <3>2. rendezvous' # None => rendezvous'.owner \in Handler
        BY <3>1 DEF TypeOK, Record
      <3> QED BY <3>2 DEF InService
    <2>3. steady' \in [Event -> Handler \cup {None}]
      BY <1>3, <2>2 DEF DeliveryNext, Observe
    <2> QED BY <1>1, <2>1, <2>3 DEF DeliveryInv, DeliveryTypeOK, CarriersTypeOK
  <1> QED BY <1>2, <1>3

THEOREM DeliveryInvariance == DeliverySpec => []DeliveryInv
  <1>1. DeliveryInit => DeliveryInv
    BY TypeInitial, InvInit DEF DeliveryInit, DeliveryInv
  <1> QED BY <1>1, DeliveryStep, PTL DEF DeliverySpec

\* Channels, locks and tasks keep their types, and no channel holds more than
\* its buffer.
THEOREM DeliveryTypeCorrect == DeliverySpec => []DeliveryTypeOK
  <1>1. DeliveryInv => DeliveryTypeOK
    BY DEF DeliveryInv
  <1> QED BY <1>1, DeliveryInvariance, PTL

\* Whatever the tasks and the locks do, the streams and the records take only
\* steps of EventStreams: what is proved of those holds beside the deliveries.
THEOREM StreamsImplemented == DeliverySpec => ImplementsStreams
  <1>1. DeliveryInv /\ [DeliveryNext]_allVars => [Next]_vars
    BY StreamsStep DEF DeliveryInv
  <1> QED BY <1>1, DeliveryInvariance, PTL DEF DeliverySpec, ImplementsStreams

-----------------------------------------------------------------------------
(* The locks of the streams *)

\* What becomes of the task that takes a step: it ends, starts again or goes
\* on by one step ...
StepsTo(k, steps) == task'[k] = None \/ task'[k].step \in steps

\* ... while the others stay as they are, but for one that may be started.
OthersStay(k) ==
    \A j \in Task : j # k =>
        task'[j] = task[j] \/ (task[j] = None /\ task'[j].step = "lookup")

\* The steps that touch neither locks nor channels.
Roaming(k) ==
    \/ LookUp(k) \/ LookUpFails(k) \/ ForwardFails(k)
    \/ FindStream(k) \/ SelectEvent(k) \/ \E j \in Task : Deliver(k, j)
    \/ \E e \in Event, place \in Place : Publish(k, e, place)

LEMMA MoveFields ==
    ASSUME DeliveryTypeOK, TargetsKnown, NEW k \in Task, task[k] # None,
           NEW step, NEW target, MoveTo(k, step, target),
           \/ step = "find" /\ target = None
           \/ step = "forward" /\ target \in Server
           \/ step \in {"select", "notify", "push", "close"} /\ target \in Handler
    PROVE  /\ task'[k] # None /\ task'[k].event = task[k].event
           /\ task'[k].at = task[k].at
           /\ task'[k].step = step /\ task'[k].to = target
           /\ \A j \in Task : j # k => task'[j] = task[j]
  <1>1. step \in TaskSteps /\ target \in Server \cup Handler \cup {None}
    BY DEF TaskSteps
  <1> QED BY <1>1, Moved

LEMMA RoamingStep ==
    ASSUME TypeOK, DeliveryTypeOK, TargetsKnown, NEW k \in Task, Roaming(k)
    PROVE  /\ ~Carries(k, "push") /\ ~Carries(k, "notify")
           /\ StepsTo(k, {"lookup", "find", "forward", "select", "notify"})
           /\ OthersStay(k)
           /\ UNCHANGED <<vars, channel, locks, sent>>
           /\ SelectEvent(k) \/ (~Carries(k, "notify")' /\ UNCHANGED latest)
  <1> DEFINE Goal ==
          /\ ~Carries(k, "push") /\ ~Carries(k, "notify")
          /\ StepsTo(k, {"lookup", "find", "forward", "select", "notify"})
          /\ OthersStay(k)
          /\ UNCHANGED <<vars, channel, locks, sent>>
          /\ SelectEvent(k) \/ (~Carries(k, "notify")' /\ UNCHANGED latest)
  <1> USE DEF StepsTo, OthersStay
  <1>1. CASE LookUp(k)
    <2>1. /\ Carries(k, "lookup") /\ UNCHANGED <<vars, channel, locks, latest, history>>
          /\ Reachable => rendezvous.address \in Server
      BY <1>1, RecordFields DEF LookUp, Reachable
    <2>2. \/ Finish(k)
          \/ MoveTo(k, "find", None)
          \/ Reachable /\ MoveTo(k, "forward", rendezvous.address)
      BY <1>1 DEF LookUp
    <2>3. ASSUME Finish(k) PROVE Goal
      BY <2>1, <2>3, Finished DEF Carries, history
    <2>4. ASSUME MoveTo(k, "find", None) PROVE Goal
      BY <2>1, <2>4, MoveFields DEF Carries, history
    <2>5. ASSUME Reachable, MoveTo(k, "forward", rendezvous.address) PROVE Goal
      BY <2>1, <2>5, MoveFields DEF Carries, history
    <2> QED BY <2>2, <2>3, <2>4, <2>5
  <1>2. CASE LookUpFails(k) \/ ForwardFails(k)
    BY <1>2, TriedAgain DEF LookUpFails, ForwardFails, Carries
  <1>3. CASE FindStream(k)
    <2>1. /\ Carries(k, "find") /\ task[k].at \in Server
          /\ UNCHANGED <<vars, channel, locks, latest, history>>
      BY <1>3 DEF FindStream, Carries, TargetsKnown
    <2>2. ASSUME Finish(k) PROVE Goal
      BY <2>1, <2>2, Finished DEF Carries, history
    <2>3. ASSUME streams[task[k].at] # None, MoveTo(k, "select", streams[task[k].at])
          PROVE  Goal
      <3>1. streams[task[k].at] \in Handler
        BY <2>1, <2>3 DEF TypeOK
      <3> QED BY <2>1, <2>3, <3>1, MoveFields DEF Carries, history
    <2> QED BY <1>3, <2>2, <2>3 DEF FindStream
  <1>4. CASE SelectEvent(k)
    <2>1. /\ Carries(k, "select") /\ task[k].to \in Handler
          /\ UNCHANGED <<vars, channel, locks, history>>
          /\ Finish(k) \/ MoveTo(k, "notify", task[k].to)
      BY <1>4 DEF SelectEvent, Carries, TargetsKnown
    <2>2. ASSUME Finish(k) PROVE Goal
      BY <1>4, <2>1, <2>2, Finished DEF Carries, history
    <2>3. ASSUME MoveTo(k, "notify", task[k].to) PROVE Goal
      BY <1>4, <2>1, <2>3, MoveFields DEF Carries, history
    <2> QED BY <2>1, <2>2, <2>3
  <1>5. ASSUME NEW j \in Task, Deliver(k, j) PROVE Goal
    <2>1. Carries(k, "forward") /\ UNCHANGED <<vars, channel, locks, sent, latest>>
      BY <1>5 DEF Deliver
    <2> QED BY <1>5, <2>1, Delivered DEF Carries
  <1>6. ASSUME NEW e \in Event, NEW place \in Place, Publish(k, e, place)
        PROVE  Goal
    <2> DEFINE c == Carry(e, place)
    <2>1. c \in Carrying /\ c.step = "lookup"
      BY CarryFields
    <2>2. task[k] = None /\ task' = [task EXCEPT ![k] = c]
      BY <1>6 DEF Publish
    <2> HIDE DEF c
    <2> QED BY <1>6, <2>1, <2>2 DEF Publish, Carries, DeliveryTypeOK
  <1> QED BY <1>1, <1>2, <1>3, <1>4, <1>5, <1>6 DEF Roaming

LEMMA TaskStepIsEither ==
    ASSUME NEW k \in Task
    PROVE  TaskStep(k) <=> \/ Roaming(k) \/ LockToNotify(k) \/ Push(k)
                           \/ TimeOut(k) \/ CloseTimedOut(k)
  BY DEF TaskStep, TaskWork, Roaming

\* The two parts of WaitsOnOpenChannel, for a task and for a stream.
Holds(j) == Carries(j, "push") =>
    ~closed[task[j].to] /\ streamLock[task[j].to] = j
Held(h) == streamLock[h] # None =>
    Carries(streamLock[h], "push") /\ task[streamLock[h]].to = h

LEMMA LocksParts ==
    WaitsOnOpenChannel <=> (\A j \in Task : Holds(j)) /\ (\A h \in Handler : Held(h))
  BY DEF WaitsOnOpenChannel, Holds, Held

LEMMA LocksStep ==
    ASSUME TypeOK, DeliveryTypeOK, TargetsKnown, WaitsOnOpenChannel,
           [DeliveryNext]_allVars
    PROVE  WaitsOnOpenChannel'
  <1> USE DeliveryAssumption
  <1>1. CASE UNCHANGED <<task, streamLock, closed>>
    BY <1>1 DEF WaitsOnOpenChannel, Carries
  <1>2. ASSUME NEW h \in Handler, NEW s \in Server, Replace(h, s)
        PROVE  WaitsOnOpenChannel'
    <2>1. /\ ~StreamHeld(s) /\ closed' = Superseding(s)
          /\ UNCHANGED <<task, streamLock>>
      BY <1>2 DEF Replace, MayReplace, Register
    <2>2. ASSUME NEW k \in Task, Carries(k, "push")
          PROVE  ~closed'[task[k].to]
      <3>1. /\ ~closed[task[k].to] /\ streamLock[task[k].to] = k
            /\ task[k].to \in Handler
        BY <2>2 DEF WaitsOnOpenChannel, Carries, TargetsKnown
      <3>2. streams[s] # task[k].to
        BY <2>1, <3>1, NamesAssumption DEF StreamHeld
      <3>3. closed'[task[k].to] <=>
                closed[task[k].to] \/ streams[s] = task[k].to
        BY <2>1, <3>1 DEF Superseding
      <3> QED BY <3>1, <3>2, <3>3
    <2> QED BY <2>1, <2>2 DEF WaitsOnOpenChannel, Carries
  <1>3. ASSUME NEW s \in Server, Stop(s) PROVE WaitsOnOpenChannel'
    <2>1. /\ closed' = closed
          /\ \A k \in Task : task'[k] = IF k \in Killed(s) THEN None ELSE task[k]
          /\ \A h \in Handler : streamLock'[h] =
                IF streamLock[h] \in Killed(s) THEN None ELSE streamLock[h]
      BY <1>3 DEF Stop, Crash
    <2>2. Killed(s) \subseteq Task
      BY DEF Killed
    <2>3. \A k \in Task : task[k] # None /\ task[k].step = "push" =>
                              task[k].to \in Handler
      BY DEF TargetsKnown
    <2> QED BY <2>1, <2>2, <2>3 DEF WaitsOnOpenChannel, Carries, DeliveryTypeOK
  <1>4. ASSUME NEW k \in Task, Roaming(k) PROVE WaitsOnOpenChannel'
    <2>1. /\ ~Carries(k, "push") /\ ~Carries(k, "push")'
          /\ OthersStay(k) /\ UNCHANGED <<closed, streamLock>>
      BY <1>4, RoamingStep DEF Carries, StepsTo, vars, locks
    <2>2. \A j \in Task : /\ Carries(j, "push")' <=> Carries(j, "push")
                          /\ Carries(j, "push") => task'[j] = task[j]
      BY <2>1 DEF Carries, OthersStay
    <2> QED BY <2>1, <2>2 DEF WaitsOnOpenChannel, DeliveryTypeOK
  <1>5. ASSUME NEW k \in Task, LockToNotify(k) PROVE WaitsOnOpenChannel'
    <2>1. PICK h \in Handler : h = task[k].to
      BY <1>5 DEF LockToNotify, Carries, TargetsKnown
    <2>2. /\ task[k] # None /\ task[k].step = "notify" /\ streamLock[h] = None
          /\ closed' = closed
      BY <1>5, <2>1 DEF LockToNotify, Carries, vars
    <2>3. CASE Finish(k) /\ UNCHANGED streamLock
      <3>1. /\ task'[k] = None /\ \A j \in Task : j # k => task'[j] = task[j]
        BY <2>3, Finished
      <3>2. ASSUME NEW j \in Task PROVE Holds(j)'
        BY <2>2, <2>3, <3>1, LocksParts DEF Holds, Carries
      <3>3. ASSUME NEW g \in Handler PROVE Held(g)'
        <4>1. streamLock[g] # None => streamLock[g] \in Task
          BY DEF DeliveryTypeOK
        <4> QED BY <2>2, <2>3, <3>1, <4>1, LocksParts DEF Held, Carries
      <3> QED BY <3>2, <3>3 DEF WaitsOnOpenChannel, Holds, Held
    <2>4. CASE /\ streamLock' = [streamLock EXCEPT ![h] = k]
               /\ MoveTo(k, "push", h) /\ ~closed[h]
      <3>1. /\ task'[k] # None /\ task'[k].step = "push" /\ task'[k].to = h
            /\ \A j \in Task : j # k => task'[j] = task[j]
        BY <2>2, <2>4, MoveFields
      <3>2. streamLock'[h] = k /\ \A g \in Handler : g # h => streamLock'[g] = streamLock[g]
        BY <2>4 DEF DeliveryTypeOK
      <3>3. \A j \in Task : j # k /\ Carries(j, "push") => task[j].to # h
        BY <2>2 DEF WaitsOnOpenChannel
      <3>4. \A g \in Handler : streamLock[g] # k
        BY <2>2 DEF WaitsOnOpenChannel, Carries
      <3>5. \A j \in Task : task[j] # None /\ task[j].step = "push" =>
                                task[j].to \in Handler
        BY DEF TargetsKnown
      <3>6. ASSUME NEW j \in Task PROVE Holds(j)'
        <4>1. CASE j = k
          BY <2>2, <2>4, <3>1, <3>2, <4>1 DEF Holds
        <4>2. CASE j # k
          BY <2>2, <3>1, <3>2, <3>3, <3>5, <4>2, LocksParts DEF Holds, Carries
        <4> QED BY <4>1, <4>2
      <3>7. ASSUME NEW g \in Handler PROVE Held(g)'
        <4>1. streamLock[g] # None => streamLock[g] \in Task
          BY DEF DeliveryTypeOK
        <4> QED BY <2>2, <3>1, <3>2, <3>4, <4>1, LocksParts DEF Held, Carries
      <3> QED BY <3>6, <3>7 DEF WaitsOnOpenChannel, Holds, Held
    <2> QED BY <1>5, <2>1, <2>3, <2>4 DEF LockToNotify
  <1>6. ASSUME NEW k \in Task, Push(k) \/ TimeOut(k) PROVE WaitsOnOpenChannel'
    <2>1. PICK h \in Handler : h = task[k].to
      BY <1>6 DEF Push, TimeOut, Carries, TargetsKnown
    <2>2. /\ task[k] # None /\ task[k].step = "push" /\ streamLock[h] = k
          /\ closed' = closed /\ streamLock' = [streamLock EXCEPT ![h] = None]
      BY <1>6, <2>1 DEF Push, TimeOut, Carries, vars, Unlocked, WaitsOnOpenChannel
    <2>3. Finish(k) \/ MoveTo(k, "close", h)
      BY <1>6, <2>1 DEF Push, TimeOut
    <2>4. /\ ~Carries(k, "push")' /\ \A j \in Task : j # k => task'[j] = task[j]
      BY <2>2, <2>3, Finished, MoveFields DEF Carries
    <2>5. streamLock'[h] = None /\ \A g \in Handler : g # h => streamLock'[g] = streamLock[g]
      BY <2>2 DEF DeliveryTypeOK
    <2>6. \A j \in Task : task[j] # None /\ task[j].step = "push" =>
                              task[j].to \in Handler
      BY DEF TargetsKnown
    <2>7. \A j \in Task : j # k /\ Carries(j, "push") => task[j].to # h
      BY <2>2 DEF WaitsOnOpenChannel
    <2>8. \A g \in Handler : g # h => streamLock[g] # k
      BY <2>1, <2>2 DEF WaitsOnOpenChannel, Carries
    <2>9. ASSUME NEW j \in Task PROVE Holds(j)'
      BY <2>2, <2>4, <2>5, <2>6, <2>7, LocksParts DEF Holds, Carries
    <2>10. ASSUME NEW g \in Handler PROVE Held(g)'
      <3>1. streamLock[g] # None => streamLock[g] \in Task
        BY DEF DeliveryTypeOK
      <3> QED BY <2>2, <2>4, <2>5, <2>8, <3>1, LocksParts DEF Held, Carries
    <2> QED BY <2>9, <2>10 DEF WaitsOnOpenChannel, Holds, Held
  <1>7. ASSUME NEW k \in Task, CloseTimedOut(k) PROVE WaitsOnOpenChannel'
    <2>1. PICK h \in Handler : h = task[k].to
      BY <1>7 DEF CloseTimedOut, Carries, TargetsKnown
    <2>2. /\ task[k] # None /\ task[k].step = "close" /\ streamLock[h] = None
          /\ streamLock' = streamLock /\ Finish(k)
          /\ closed' \in {closed, [closed EXCEPT ![h] = TRUE]}
      BY <1>7, <2>1 DEF CloseTimedOut, Carries, vars, locks, Closes, NotifyTimesOut
    <2>3. task'[k] = None /\ \A j \in Task : j # k => task'[j] = task[j]
      BY <2>2, Finished
    <2>4. \A j \in Task : Carries(j, "push") =>
              task[j].to \in Handler /\ task[j].to # h
      BY <2>2 DEF WaitsOnOpenChannel, Carries, TargetsKnown
    <2>5. \A g \in Handler : g # h => closed'[g] = closed[g]
      BY <2>2 DEF TypeOK
    <2>6. ASSUME NEW j \in Task PROVE Holds(j)'
      <3>1. CASE Carries(j, "push")
        BY <2>2, <2>3, <2>4, <2>5, <3>1, LocksParts DEF Holds, Carries
      <3>2. CASE ~Carries(j, "push")
        BY <2>3, <3>2 DEF Holds, Carries
      <3> QED BY <3>1, <3>2
    <2>7. ASSUME NEW g \in Handler PROVE Held(g)'
      <3>1. streamLock[g] # None => streamLock[g] \in Task
        BY DEF DeliveryTypeOK
      <3> QED BY <2>2, <2>3, <3>1, LocksParts DEF Held, Carries
    <2> QED BY <2>6, <2>7 DEF WaitsOnOpenChannel, Holds, Held
  <1>8. CASE UNCHANGED allVars
    BY <1>1, <1>8 DEF allVars, vars, delivery, locks, registry
  <1>9. CASE OthersStep
    <2>1. \/ \E h \in Handler, s \in Server : Replace(h, s)
          \/ \E s \in Server : Stop(s)
          \/ UNCHANGED <<task, streamLock, closed>>
      BY <1>9 DEF OthersStep, SendToClient, SeeDrained, SeeClosed, Alone, Leave,
             EndEarly, EnterAlone, WaitToReplace, TimePasses, Enter, CreateRendezvous,
             StartRefresh, ExtendRendezvousExpiry, DeleteRendezvous, Refuse,
             LoseClient, Unregister, Tick, vars, delivery, locks, registry
    <2> QED BY <1>1, <1>2, <1>3, <2>1
  <1> QED BY <1>4, <1>5, <1>6, <1>7, <1>8, <1>9, ProgressIsEither, TaskStepIsEither
          DEF DeliveryNext

\* A task that waits for room holds the lock of an open stream, and nobody
\* else holds one: no send or second close meets a closed channel, and whoever
\* waits for the lock gets on when the task's timer runs out.
THEOREM WaitingTasksHoldTheLock == DeliverySpec => []WaitsOnOpenChannel
  <1>1. DeliveryInit => WaitsOnOpenChannel
    BY DEF DeliveryInit, WaitsOnOpenChannel, Carries
  <1>2. DeliveryInv /\ WaitsOnOpenChannel /\ [DeliveryNext]_allVars =>
            WaitsOnOpenChannel'
    BY LocksStep DEF DeliveryInv, Inv
  <1> QED BY <1>1, <1>2, DeliveryInvariance, PTL DEF DeliverySpec
-----------------------------------------------------------------------------
(* What a step does to the channels *)

LEMMA AppendToConcat ==
    ASSUME NEW S, NEW s \in Seq(S), NEW t \in Seq(S), NEW x \in S
    PROVE  s \o Append(t, x) = Append(s \o t, x)
  <1>1. s \o t \in Seq(S) /\ <<x>> \in Seq(S)
    BY ConcatProperties
  <1>2. s \o Append(t, x) = s \o (t \o <<x>>)
    BY AppendIsConcat
  <1>3. Append(s \o t, x) = (s \o t) \o <<x>>
    BY <1>1, AppendIsConcat
  <1> QED BY <1>1, <1>2, <1>3, ConcatAssociative

LEMMA MoveHead ==
    ASSUME NEW S, NEW s \in Seq(S), NEW t \in Seq(S), t # <<>>
    PROVE  Append(s, Head(t)) \o Tail(t) = s \o t
  <1>1. /\ Head(t) \in S /\ Tail(t) \in Seq(S) /\ <<Head(t)>> \in Seq(S)
        /\ Append(s, Head(t)) = s \o <<Head(t)>>
    BY HeadTailProperties, AppendIsConcat
  <1>2. <<Head(t)>> \o Tail(t) = t
    <2>1. /\ <<Head(t)>> \o Tail(t) \in Seq(S)
          /\ Len(<<Head(t)>> \o Tail(t)) = 1 + Len(Tail(t))
      BY <1>1, ConcatProperties
    <2>2. \A i \in 1 .. Len(t) : (<<Head(t)>> \o Tail(t))[i] = t[i]
      BY <1>1, HeadTailProperties
    <2> QED BY <2>1, <2>2, HeadTailProperties, SeqEqual
  <1>3. (s \o <<Head(t)>>) \o Tail(t) = s \o (<<Head(t)>> \o Tail(t))
    BY <1>1, ConcatAssociative
  <1> QED BY <1>1, <1>2, <1>3

LEMMA AcceptedType ==
    ASSUME DeliveryTypeOK, NEW h \in Handler
    PROVE  Accepted(h) \in Seq(Event)
  BY ConcatProperties DEF DeliveryTypeOK, Accepted

\* The step in which the event of k goes into the channel of h.
Accepts(k, h) ==
    /\ Carries(k, "notify") \/ Carries(k, "push")
    /\ task[k].to = h
    /\ Finish(k)
    /\ Accepted(h)' = Append(Accepted(h), task[k].event)
    /\ \A g \in Handler : g # h => Accepted(g)' = Accepted(g)
    /\ UNCHANGED <<vars, latest, lostAcks, fate>>

LEMMA SendAppends ==
    ASSUME DeliveryTypeOK, NEW h \in Handler, NEW e \in Event,
           Send(h, e), UNCHANGED sent
    PROVE  /\ Accepted(h)' = Append(Accepted(h), e)
           /\ \A g \in Handler : g # h => Accepted(g)' = Accepted(g)
  <1>1. channel'[h] = Append(channel[h], e)
        /\ \A g \in Handler : g # h => channel'[g] = channel[g]
    BY DEF Send, DeliveryTypeOK
  <1>2. sent[h] \o Append(channel[h], e) = Append(sent[h] \o channel[h], e)
    BY AppendToConcat DEF DeliveryTypeOK
  <1> QED BY <1>1, <1>2 DEF Accepted

LEMMA AcceptedStep ==
    ASSUME TypeOK, DeliveryTypeOK, TargetsKnown, DeliveryNext
    PROVE  \/ \E k \in Task, h \in Handler : Accepts(k, h)
           \/ \A h \in Handler : Accepted(h)' = Accepted(h)
  <1> DEFINE Same == \A h \in Handler : Accepted(h)' = Accepted(h)
  <1>1. ASSUME UNCHANGED <<channel, sent>> PROVE Same
    BY <1>1 DEF Accepted
  <1>2. CASE OthersStep
    <2>1. ASSUME NEW h \in Handler, SendToClient(h) PROVE Same
      <3>1. /\ channel[h] # <<>>
            /\ sent' = [sent EXCEPT ![h] = Append(sent[h], Head(channel[h]))]
            /\ channel' = [channel EXCEPT ![h] = Tail(channel[h])]
        BY <2>1 DEF SendToClient
      <3>2. Append(sent[h], Head(channel[h])) \o Tail(channel[h]) = sent[h] \o channel[h]
        <4>1. sent[h] \in Seq(Event) /\ channel[h] \in Seq(Event)
          BY DEF DeliveryTypeOK
        <4> QED BY <3>1, <4>1, MoveHead
      <3>3. \A g \in Handler : g # h => sent'[g] = sent[g] /\ channel'[g] = channel[g]
        BY <3>1 DEF DeliveryTypeOK
      <3>4. /\ sent'[h] = Append(sent[h], Head(channel[h]))
            /\ channel'[h] = Tail(channel[h])
        BY <3>1 DEF DeliveryTypeOK
      <3> QED BY <3>2, <3>3, <3>4 DEF Accepted
    <2>2. \/ \E h \in Handler : SendToClient(h)
          \/ UNCHANGED <<channel, sent>>
      BY <1>2 DEF OthersStep, SeeDrained, Alone, Leave, EndEarly, EnterAlone,
             WaitToReplace, Replace, Stop, TimePasses, delivery, history
    <2> QED BY <1>1, <2>1, <2>2
  <1>3. ASSUME NEW k \in Task, TaskStep(k) 
        PROVE  Same \/ \E h \in Handler : Accepts(k, h)
    <2>1. CASE Roaming(k)
      BY <1>1, <2>1, RoamingStep
    <2>2. CASE TimeOut(k) \/ CloseTimedOut(k)
      BY <1>1, <2>2 DEF TimeOut, CloseTimedOut, history
    <2>3. ASSUME Carries(k, "notify") \/ Carries(k, "push"), Finish(k),
                 Send(task[k].to, task[k].event), UNCHANGED <<vars, latest, history>>
          PROVE  \E h \in Handler : Accepts(k, h)
      <3>1. task[k] \in Carrying /\ task[k].to \in Handler
        BY <2>3 DEF Carries, TargetsKnown, DeliveryTypeOK
      <3>2. task[k].event \in Event
        BY <3>1, TaskFields
      <3>3. PICK h \in Handler : h = task[k].to
        BY <3>1
      <3>4. Send(h, task[k].event) /\ UNCHANGED <<sent, vars, latest, lostAcks, fate>>
        BY <2>3, <3>3 DEF history
      <3> QED BY <2>3, <3>2, <3>3, <3>4, SendAppends DEF Accepts
    <2>4. CASE LockToNotify(k)
      BY <1>1, <2>3, <2>4 DEF LockToNotify, history
    <2>5. CASE Push(k)
      BY <2>3, <2>5 DEF Push
    <2> QED BY <1>3, <2>1, <2>2, <2>4, <2>5, TaskStepIsEither
  <1> QED BY <1>2, <1>3, ProgressIsEither DEF DeliveryNext

-----------------------------------------------------------------------------
(* Counts of votes *)

\* The detector let an update through that is not in the channel yet.
Pending(k, h) ==
    /\ Carries(k, "notify") \/ Carries(k, "push")
    /\ task[k].to = h
    /\ Votes[task[k].event] # None

\* No update counts more votes than the detector has let through, and the
\* updates that are pending or accepted all count different numbers.
VotesLetThrough(h) ==
    LET Count(i) == Votes[Accepted(h)[i]]
    IN  /\ \A i \in DOMAIN Accepted(h) : Count(i) # None => Count(i) <= latest[h]
        /\ \A i, j \in DOMAIN Accepted(h) :
              i # j /\ Count(i) # None => Count(i) # Count(j)
        /\ \A k \in Task : Pending(k, h) =>
              /\ Votes[task[k].event] <= latest[h]
              /\ \A i \in DOMAIN Accepted(h) : Count(i) # Votes[task[k].event]
        /\ \A j, k \in Task : j # k /\ Pending(j, h) /\ Pending(k, h) =>
              Votes[task[j].event] # Votes[task[k].event]

LEMMA PendingStep ==
    ASSUME TypeOK, DeliveryTypeOK, TargetsKnown, DeliveryNext,
           \A k \in Task : ~SelectEvent(k),
           NEW j \in Task, NEW h \in Handler, Pending(j, h)'
    PROVE  Pending(j, h) /\ task'[j] # None /\ task'[j].event = task[j].event
  <1> DEFINE Goal == Pending(j, h) /\ task'[j] # None
                     /\ task'[j].event = task[j].event
  <1>0. /\ task'[j] # None /\ task'[j].step \in {"notify", "push"}
        /\ task'[j].to = h /\ Votes[task'[j].event] # None
    BY DEF Pending, Carries
  <1>1. ASSUME task'[j] = task[j] PROVE Goal
    BY <1>0, <1>1 DEF Pending, Carries
  <1>2. CASE OthersStep
    <2>1. \/ UNCHANGED task
          \/ \E s \in Server : Stop(s)
      BY <1>2 DEF OthersStep, SendToClient, SeeDrained, Alone, Leave, EndEarly,
             EnterAlone, WaitToReplace, Replace, TimePasses, delivery
    <2>2. ASSUME NEW s \in Server, Stop(s) PROVE task'[j] = task[j]
      BY <1>0, <2>2 DEF Stop
    <2> QED BY <1>1, <2>1, <2>2
  <1>3. ASSUME NEW k \in Task, TaskStep(k) PROVE Goal
    <2>1. CASE Roaming(k)
      <3>1. ~Carries(k, "notify")' /\ ~Carries(k, "push")' /\ OthersStay(k)
        BY <2>1, RoamingStep DEF Carries, StepsTo
      <3>2. j # k
        BY <1>0, <3>1 DEF Carries
      <3> QED BY <1>0, <1>1, <3>1, <3>2 DEF OthersStay
    <2>2. CASE Push(k) \/ CloseTimedOut(k)
      BY <1>0, <1>1, <2>2, Finished DEF Push, CloseTimedOut
    <2>3. CASE TimeOut(k)
      <3>1. /\ task[k] # None /\ task[k].to \in Handler
            /\ MoveTo(k, "close", task[k].to)
        BY <2>3 DEF TimeOut, Carries, TargetsKnown
      <3> QED BY <1>0, <1>1, <3>1, MoveFields
    <2>4. CASE LockToNotify(k)
      <3>1. /\ task[k] # None /\ task[k].step = "notify" /\ task[k].to \in Handler
            /\ Finish(k) \/ MoveTo(k, "push", task[k].to)
        BY <2>4 DEF LockToNotify, Carries, TargetsKnown
      <3>2. CASE j = k
        <4>1. task'[k].event = task[k].event /\ task'[k].to = task[k].to
          BY <1>0, <3>1, <3>2, Finished, MoveFields
        <4> QED BY <1>0, <3>1, <3>2, <4>1 DEF Pending, Carries
      <3>3. CASE j # k
        BY <1>1, <3>1, <3>3, Finished, MoveFields
      <3> QED BY <3>2, <3>3
    <2> QED BY <1>3, <2>1, <2>2, <2>3, <2>4, TaskStepIsEither
  <1> QED BY <1>2, <1>3, ProgressIsEither DEF DeliveryNext

LEMMA VotesType == ASSUME NEW e \in Event PROVE Votes[e] \in Nat \cup {None}
  BY DeliveryAssumption

LEMMA PendingVotes ==
    ASSUME DeliveryTypeOK, NEW k \in Task, NEW h \in Handler, Pending(k, h)
    PROVE  task[k].event \in Event /\ Votes[task[k].event] \in Nat
  <1>1. task[k].event \in Event
    BY TaskFields DEF Pending, Carries, DeliveryTypeOK
  <1> QED BY <1>1, VotesType DEF Pending

\* The detector lets an update through: it counts more than all before it.
LEMMA SelectKeepsVotes ==
    ASSUME DeliveryTypeOK, TargetsKnown, NEW h \in Handler, VotesLetThrough(h),
           NEW k \in Task, SelectEvent(k)
    PROVE  VotesLetThrough(h)'
  <1> DEFINE e == task[k].event
  <1>1. PICK g \in Handler : g = task[k].to
    BY DEF SelectEvent, Carries, TargetsKnown
  <1>2. /\ task[k] # None /\ task[k].step = "select"
        /\ UNCHANGED <<channel, sent>>
    BY DEF SelectEvent, Carries, history
  <1>3. e \in Event /\ Votes[e] \in Nat \cup {None}
    BY <1>2, TaskFields, VotesType DEF DeliveryTypeOK
  <1>4. Accepted(h)' = Accepted(h)
    BY <1>2 DEF Accepted
  <1>5. PICK A \in Seq(Event) : A = Accepted(h) /\ A = Accepted(h)'
    BY <1>4, AcceptedType
  <1>6. \A i \in DOMAIN A : Votes[A[i]] \in Nat \cup {None}
    BY <1>5, VotesType, ElementOfSeq
  <1>7. latest[g] \in Nat \cup {-1} /\ latest[h] \in Nat \cup {-1}
    BY DEF DeliveryTypeOK
  <1>8. ~Pending(k, h)
    BY <1>2 DEF Pending, Carries
  <1>9. ASSUME latest'[h] = latest[h],
               \A j \in Task : Pending(j, h)' =>
                   Pending(j, h) /\ task'[j].event = task[j].event
        PROVE  VotesLetThrough(h)'
    BY <1>5, <1>9 DEF VotesLetThrough
  <1>10. CASE ShouldDrop(g, e)
    <2>1. /\ latest' = latest /\ task'[k] = None
          /\ \A j \in Task : j # k => task'[j] = task[j]
      BY <1>1, <1>10, Finished DEF SelectEvent
    <2> QED BY <1>9, <2>1 DEF Pending, Carries
  <1>11. CASE ~ShouldDrop(g, e)
    <2>1. /\ task'[k].to = g /\ task'[k].step = "notify" /\ task'[k].event = e
          /\ \A j \in Task : j # k => task'[j] = task[j]
      BY <1>1, <1>2, <1>11, MoveFields DEF SelectEvent
    <2>2. \A j \in Task : j # k /\ Pending(j, h)' =>
              Pending(j, h) /\ task'[j].event = task[j].event
      BY <2>1 DEF Pending, Carries
    <2>3. CASE Votes[e] = None
      <3>1. latest' = latest
        BY <1>1, <1>11, <2>3 DEF SelectEvent
      <3>2. ~Pending(k, h)'
        BY <2>1, <2>3 DEF Pending
      <3> QED BY <1>9, <2>2, <3>1, <3>2
    <2>4. CASE Votes[e] # None
      <3>1. latest' = [latest EXCEPT ![g] = Votes[e]]
        BY <1>1, <1>11, <2>4 DEF SelectEvent
      <3>2. CASE h # g
        <4>1. latest'[h] = latest[h] /\ ~Pending(k, h)'
          BY <2>1, <3>1, <3>2 DEF Pending, DeliveryTypeOK
        <4> QED BY <1>9, <2>2, <4>1
      <3>3. CASE h = g
        <4>1. /\ Votes[e] \in Nat /\ latest[h] < Votes[e] /\ latest'[h] = Votes[e]
          BY <1>3, <1>7, <1>11, <2>4, <3>1, <3>3 DEF ShouldDrop, DeliveryTypeOK
        <4>2. \A i \in DOMAIN A : Votes[A[i]] # None => Votes[A[i]] < Votes[e]
          BY <1>5, <1>6, <1>7, <4>1, DeliveryAssumption DEF VotesLetThrough
        <4>3. \A j \in Task : Pending(j, h) => /\ Votes[task[j].event] \in Nat
                                              /\ Votes[task[j].event] < Votes[e]
          BY <1>7, <4>1, PendingVotes DEF VotesLetThrough
        <4>4. \A j \in Task : Pending(j, h)' =>
                 /\ Votes[task'[j].event] <= Votes[e]
                 /\ \A i \in DOMAIN A : Votes[A[i]] # Votes[task'[j].event]
          <5> SUFFICES ASSUME NEW j \in Task, Pending(j, h)'
                       PROVE  /\ Votes[task'[j].event] <= Votes[e]
                              /\ \A i \in DOMAIN A : Votes[A[i]] # Votes[task'[j].event]
            OBVIOUS
          <5>1. CASE j = k
            BY <1>6, <2>1, <2>4, <4>1, <4>2, <5>1
          <5>2. CASE j # k
            BY <1>5, <2>2, <4>1, <4>3, <5>2 DEF VotesLetThrough
          <5> QED BY <5>1, <5>2
        <4>5. \A i, j \in Task : i # j /\ Pending(i, h)' /\ Pending(j, h)' =>
                 Votes[task'[i].event] # Votes[task'[j].event]
          <5> SUFFICES ASSUME NEW i \in Task, NEW j \in Task, i # j,
                              Pending(i, h)', Pending(j, h)'
                       PROVE  Votes[task'[i].event] # Votes[task'[j].event]
            OBVIOUS
          <5>1. CASE i = k \/ j = k
            BY <2>1, <2>2, <4>1, <4>3, <5>1
          <5>2. CASE i # k /\ j # k
            BY <2>2, <5>2 DEF VotesLetThrough
          <5> QED BY <5>1, <5>2
        <4>6. \A i \in DOMAIN A : Votes[A[i]] # None => Votes[A[i]] <= Votes[e]
          BY <1>6, <4>1, <4>2, DeliveryAssumption
        <4> QED BY <1>5, <4>1, <4>4, <4>5, <4>6 DEF VotesLetThrough
      <3> QED BY <3>2, <3>3
    <2> QED BY <2>3, <2>4
  <1> QED BY <1>10, <1>11

\* Its channel takes a pending update, which no other task carries any more.
LEMMA AcceptKeepsVotes ==
    ASSUME DeliveryTypeOK, NEW h \in Handler, VotesLetThrough(h),
           NEW k \in Task, NEW g \in Handler, Accepts(k, g)
    PROVE  VotesLetThrough(h)'
  <1> DEFINE e == task[k].event
  <1>1. /\ latest' = latest /\ task'[k] = None
        /\ \A j \in Task : j # k => task'[j] = task[j]
    BY Finished DEF Accepts
  <1>2. \A j \in Task : Pending(j, h)' =>
            j # k /\ Pending(j, h) /\ task'[j].event = task[j].event
    BY <1>1 DEF Pending, Carries
  <1>3. CASE g # h
    <2>1. Accepted(h)' = Accepted(h)
      BY <1>3 DEF Accepts
    <2> QED BY <1>1, <1>2, <2>1 DEF VotesLetThrough
  <1>4. CASE g = h
    <2>1. PICK A \in Seq(Event) : A = Accepted(h)
      BY AcceptedType
    <2>2. e \in Event
      BY TaskFields DEF Accepts, Carries, DeliveryTypeOK
    <2>3. PICK B : B = Append(A, e)
      OBVIOUS
    <2>4. /\ Accepted(h)' = B /\ DOMAIN A = 1 .. Len(A)
          /\ DOMAIN B = 1 .. Len(A) + 1 /\ Len(A) \in Nat
          /\ B[Len(A) + 1] = e /\ \A i \in DOMAIN A : B[i] = A[i]
      BY <1>4, <2>1, <2>2, <2>3, AppendProperties, LenProperties DEF Accepts
    <2>5. Votes[e] # None => Pending(k, h)
      BY <1>4 DEF Accepts, Pending
    <2>6. Votes[e] # None => /\ Votes[e] <= latest[h]
                             /\ \A i \in DOMAIN A : Votes[A[i]] # Votes[e]
      BY <2>1, <2>5 DEF VotesLetThrough
    <2>7. \A i \in DOMAIN B : Votes[B[i]] # None => Votes[B[i]] <= latest'[h]
      <3>1. \A i \in DOMAIN A : Votes[A[i]] # None => Votes[A[i]] <= latest[h]
        BY <2>1 DEF VotesLetThrough
      <3>2. \A i \in DOMAIN B : i \in DOMAIN A \/ i = Len(A) + 1
        BY <2>4
      <3> QED BY <1>1, <2>4, <2>6, <3>1, <3>2
    <2>8. \A i, j \in DOMAIN B :
              i # j /\ Votes[B[i]] # None => Votes[B[i]] # Votes[B[j]]
      <3>1. \A i, j \in DOMAIN A :
              i # j /\ Votes[A[i]] # None => Votes[A[i]] # Votes[A[j]]
        BY <2>1 DEF VotesLetThrough
      <3>2. \A i \in DOMAIN B : i \in DOMAIN A \/ i = Len(A) + 1
        BY <2>4
      <3> QED BY <2>4, <2>6, <3>1, <3>2
    <2>9. \A j \in Task : Pending(j, h)' =>
             /\ Votes[task'[j].event] <= latest'[h]
             /\ \A i \in DOMAIN B : Votes[B[i]] # Votes[task'[j].event]
      <3> SUFFICES ASSUME NEW j \in Task, Pending(j, h)'
                   PROVE  /\ Votes[task'[j].event] <= latest'[h]
                          /\ \A i \in DOMAIN B : Votes[B[i]] # Votes[task'[j].event]
        OBVIOUS
      <3>1. j # k /\ Pending(j, h) /\ task'[j].event = task[j].event
        BY <1>2
      <3>2. /\ Votes[task[j].event] <= latest[h] /\ Votes[task[j].event] # None
            /\ \A i \in DOMAIN A : Votes[A[i]] # Votes[task[j].event]
        BY <2>1, <3>1 DEF VotesLetThrough, Pending
      <3>3. Votes[e] # Votes[task[j].event]
        BY <2>5, <3>1, <3>2 DEF VotesLetThrough
      <3>4. \A i \in DOMAIN B : i \in DOMAIN A \/ i = Len(A) + 1
        BY <2>4
      <3> QED BY <1>1, <2>4, <3>1, <3>2, <3>3, <3>4
    <2>10. \A i, j \in Task : i # j /\ Pending(i, h)' /\ Pending(j, h)' =>
              Votes[task'[i].event] # Votes[task'[j].event]
      BY <1>2 DEF VotesLetThrough
    <2> QED BY <2>4, <2>7, <2>8, <2>9, <2>10 DEF VotesLetThrough
  <1> QED BY <1>3, <1>4

LEMMA VotesStep ==
    ASSUME TypeOK, DeliveryTypeOK, TargetsKnown, NEW h \in Handler,
           VotesLetThrough(h), [DeliveryNext]_allVars
    PROVE  VotesLetThrough(h)'
  <1>1. CASE UNCHANGED allVars
    <2>1. UNCHANGED <<task, latest>> /\ Accepted(h)' = Accepted(h)
      BY <1>1 DEF allVars, delivery, history, Accepted
    <2> QED BY <2>1 DEF VotesLetThrough, Pending, Carries
  <1>2. CASE DeliveryNext /\ \E k \in Task : SelectEvent(k)
    BY <1>2, SelectKeepsVotes
  <1>3. CASE DeliveryNext /\ \A k \in Task : ~SelectEvent(k)
    <2>1. CASE \E k \in Task, g \in Handler : Accepts(k, g)
      BY <2>1, AcceptKeepsVotes
    <2>2. CASE \A g \in Handler : Accepted(g)' = Accepted(g)
      <3>1. latest' = latest
        BY <1>3, ProgressIsEither, RoamingStep, TaskStepIsEither
           DEF DeliveryNext, OthersStep, SendToClient, SeeDrained, Alone, Leave,
               EndEarly, EnterAlone, WaitToReplace, Replace, Stop, TimePasses,
               delivery, LockToNotify, Push, TimeOut, CloseTimedOut
      <3>2. \A j \in Task : Pending(j, h)' =>
                Pending(j, h) /\ task'[j].event = task[j].event
        BY <1>3, PendingStep
      <3> QED BY <2>2, <3>1, <3>2 DEF VotesLetThrough
    <2> QED BY <1>3, <2>1, <2>2, AcceptedStep
  <1> QED BY <1>1, <1>2, <1>3

LetThrough == \A h \in Handler : VotesLetThrough(h)

\* No stream is sent the same count of votes twice, however many tasks carry
\* updates at once, on however many servers, and however often they retry.
THEOREM UpdatesAreSentOnce == DeliverySpec => []UpdateSentOnce
  <1>1. DeliveryInit => LetThrough
    <2> SUFFICES ASSUME DeliveryInit, NEW h \in Handler PROVE VotesLetThrough(h)
      BY DEF LetThrough
    <2>1. Accepted(h) = <<>> /\ \A k \in Task : ~Pending(k, h)
      BY ConcatEmptySeq DEF DeliveryInit, NothingSent, Accepted, Pending, Carries
    <2> QED BY <2>1 DEF VotesLetThrough
  <1>2. DeliveryInv /\ LetThrough /\ [DeliveryNext]_allVars => LetThrough'
    BY VotesStep DEF DeliveryInv, Inv, LetThrough
  <1>3. LetThrough => UpdateSentOnce
    BY DEF LetThrough, VotesLetThrough, UpdateSentOnce
  <1> QED BY <1>1, <1>2, <1>3, DeliveryInvariance, PTL DEF DeliverySpec

-----------------------------------------------------------------------------
(* The stream that is in service all the while *)

Carried(e) == \E k \in Task : task[k] # None /\ task[k].event = e

OnTheWay(k, h) ==
    \/ task[k].step \in {"lookup", "forward"}
    \/ task[k].step = "find" /\ task[k].at = home[h]
    \/ task[k].step \in {"select", "notify", "push", "close"} /\ task[k].to = h

Served(e, h) ==
    \/ \E i \in DOMAIN Accepted(h) : Accepted(h)[i] = e
    \/ Votes[e] # None /\ latest[h] >= Votes[e]

Arrives(e, h) ==
    /\ \A k \in Task : task[k] # None /\ task[k].event = e => OnTheWay(k, h)
    /\ Carried(e) \/ Served(e, h)

\* Tasks carry events that were published; the steady stream of an event is
\* the one in service, and whatever carries the event is on the way to it.
SteadyInv ==
    /\ \A k \in Task : task[k] # None =>
          fate[task[k].event] \in {"published", "failed"}
    /\ \A e \in Event : steady[e] # None => steady[e] = InService
    /\ \A e \in Event : steady[e] # None /\ fate[e] = "published" =>
          Arrives(e, steady[e])

LEMMA InServiceFields ==
    ASSUME NEW h \in Handler, InService = h
    PROVE  /\ Reachable /\ rendezvous.owner = h
           /\ ~closed[h] /\ pc[h] \in {"serve", "extend"}
  BY NamesAssumption DEF InService, Reachable

LEMMA ServedStays ==
    ASSUME TypeOK, DeliveryTypeOK, TargetsKnown, DeliveryNext,
           NEW e \in Event, NEW h \in Handler, Served(e, h)
    PROVE  Served(e, h)'
  <1>1. ASSUME NEW i \in DOMAIN Accepted(h), Accepted(h)[i] = e
        PROVE  \E j \in DOMAIN Accepted(h)' : Accepted(h)'[j] = e
    <2>1. CASE Accepted(h)' = Accepted(h)
      BY <1>1, <2>1
    <2>2. ASSUME NEW x \in Event, Accepted(h)' = Append(Accepted(h), x)
          PROVE  \E j \in DOMAIN Accepted(h)' : Accepted(h)'[j] = e
      <3>1. PICK A \in Seq(Event) : A = Accepted(h)
        BY AcceptedType
      <3>2. PICK B : B = Append(A, x)
        OBVIOUS
      <3>3. /\ DOMAIN A = 1 .. Len(A) /\ Len(A) \in Nat
            /\ DOMAIN B = 1 .. Len(A) + 1 /\ \A j \in DOMAIN A : B[j] = A[j]
        BY <3>2, AppendProperties, LenProperties
      <3> QED BY <1>1, <2>2, <3>1, <3>2, <3>3
    <2>3. ASSUME NEW k \in Task, NEW g \in Handler, Accepts(k, g)
          PROVE  task[k].event \in Event
      BY <2>3, TaskFields DEF Accepts, Carries, DeliveryTypeOK
    <2> QED BY <2>1, <2>2, <2>3, AcceptedStep DEF Accepts
  <1>2. latest[h] \in Nat \cup {-1} /\ Votes[e] \in Nat \cup {None}
    BY VotesType DEF DeliveryTypeOK
  <1>3. latest'[h] = latest[h]
        \/ (latest'[h] \in Nat /\ latest'[h] >= latest[h])
    <2>1. ASSUME NEW k \in Task, SelectEvent(k)
          PROVE  latest'[h] = latest[h]
                 \/ (latest'[h] \in Nat /\ latest'[h] >= latest[h])
      <3>1. task[k].to \in Handler /\ task[k].event \in Event
        BY <2>1, TaskFields DEF SelectEvent, Carries, TargetsKnown, DeliveryTypeOK
      <3>2. Votes[task[k].event] \in Nat \cup {None}
        BY <3>1, VotesType
      <3> QED BY <1>2, <2>1, <3>1, <3>2 DEF SelectEvent, ShouldDrop, DeliveryTypeOK
    <2>2. CASE \A k \in Task : ~SelectEvent(k)
      BY <2>2, ProgressIsEither, RoamingStep, TaskStepIsEither
         DEF DeliveryNext, OthersStep, SendToClient, SeeDrained, Alone, Leave,
             EndEarly, EnterAlone, WaitToReplace, Replace, Stop, TimePasses,
             delivery, LockToNotify, Push, TimeOut, CloseTimedOut
    <2> QED BY <2>1, <2>2
  <1>4. Votes[e] # None /\ latest[h] >= Votes[e] => latest'[h] >= Votes[e]
    BY <1>2, <1>3
  <1> QED BY <1>1, <1>4 DEF Served

\* A step of k keeps its event, which a task that it starts carries as well.
LEMMA EventsKept ==
    ASSUME TypeOK, DeliveryTypeOK, TargetsKnown, NEW k \in Task, task[k] # None,
           TaskStep(k)
    PROVE  /\ task'[k] # None => task'[k].event = task[k].event
           /\ \A j \in Task : j # k =>
                 \/ task'[j] = task[j]
                 \/ /\ task[j] = None /\ task'[j] # None
                    /\ task'[j].step = "lookup" /\ task'[j].event = task[k].event
  <1> DEFINE Goal ==
          /\ task'[k] # None => task'[k].event = task[k].event
          /\ \A j \in Task : j # k =>
                \/ task'[j] = task[j]
                \/ /\ task[j] = None /\ task'[j] # None
                   /\ task'[j].step = "lookup" /\ task'[j].event = task[k].event
  <1>1. ASSUME Finish(k) PROVE Goal
    BY <1>1, Finished
  <1>2. ASSUME AgainOrGiveUp(k) PROVE Goal
    BY <1>2, TriedAgain
  <1>3. ASSUME NEW j \in Task, Deliver(k, j) PROVE Goal
    BY <1>3, Delivered
  <1>4. ASSUME MoveTo(k, "find", None) PROVE Goal
    BY <1>4, MoveFields
  <1>5. ASSUME NEW s \in Server, MoveTo(k, "forward", s) PROVE Goal
    BY <1>5, MoveFields
  <1>6. ASSUME NEW step \in {"select", "notify", "push", "close"},
               NEW h \in Handler, MoveTo(k, step, h)
        PROVE  Goal
    BY <1>6, MoveFields
  <1>7. Reachable => rendezvous.address \in Server
    BY RecordFields DEF Reachable
  <1>8. CASE LookUp(k)
    BY <1>1, <1>4, <1>5, <1>7, <1>8 DEF LookUp
  <1>9. CASE FindStream(k)
    <2>1. task[k].at \in Server
      BY <1>9 DEF FindStream, Carries, TargetsKnown
    <2>2. streams[task[k].at] \in Handler \cup {None}
      BY <2>1 DEF TypeOK
    <2> QED BY <1>1, <1>6, <1>9, <2>2 DEF FindStream
  <1>10. CASE SelectEvent(k) \/ LockToNotify(k) \/ TimeOut(k)
    <2>1. task[k].to \in Handler
      BY <1>10 DEF SelectEvent, LockToNotify, TimeOut, Carries, TargetsKnown
    <2> QED BY <1>1, <1>6, <1>10, <2>1 DEF SelectEvent, LockToNotify, TimeOut
  <1>11. ASSUME NEW f \in Event, NEW place \in Place PROVE ~Publish(k, f, place)
    BY DEF Publish
  <1> QED BY <1>1, <1>2, <1>3, <1>8, <1>9, <1>10, <1>11
          DEF TaskStep, TaskWork, LookUpFails, ForwardFails, Push, CloseTimedOut

\* A task that carries e brings it to the stream in service, gives it up, or
\* leaves it to another task.
LEMMA CarrierStep ==
    ASSUME DeliveryInv, DeliveryNext, NEW k \in Task, TaskStep(k), task[k] # None,
           NEW e \in Event, task[k].event = e, fate'[e] = "published",
           NEW h \in Handler, InService = h, InService' = h, home'[h] = home[h],
           OnTheWay(k, h)
    PROVE  /\ task'[k] # None => OnTheWay(k, h)'
           /\ Carried(e)' \/ Served(e, h)'
  <1> DEFINE Goal == /\ task'[k] # None => OnTheWay(k, h)'
                     /\ Carried(e)' \/ Served(e, h)'
  <1>0. /\ TypeOK /\ DeliveryTypeOK /\ TargetsKnown
        /\ OpenIsRegistered /\ OwnerWroteRecord /\ HasHome
        /\ Reachable /\ rendezvous.owner = h
        /\ ~closed[h] /\ pc[h] \in {"serve", "extend"}
    BY InServiceFields DEF DeliveryInv, Inv
  <1>1. home[h] \in Server /\ rendezvous.address = home[h] /\ streams[home[h]] = h
    BY <1>0 DEF Reachable, OpenIsRegistered, OwnerWroteRecord, HasHome, Running, Inside
  <1>2. task'[k] # None => task'[k].event = e
    BY <1>0, EventsKept
  <1>3. ASSUME task'[k] # None, OnTheWay(k, h)' PROVE Goal
    BY <1>2, <1>3 DEF Carried
  <1>4. CASE LookUp(k)
    <2>1. \/ MoveTo(k, "find", None) /\ task[k].at = home[h]
          \/ MoveTo(k, "forward", home[h])
      BY <1>0, <1>1, <1>4 DEF LookUp
    <2> QED BY <1>0, <1>1, <1>3, <2>1, MoveFields DEF OnTheWay
  <1>5. CASE LookUpFails(k) \/ ForwardFails(k)
    <2>1. AgainOrGiveUp(k)
      BY <1>5 DEF LookUpFails, ForwardFails
    <2>2. fate' = [fate EXCEPT ![e] = IF task'[k] # None THEN @ ELSE "failed"]
      BY <1>0, <2>1, TriedAgain
    <2>3. task'[k] # None
      BY <1>0, <2>2 DEF DeliveryTypeOK
    <2> QED BY <1>0, <1>3, <2>1, <2>3, TriedAgain DEF OnTheWay
  <1>6. CASE FindStream(k)
    <2>1. task[k].at = home[h]
      BY <1>6 DEF FindStream, Carries, OnTheWay
    <2>2. MoveTo(k, "select", h)
      BY <1>1, <1>6, <2>1, NamesAssumption DEF FindStream
    <2> QED BY <1>0, <1>3, <2>2, MoveFields DEF OnTheWay
  <1>7. CASE SelectEvent(k)
    <2>1. task[k].to = h
      BY <1>7 DEF SelectEvent, Carries, OnTheWay
    <2>2. CASE ShouldDrop(h, e)
      <3>1. Votes[e] # None /\ latest'[h] >= Votes[e] /\ task'[k] = None
        BY <1>0, <1>7, <2>1, <2>2, Finished DEF SelectEvent, ShouldDrop
      <3> QED BY <3>1 DEF Served
    <2>3. CASE MoveTo(k, "notify", h)
      BY <1>0, <1>3, <2>3, MoveFields DEF OnTheWay
    <2> QED BY <1>7, <2>1, <2>2, <2>3 DEF SelectEvent
  <1>8. ASSUME Send(h, e), UNCHANGED sent, Finish(k) PROVE Goal
    <2>1. PICK A \in Seq(Event) : A = Accepted(h)
      BY <1>0, AcceptedType
    <2>2. PICK B : B = Append(A, e)
      OBVIOUS
    <2>3. Accepted(h)' = B /\ Len(A) + 1 \in DOMAIN B /\ B[Len(A) + 1] = e
      BY <1>0, <1>8, <2>1, <2>2, SendAppends, AppendProperties, LenProperties
    <2> QED BY <1>0, <1>8, <2>3, Finished DEF Served
  <1>9. CASE LockToNotify(k)
    <2>1. task[k].to = h
      BY <1>9 DEF LockToNotify, Carries, OnTheWay
    <2>2. \/ Send(h, e) /\ Finish(k) /\ UNCHANGED sent
          \/ MoveTo(k, "push", h)
      BY <1>0, <1>9, <2>1 DEF LockToNotify, history
    <2> QED BY <1>0, <1>3, <1>8, <2>2, MoveFields DEF OnTheWay
  <1>10. CASE Push(k)
    <2>1. task[k].to = h
      BY <1>10 DEF Push, Carries, OnTheWay
    <2> QED BY <1>8, <1>10, <2>1 DEF Push, history
  <1>11. CASE TimeOut(k)
    <2>1. task[k].to = h
      BY <1>11 DEF TimeOut, Carries, OnTheWay
    <2> QED BY <1>0, <1>3, <1>11, <2>1, MoveFields DEF OnTheWay, TimeOut
  <1>12. ~CloseTimedOut(k)
    <2> SUFFICES ASSUME CloseTimedOut(k) PROVE FALSE
      OBVIOUS
    <2>1. task[k].to = h
      BY DEF CloseTimedOut, Carries, OnTheWay
    <2>2. closed' = [closed EXCEPT ![h] = TRUE] /\ rendezvous' = rendezvous
      BY <1>0, <2>1 DEF CloseTimedOut, Closes, NotifyTimesOut
    <2>3. closed'[h]
      BY <1>0, <2>2 DEF TypeOK
    <2> QED BY <1>0, <2>2, <2>3, NamesAssumption DEF InService
  <1>13. ASSUME NEW j \in Task, Deliver(k, j) PROVE Goal
    BY <1>0, <1>13, Delivered DEF Carried, OnTheWay
  <1>14. ASSUME NEW f \in Event, NEW place \in Place PROVE ~Publish(k, f, place)
    BY DEF Publish
  <1> QED BY <1>4, <1>5, <1>6, <1>7, <1>9, <1>10, <1>11, <1>12, <1>13, <1>14
          DEF TaskStep, TaskWork

\* While a stream is in service, what is on the way to it stays so or arrives.
LEMMA ArrivesStep ==
    ASSUME DeliveryInv, DeliveryNext, NEW e \in Event, NEW h \in Handler,
           InService = h, InService' = h, fate[e] = "published",
           fate'[e] = "published", Arrives(e, h)
    PROVE  Arrives(e, h)'
  <1>0. TypeOK /\ DeliveryTypeOK /\ TargetsKnown
    BY DEF DeliveryInv, Inv
  <1>1. home'[h] = home[h]
    <2>1. pc[h] # "idle"
      BY InServiceFields
    <2>2. Next \/ UNCHANGED vars
      BY <1>0, StreamsStep
    <2> QED BY <1>0, <2>1, <2>2
            DEF Next, Work, Refuse, Enter, CreateRendezvous, StartRefresh,
                ExtendRendezvousExpiry, Unregister, DeleteRendezvous, SeeClosed,
                LoseClient, NotifyTimesOut, Register, Crash, Tick, TypeOK, vars
  <1>2. Served(e, h) => Served(e, h)'
    BY <1>0, ServedStays
  <1>3. ASSUME NEW j \in Task, task'[j] = task[j], task[j] # None, task[j].event = e
        PROVE  OnTheWay(j, h)' /\ Carried(e)'
    BY <1>1, <1>3 DEF Arrives, OnTheWay, Carried
  <1>4. CASE OthersStep
    <2>1. ASSUME NEW j \in Task, task[j] # None, task[j].event = e
          PROVE  task'[j] = task[j]
      <3>1. \/ UNCHANGED task
            \/ \E s \in Server : Stop(s)
        BY <1>4 DEF OthersStep, SendToClient, SeeDrained, Alone, Leave, EndEarly,
               EnterAlone, WaitToReplace, Replace, TimePasses, delivery
      <3>2. ASSUME NEW s \in Server, Stop(s) PROVE task'[j] = task[j]
        <4>1. j \notin Killed(s)
          BY <2>1, <3>2 DEF Stop
        <4> QED BY <3>2, <4>1 DEF Stop
      <3> QED BY <3>1, <3>2
    <2>2. \A j \in Task : task'[j] # None => task'[j] = task[j]
      BY <1>4 DEF OthersStep, SendToClient, SeeDrained, Alone, Leave, EndEarly,
             EnterAlone, WaitToReplace, Replace, Stop, TimePasses, delivery
    <2> QED BY <1>2, <1>3, <2>1, <2>2 DEF Arrives, Carried
  <1>5. ASSUME NEW k \in Task, TaskStep(k), task[k] = None PROVE Arrives(e, h)'
    <2>1. PICK f \in Event, place \in Place : Publish(k, f, place)
      BY <1>5 DEF TaskStep, TaskWork, LookUp, LookUpFails, ForwardFails, FindStream,
             SelectEvent, LockToNotify, Push, TimeOut, CloseTimedOut, Deliver, Carries
    <2>2. f # e /\ Carry(f, place).event = f
      BY <2>1, CarryFields DEF Publish
    <2>3. /\ task'[k].event # e
          /\ \A j \in Task : j # k => task'[j] = task[j]
      BY <1>0, <2>1, <2>2 DEF Publish, DeliveryTypeOK
    <2> QED BY <1>2, <1>3, <1>5, <2>3 DEF Arrives, Carried
  <1>6. ASSUME NEW k \in Task, TaskStep(k), task[k] # None, task[k].event # e
        PROVE  Arrives(e, h)'
    <2>1. /\ task'[k] # None => task'[k].event # e
          /\ \A j \in Task : j # k =>
                task'[j] = task[j] \/ (task[j] = None /\ task'[j].event # e)
      BY <1>0, <1>6, EventsKept
    <2> QED BY <1>2, <1>3, <1>6, <2>1 DEF Arrives, Carried
  <1>7. ASSUME NEW k \in Task, TaskStep(k), task[k] # None, task[k].event = e
        PROVE  Arrives(e, h)'
    <2>1. OnTheWay(k, h)
      BY <1>7 DEF Arrives
    <2>2. /\ task'[k] # None => OnTheWay(k, h)'
          /\ Carried(e)' \/ Served(e, h)'
      BY <1>1, <1>7, <2>1, CarrierStep
    <2>3. ASSUME NEW j \in Task, j # k, task'[j] # None, task'[j].event = e
          PROVE  OnTheWay(j, h)'
      <3>1. CASE task'[j] = task[j]
        BY <1>3, <2>3, <3>1
      <3>2. CASE task'[j].step = "lookup"
        BY <3>2 DEF OnTheWay
      <3> QED BY <1>0, <1>7, <2>3, <3>1, <3>2, EventsKept
    <2> QED BY <2>2, <2>3 DEF Arrives
  <1> QED BY <1>4, <1>5, <1>6, <1>7, ProgressIsEither DEF DeliveryNext

\* An event is published once, by the step that starts its first task.
LEMMA FateStep ==
    ASSUME TypeOK, DeliveryTypeOK, TargetsKnown, DeliveryNext, NEW e \in Event
    PROVE  /\ fate[e] \in {"published", "failed"} =>
                 fate'[e] \in {"published", "failed"}
           /\ fate'[e] = "published" =>
                 \/ fate[e] = "published"
                 \/ \E k \in Task, place \in Place : Publish(k, e, place)
  <1> DEFINE Goal == /\ fate[e] \in {"published", "failed"} =>
                            fate'[e] \in {"published", "failed"}
                     /\ fate'[e] = "published" =>
                           \/ fate[e] = "published"
                           \/ \E k \in Task, place \in Place : Publish(k, e, place)
  <1>1. ASSUME fate'[e] = fate[e] \/ fate'[e] = "failed" PROVE Goal
    BY <1>1
  <1>2. CASE OthersStep
    BY <1>1, <1>2 DEF OthersStep, SendToClient, SeeDrained, Alone, Leave, EndEarly,
           EnterAlone, WaitToReplace, Replace, Stop, TimePasses, delivery, history
  <1>3. ASSUME NEW k \in Task, TaskStep(k) PROVE Goal
    <2>1. ASSUME AgainOrGiveUp(k) PROVE Goal
      BY <1>1, <2>1 DEF AgainOrGiveUp, DeliveryTypeOK
    <2>2. ASSUME NEW f \in Event, NEW place \in Place, Publish(k, f, place)
          PROVE  Goal
      BY <2>2 DEF Publish, DeliveryTypeOK
    <2>3. ASSUME UNCHANGED fate PROVE Goal
      BY <1>1, <2>3
    <2>4. \/ AgainOrGiveUp(k) \/ UNCHANGED fate
          \/ \E f \in Event, place \in Place : Publish(k, f, place)
      BY <1>3 DEF TaskStep, TaskWork, LookUp, LookUpFails, ForwardFails, FindStream,
             SelectEvent, LockToNotify, Push, TimeOut, CloseTimedOut, Deliver, history
    <2> QED BY <2>1, <2>2, <2>3, <2>4
  <1> QED BY <1>2, <1>3, ProgressIsEither DEF DeliveryNext

\* Whatever a task carries after a step was carried before it or is published.
LEMMA CarriedStep ==
    ASSUME TypeOK, DeliveryTypeOK, TargetsKnown, DeliveryNext,
           NEW k \in Task, task'[k] # None
    PROVE  \/ \E j \in Task : task[j] # None /\ task'[k].event = task[j].event
           \/ \E f \in Event, place \in Place :
                  Publish(k, f, place) /\ task'[k].event = f
  <1> DEFINE Goal ==
          \/ \E j \in Task : task[j] # None /\ task'[k].event = task[j].event
          \/ \E f \in Event, place \in Place :
                 Publish(k, f, place) /\ task'[k].event = f
  <1>1. CASE OthersStep
    <2>1. task'[k] = task[k]
      BY <1>1 DEF OthersStep, SendToClient, SeeDrained, Alone, Leave, EndEarly,
             EnterAlone, WaitToReplace, Replace, Stop, TimePasses, delivery
    <2> QED BY <2>1
  <1>2. ASSUME NEW j \in Task, TaskStep(j), task[j] # None PROVE Goal
    BY <1>2, EventsKept
  <1>3. ASSUME NEW j \in Task, TaskStep(j), task[j] = None PROVE Goal
    <2>1. PICK f \in Event, place \in Place : Publish(j, f, place)
      BY <1>3 DEF TaskStep, TaskWork, LookUp, LookUpFails, ForwardFails, FindStream,
             SelectEvent, LockToNotify, Push, TimeOut, CloseTimedOut, Deliver, Carries
    <2>2. Carry(f, place).event = f
      BY CarryFields
    <2>3. /\ task'[j].event = f
          /\ \A i \in Task : i # j => task'[i] = task[i]
      BY <2>1, <2>2 DEF Publish, DeliveryTypeOK
    <2> QED BY <2>1, <2>3
  <1> QED BY <1>1, <1>2, <1>3, ProgressIsEither DEF DeliveryNext

LEMMA SteadyStep ==
    ASSUME DeliveryInv, SteadyInv, [DeliveryNext]_allVars
    PROVE  SteadyInv'
  <1>0. TypeOK /\ DeliveryTypeOK /\ TargetsKnown
    BY DEF DeliveryInv, Inv
  <1>1. CASE UNCHANGED allVars
    <2>1. UNCHANGED <<rendezvous, now, closed, pc, home, task, latest, fate, steady>>
          /\ \A h \in Handler : Accepted(h)' = Accepted(h)
      BY <1>1 DEF allVars, vars, delivery, history, registry, Accepted
    <2>2. InService' = InService
      BY <2>1 DEF InService
    <2>3. ASSUME NEW e \in Event, NEW h \in Handler, Arrives(e, h)
          PROVE  Arrives(e, h)'
      BY <2>1, <2>3 DEF Arrives, Carried, Served, OnTheWay
    <2>4. \A e \in Event : steady[e] \in Handler \cup {None}
      BY <1>0 DEF DeliveryTypeOK
    <2> QED BY <2>1, <2>2, <2>3, <2>4 DEF SteadyInv
  <1>2. CASE DeliveryNext
    <2>1. ASSUME NEW k \in Task, task'[k] # None
          PROVE  fate'[task'[k].event] \in {"published", "failed"}
      <3>1. ASSUME NEW j \in Task, task[j] # None, task'[k].event = task[j].event
            PROVE  fate'[task'[k].event] \in {"published", "failed"}
        <4>1. task[j].event \in Event
          BY <1>0, <3>1, TaskFields DEF DeliveryTypeOK
        <4> QED BY <1>0, <1>2, <3>1, <4>1, FateStep DEF SteadyInv
      <3>2. ASSUME NEW f \in Event, NEW place \in Place, Publish(k, f, place)
            PROVE  fate'[f] \in {"published", "failed"}
        BY <1>0, <3>2 DEF Publish, DeliveryTypeOK
      <3> QED BY <1>0, <1>2, <2>1, <3>1, <3>2, CarriedStep
    <2>2. ASSUME NEW e \in Event, steady'[e] # None
          PROVE  /\ steady'[e] = InService'
                 /\ \/ fate[e] = "unpublished"
                    \/ fate'[e] = "published" /\ steady[e] = steady'[e]
      BY <1>2, <2>2 DEF DeliveryNext, Observe
    <2>3. ASSUME NEW e \in Event, steady'[e] # None, fate'[e] = "published",
                 NEW h \in Handler, steady'[e] = h
          PROVE  Arrives(e, h)'
      <3>1. CASE fate[e] = "published"
        <4>1. InService' = h /\ steady[e] = h /\ InService = h
          BY <2>2, <2>3, <3>1 DEF SteadyInv
        <4>2. Arrives(e, h)
          BY <2>3, <3>1, <4>1 DEF SteadyInv
        <4> QED BY <1>2, <2>3, <3>1, <4>1, <4>2, ArrivesStep
      <3>2. CASE fate[e] # "published"
        <4>1. PICK k \in Task, place \in Place : Publish(k, e, place)
          BY <1>0, <1>2, <2>3, <3>2, FateStep
        <4>2. /\ Carry(e, place) \in Carrying /\ Carry(e, place) # None
              /\ Carry(e, place).event = e /\ Carry(e, place).step = "lookup"
          BY CarryFields, TaskFields
        <4>3. /\ task'[k] # None /\ task'[k].event = e /\ task'[k].step = "lookup"
              /\ \A j \in Task : j # k => task'[j] = task[j]
          BY <1>0, <4>1, <4>2 DEF Publish, DeliveryTypeOK
        <4>4. \A j \in Task : task[j] # None => task[j].event # e
          BY <4>1 DEF Publish, SteadyInv
        <4> QED BY <4>3, <4>4 DEF Arrives, Carried, OnTheWay
      <3> QED BY <3>1, <3>2
    <2>4. \A e \in Event : steady'[e] \in Handler \cup {None}
      BY DeliveryStep DEF DeliveryInv, DeliveryTypeOK
    <2> QED BY <2>1, <2>2, <2>3, <2>4 DEF SteadyInv
  <1> QED BY <1>1, <1>2

\* An event whose tasks ran to their end without giving up is in the stream that
\* served the user all the while, wherever it was published and however many
\* streams, retries and refreshes there were besides.
THEOREM SteadyStreamsAreServed == DeliverySpec => []SteadyStreamIsServed
  <1>1. DeliveryInit => SteadyInv
    BY DEF DeliveryInit, SteadyInv
  <1>2. DeliveryInv /\ SteadyInv /\ [DeliveryNext]_allVars => SteadyInv'
    BY SteadyStep
  <1>3. SteadyInv => SteadyStreamIsServed
    BY DEF SteadyInv, SteadyStreamIsServed, Arrives, Carried, Served
  <1> QED BY <1>1, <1>2, <1>3, DeliveryInvariance, PTL DEF DeliverySpec

-----------------------------------------------------------------------------
(* Copies of an event *)

Carriers(e) == {k \in Task : task[k] # None /\ task[k].event = e}

\* Every task may leave one copy more, and only a lost reply leaves two tasks
\* where there was one.
CopiesInv ==
    \A e \in Event :
        /\ IsFiniteSet(Copies(e)) /\ IsFiniteSet(Carriers(e))
        /\ fate[e] \in {"never", "unpublished"} => Copies(e) = {} /\ Carriers(e) = {}
        /\ Cardinality(Copies(e)) + Cardinality(Carriers(e)) <= 1 + lostAcks[e]

LEMMA SameCopies ==
    ASSUME \A h \in Handler : Accepted(h)' = Accepted(h), NEW e
    PROVE  Copies(e)' = Copies(e)
  BY DEF Copies

\* One copy more of the event that a channel takes, and none of the others.
LEMMA AcceptCopies ==
    ASSUME DeliveryTypeOK, NEW k \in Task, NEW h \in Handler, Accepts(k, h),
           NEW e \in Event
    PROVE  IF task[k].event = e
           THEN \E p : Copies(e)' = Copies(e) \cup {p}
           ELSE Copies(e)' = Copies(e)
  <1>1. PICK A \in Seq(Event) : A = Accepted(h)
    BY AcceptedType
  <1>2. task[k].event \in Event
    BY TaskFields DEF Accepts, Carries, DeliveryTypeOK
  <1>3. PICK B : B = Append(A, task[k].event)
    OBVIOUS
  <1>4. /\ Accepted(h)' = B /\ DOMAIN A = 1 .. Len(A)
        /\ DOMAIN B = 1 .. Len(A) + 1 /\ Len(A) \in Nat
        /\ B[Len(A) + 1] = task[k].event /\ \A i \in DOMAIN A : B[i] = A[i]
    BY <1>1, <1>2, <1>3, AppendProperties, LenProperties DEF Accepts
  <1> DEFINE At(s) == {i \in DOMAIN s : s[i] = e}
  <1>5. At(B) = IF task[k].event = e THEN At(A) \cup {Len(A) + 1} ELSE At(A)
    BY <1>4
  <1>6. \A p : p \in Copies(e) <=>
            \E g \in Handler : \E i \in At(Accepted(g)) : p = <<g, i>>
    BY DEF Copies
  <1>7. \A p : p \in Copies(e)' <=>
            \E g \in Handler : \E i \in At(Accepted(g)') : p = <<g, i>>
    BY DEF Copies
  <1>8. \A g \in Handler : g # h => Accepted(g)' = Accepted(g)
    BY DEF Accepts
  <1>9. At(Accepted(h)) = At(A) /\ At(Accepted(h)') = At(B)
    BY <1>1, <1>4
  <1> HIDE DEF At
  <1>10. \A g \in Handler : g # h => At(Accepted(g)') = At(Accepted(g))
    BY <1>8
  <1>11. CASE task[k].event = e
    <2>1. At(Accepted(h)') = At(Accepted(h)) \cup {Len(A) + 1}
      BY <1>5, <1>9, <1>11
    <2>2. ASSUME NEW p
          PROVE  p \in Copies(e)' <=> p \in Copies(e) \cup {<<h, Len(A) + 1>>}
      BY <1>6, <1>7, <1>10, <2>1
    <2>3. Copies(e)' = Copies(e) \cup {<<h, Len(A) + 1>>}
      BY <2>2
    <2> QED BY <1>11, <2>3
  <1>12. CASE task[k].event # e
    <2>1. At(Accepted(h)') = At(Accepted(h))
      BY <1>5, <1>9, <1>12
    <2>2. ASSUME NEW p PROVE p \in Copies(e)' <=> p \in Copies(e)
      BY <1>6, <1>7, <1>10, <2>1
    <2>3. Copies(e)' = Copies(e)
      BY <2>2
    <2> QED BY <1>12, <2>3
  <1> QED BY <1>11, <1>12

LEMMA FinishCarriers ==
    ASSUME DeliveryTypeOK, NEW k \in Task, Finish(k), NEW e
    PROVE  Carriers(e)' = Carriers(e) \ {k}
  BY Finished DEF Carriers

\* No step but Publish and Deliver adds to what carries an event.
LEMMA FewerCarriers ==
    ASSUME TypeOK, DeliveryTypeOK, TargetsKnown, DeliveryNext,
           ~ \E k, j \in Task : Deliver(k, j),
           ~ \E k \in Task, f \in Event, place \in Place : Publish(k, f, place),
           NEW e \in Event
    PROVE  Carriers(e)' \subseteq Carriers(e) /\ UNCHANGED lostAcks
  <1>1. CASE OthersStep
    <2>1. /\ \A k \in Task : task'[k] # None => task'[k] = task[k]
          /\ UNCHANGED lostAcks
      BY <1>1 DEF OthersStep, SendToClient, SeeDrained, Alone, Leave, EndEarly,
             EnterAlone, WaitToReplace, Replace, Stop, TimePasses, delivery, history
    <2> QED BY <2>1 DEF Carriers
  <1>2. ASSUME NEW k \in Task, TaskStep(k)
        PROVE  Carriers(e)' \subseteq Carriers(e) /\ UNCHANGED lostAcks
    <2>1. task[k] # None /\ UNCHANGED lostAcks
      BY <1>2 DEF TaskStep, TaskWork, LookUp, LookUpFails, ForwardFails, FindStream,
             SelectEvent, LockToNotify, Push, TimeOut, CloseTimedOut, Carries, history
    <2>2. \A j \in Task : j # k => task'[j] = task[j]
      <3> DEFINE Rest == \A j \in Task : j # k => task'[j] = task[j]
      <3>1. ASSUME Finish(k) \/ AgainOrGiveUp(k) PROVE Rest
        BY <3>1 DEF Finish, AgainOrGiveUp, DeliveryTypeOK
      <3>2. ASSUME NEW step, NEW target, MoveTo(k, step, target) PROVE Rest
        BY <3>2 DEF MoveTo, DeliveryTypeOK
      <3>3. CASE LookUp(k) \/ FindStream(k)
        BY <3>1, <3>2, <3>3 DEF LookUp, FindStream
      <3>4. CASE SelectEvent(k) \/ LockToNotify(k) \/ TimeOut(k)
        BY <3>1, <3>2, <3>4 DEF SelectEvent, LockToNotify, TimeOut
      <3> QED BY <1>2, <3>1, <3>3, <3>4
              DEF TaskStep, TaskWork, LookUpFails, ForwardFails, Push, CloseTimedOut
    <2>3. task'[k] # None => task'[k].event = task[k].event
      BY <1>2, <2>1, EventsKept
    <2> QED BY <2>1, <2>2, <2>3 DEF Carriers
  <1> QED BY <1>1, <1>2, ProgressIsEither DEF DeliveryNext

LEMMA CopiesStep ==
    ASSUME TypeOK, DeliveryTypeOK, TargetsKnown, CopiesInv, DeliveryNext
    PROVE  CopiesInv'
  <1> DEFINE CopiesOf(e) ==
          /\ IsFiniteSet(Copies(e)) /\ IsFiniteSet(Carriers(e))
          /\ fate[e] \in {"never", "unpublished"} => Copies(e) = {} /\ Carriers(e) = {}
          /\ Cardinality(Copies(e)) + Cardinality(Carriers(e)) <= 1 + lostAcks[e]
  <1> SUFFICES ASSUME NEW e \in Event PROVE CopiesOf(e)'
    BY DEF CopiesInv
  <1>0. /\ CopiesOf(e) /\ lostAcks[e] \in Nat
        /\ Cardinality(Copies(e)) \in Nat /\ Cardinality(Carriers(e)) \in Nat
    BY FS_CardinalityType DEF CopiesInv, DeliveryTypeOK
  <1>1. fate[e] \in {"never", "unpublished", "published", "failed"}
    BY DEF DeliveryTypeOK
  <1>2. ASSUME NEW k \in Task, NEW h \in Handler, Accepts(k, h)
        PROVE  CopiesOf(e)'
    <2>1. UNCHANGED <<fate, lostAcks>> /\ Carriers(e)' = Carriers(e) \ {k}
      <3>1. UNCHANGED lostAcks
        BY <1>2 DEF Accepts
      <3> QED BY <1>2, <3>1, FinishCarriers DEF Accepts
    <2>2. /\ IsFiniteSet(Carriers(e)')
          /\ Cardinality(Carriers(e)') = IF k \in Carriers(e)
                THEN Cardinality(Carriers(e)) - 1 ELSE Cardinality(Carriers(e))
      BY <1>0, <2>1, FS_RemoveElement
    <2>3. CASE task[k].event = e
      <3>1. PICK p : Copies(e)' = Copies(e) \cup {p}
        BY <1>2, <2>3, AcceptCopies
      <3>2. /\ IsFiniteSet(Copies(e)')
            /\ Cardinality(Copies(e)') <= Cardinality(Copies(e)) + 1
            /\ Cardinality(Copies(e)') \in Nat
        <4>1. PICK S : S = Copies(e) /\ IsFiniteSet(S)
          BY <1>0
        <4>2. /\ IsFiniteSet(S \cup {p})
              /\ Cardinality(S \cup {p}) \in {Cardinality(S), Cardinality(S) + 1}
          BY <4>1, FS_AddElement
        <4> QED BY <1>0, <3>1, <4>1, <4>2
      <3>3. k \in Carriers(e) /\ fate[e] \notin {"never", "unpublished"}
        BY <1>0, <1>2, <2>3 DEF Accepts, Carries, Carriers
      <3> QED BY <1>0, <2>1, <2>2, <3>2, <3>3
    <2>4. CASE task[k].event # e
      <3>1. Copies(e)' = Copies(e) /\ k \notin Carriers(e)
        BY <1>2, <2>4, AcceptCopies DEF Carriers
      <3> QED BY <1>0, <2>1, <2>2, <3>1
    <2> QED BY <2>3, <2>4
  <1>3. ASSUME \A h \in Handler : Accepted(h)' = Accepted(h)
        PROVE  CopiesOf(e)'
    <2>1. Copies(e)' = Copies(e)
      BY <1>3, SameCopies
    <2>2. ASSUME NEW k \in Task, NEW f \in Event, NEW place \in Place,
                 Publish(k, f, place)
          PROVE  CopiesOf(e)'
      <3>1. Carry(f, place) # None /\ Carry(f, place).event = f
        BY CarryFields, TaskFields
      <3>2. /\ task'[k] # None /\ task'[k].event = f /\ task[k] = None
            /\ \A j \in Task : j # k => task'[j] = task[j]
            /\ UNCHANGED lostAcks /\ fate[f] = "unpublished"
            /\ fate' = [fate EXCEPT ![f] = "published"]
        BY <2>2, <3>1 DEF Publish, DeliveryTypeOK
      <3>3. CASE f = e
        <4>1. Carriers(e) = {} /\ Copies(e) = {}
          BY <1>0, <3>2, <3>3
        <4>2. Carriers(e)' = {k}
          BY <3>2, <3>3, <4>1 DEF Carriers
        <4>3. fate'[e] = "published"
          BY <3>2, <3>3 DEF DeliveryTypeOK
        <4>4. /\ IsFiniteSet(Carriers(e)') /\ Cardinality(Carriers(e)') = 1
              /\ IsFiniteSet(Copies(e)') /\ Cardinality(Copies(e)') = 0
          BY <2>1, <4>1, <4>2, FS_Singleton, FS_EmptySet
        <4> QED BY <1>0, <3>2, <4>3, <4>4
      <3>4. CASE f # e
        <4>1. Carriers(e)' = Carriers(e) /\ fate'[e] = fate[e]
          BY <3>2, <3>4 DEF Carriers, DeliveryTypeOK
        <4> QED BY <1>0, <2>1, <3>2, <4>1
      <3> QED BY <3>3, <3>4
    <2>3. ASSUME NEW k \in Task, NEW j \in Task, Deliver(k, j)
          PROVE  CopiesOf(e)'
      <3>1. /\ j # k /\ task[k] # None /\ task[j] = None
            /\ task'[k] # None => task'[k].event = task[k].event
            /\ task'[j] # None /\ task'[j].event = task[k].event
            /\ \A i \in Task : i \notin {j, k} => task'[i] = task[i]
            /\ fate' = fate
        BY <2>3, Delivered DEF Deliver
      <3>2. CASE task[k].event # e
        <4>1. Carriers(e)' = Carriers(e)
          BY <3>1, <3>2 DEF Carriers
        <4>2. lostAcks'[e] = lostAcks[e]
          BY <2>3, <3>2 DEF Deliver, DeliveryTypeOK
        <4> QED BY <1>0, <2>1, <3>1, <4>1, <4>2
      <3>3. CASE task[k].event = e
        <4>1. k \in Carriers(e) /\ j \notin Carriers(e)
          BY <3>1, <3>3 DEF Carriers
        <4>2. fate[e] \notin {"never", "unpublished"}
          BY <1>0, <4>1
        <4>3. CASE task' = [task EXCEPT ![k] = None, ![j] = Carry(e, task[k].to)]
                   /\ UNCHANGED lostAcks
          <5>1. task'[k] = None
            BY <3>1, <4>3 DEF DeliveryTypeOK
          <5>2. Carriers(e)' = (Carriers(e) \ {k}) \cup {j}
            BY <3>1, <3>3, <5>1 DEF Carriers
          <5>3. /\ IsFiniteSet(Carriers(e)')
                /\ Cardinality(Carriers(e)') = Cardinality(Carriers(e))
            <6>1. PICK S : S = Carriers(e) /\ IsFiniteSet(S)
              BY <1>0
            <6>2. /\ IsFiniteSet(S \ {k})
                  /\ Cardinality(S \ {k}) = Cardinality(S) - 1
              BY <4>1, <6>1, FS_RemoveElement
            <6>3. PICK T : T = S \ {k} /\ IsFiniteSet(T)
              BY <6>2
            <6>4. /\ IsFiniteSet(T \cup {j})
                  /\ Cardinality(T \cup {j}) = Cardinality(T) + 1
              BY <4>1, <6>1, <6>3, FS_AddElement
            <6> QED BY <1>0, <5>2, <6>1, <6>2, <6>3, <6>4
          <5> QED BY <1>0, <2>1, <3>1, <4>2, <4>3, <5>3
        <4>4. CASE lostAcks' = [lostAcks EXCEPT ![e] = lostAcks[e] + 1]
          <5>1. Carriers(e)' \subseteq Carriers(e) \cup {j}
            BY <3>1, <3>3 DEF Carriers
          <5>2. /\ IsFiniteSet(Carriers(e) \cup {j})
                /\ Cardinality(Carriers(e) \cup {j}) = Cardinality(Carriers(e)) + 1
            BY <1>0, <4>1, FS_AddElement
          <5>3. /\ IsFiniteSet(Carriers(e)') /\ Cardinality(Carriers(e)') \in Nat
                /\ Cardinality(Carriers(e)') <= Cardinality(Carriers(e)) + 1
            BY <5>1, <5>2, FS_Subset, FS_CardinalityType
          <5>4. lostAcks'[e] = lostAcks[e] + 1
            BY <4>4 DEF DeliveryTypeOK
          <5> QED BY <1>0, <2>1, <3>1, <4>2, <5>3, <5>4
        <4> QED BY <2>3, <3>3, <4>3, <4>4 DEF Deliver, AfterSuccess
      <3> QED BY <3>2, <3>3
    <2>4. CASE /\ ~ \E k, j \in Task : Deliver(k, j)
               /\ ~ \E k \in Task, f \in Event, place \in Place : Publish(k, f, place)
      <3>1. Carriers(e)' \subseteq Carriers(e) /\ UNCHANGED lostAcks
        BY <2>4, FewerCarriers
      <3>2. /\ IsFiniteSet(Carriers(e)') /\ Cardinality(Carriers(e)') \in Nat
            /\ Cardinality(Carriers(e)') <= Cardinality(Carriers(e))
        BY <1>0, <3>1, FS_Subset, FS_CardinalityType
      <3>3. fate'[e] \in {"never", "unpublished"} => fate[e] \in {"never", "unpublished"}
        BY <1>1, FateStep
      <3> QED BY <1>0, <2>1, <3>1, <3>2, <3>3
    <2> QED BY <2>2, <2>3, <2>4
  <1> QED BY <1>2, <1>3, AcceptedStep

\* An event is in the streams of its user more often than once only if replies
\* to forwarding calls were lost, and not more often than that explains.
THEOREM CopiesHaveACause == DeliverySpec => []CopiesHaveCause
  <1>1. DeliveryInit => CopiesInv
    <2> SUFFICES ASSUME DeliveryInit, NEW e \in Event
                 PROVE  Copies(e) = {} /\ Carriers(e) = {} /\ lostAcks[e] = 0
      BY FS_EmptySet DEF CopiesInv
    <2>1. \A h \in Handler : Accepted(h) = <<>>
      BY ConcatEmptySeq DEF DeliveryInit, NothingSent, Accepted
    <2> QED BY <2>1 DEF DeliveryInit, Copies, Carriers
  <1>2. DeliveryInv /\ CopiesInv /\ [DeliveryNext]_allVars => CopiesInv'
    <2> SUFFICES ASSUME DeliveryInv, CopiesInv, [DeliveryNext]_allVars
                 PROVE  CopiesInv'
      OBVIOUS
    <2>1. CASE UNCHANGED allVars
      <3>1. UNCHANGED <<channel, sent, task, fate, lostAcks>>
        BY <2>1 DEF allVars, delivery, history
      <3>2. \A e \in Event : Copies(e)' = Copies(e) /\ Carriers(e)' = Carriers(e)
        BY <3>1, SameCopies DEF Accepted, Carriers
      <3> QED BY <3>1, <3>2 DEF CopiesInv
    <2>2. CASE DeliveryNext
      BY <2>2, CopiesStep DEF DeliveryInv, Inv
    <2> QED BY <2>1, <2>2
  <1>3. DeliveryInv /\ CopiesInv => CopiesHaveCause
    <2> SUFFICES ASSUME DeliveryInv, CopiesInv, NEW e \in Event
                 PROVE  Cardinality(Copies(e)) <= 1 + lostAcks[e]
      BY DEF CopiesHaveCause
    <2>1. /\ Cardinality(Copies(e)) \in Nat /\ Cardinality(Carriers(e)) \in Nat
          /\ lostAcks[e] \in Nat
      BY FS_CardinalityType DEF CopiesInv, DeliveryInv, DeliveryTypeOK
    <2>2. Cardinality(Copies(e)) + Cardinality(Carriers(e)) <= 1 + lostAcks[e]
      BY DEF CopiesInv
    <2> QED BY <2>1, <2>2
  <1> QED BY <1>1, <1>2, <1>3, DeliveryInvariance, PTL DEF DeliverySpec
=============================================================================
