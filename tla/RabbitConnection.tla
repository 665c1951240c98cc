-------------------------- MODULE RabbitConnection ---------------------------
(***************************************************************************)
(* RabbitMqConnection, the broker connection of one process.  Its callers,   *)
(* the reconnect timer, the lifecycle handlers and onModuleDestroy share     *)
(* the fields connection, channel, connectPromise, reconnectTimer,           *)
(* activeConsumers and shuttingDown, and interleave wherever one awaits.     *)
(* A step is one event and all that runs until nobody can go on without     *)
(* another.                                                                 *)
(*                                                                         *)
(* An attempt is one run of tryConnect:                                     *)
(*   connecting -> setup -> starting -> idle,  any -> closing -> backoff    *)
(*   -> connecting ... -> idle                                              *)
(*                                                                         *)
(* While `up` is FALSE the broker refuses connections and any open one, or   *)
(* only its channel, may be lost.  What travels on the channel, and the      *)
(* broker cancelling a consumer on a channel that lives on, is in module    *)
(* Messaging.                                                              *)
(***************************************************************************)
EXTENDS Integers, FiniteSets

CONSTANTS
  Queues,       \* queues with a registered consumer
  Links,        \* ids of connections, each with its channel, used again
  Attempts,     \* ids of attempts, 1..n
  MaxAttempts,  \* RABBITMQ_CONNECT_MAX_ATTEMPTS
  None

VARIABLES
  up,             \* the broker answers
  link,           \* each connection: none, open, or closing
  served,         \* how many consumers each link has for each queue
  channel,        \* the link in the fields connection and channel, or None
  active,         \* activeConsumers
  timer,          \* a reconnect timer is pending
  connectPromise, \* the attempt new callers share, or None
  attempt,        \* the attempts
  awaiting,       \* who awaits each attempt
  boot,           \* starting, running or exited
  shuttingDown

broker == <<up, link, served>>
fields == <<channel, active>>
trying == <<connectPromise, attempt, awaiting>>
connVars == <<broker, fields, timer, trying, boot, shuttingDown>>

ASSUME QueuesAssumption == Queues # {}
ASSUME AttemptsAssumption == 1 \in Attempts /\ Attempts \subseteq Nat
ASSUME MaxAttemptsAssumption == MaxAttempts \in Nat \ {0}
ASSUME NoLinkAssumption == None \notin Links \cup Attempts

Caller == {"boot", "timer", "publisher"}
Idle == [at |-> "idle", try |-> 0, conn |-> None, todo |-> {}]
NoConsumers == [q \in Queues |-> 0]
Alive == boot # "exited"

\* The fields point at a link or not at all, attempts and callers fit.
ConnTypeOK ==
  /\ up \in BOOLEAN /\ timer \in BOOLEAN /\ shuttingDown \in BOOLEAN
  /\ link \in [Links -> {"none", "open", "closing"}]
  /\ served \in [Links -> [Queues -> Nat]]
  /\ channel \in Links \cup {None}
  /\ active \subseteq Queues
  /\ connectPromise \in Attempts \cup {None}
  /\ attempt \in [Attempts ->
       [at : {"idle", "connecting", "setup", "starting", "closing", "backoff"},
        try : 0..MaxAttempts, conn : Links \cup {None}, todo : SUBSET Queues]]
  /\ awaiting \in [Attempts -> SUBSET Caller]
  /\ boot \in {"starting", "running", "exited"}

-----------------------------------------------------------------------------
\* A process that has just started: onModuleInit connects and consume() has
\* registered every queue; both await the first attempt.
NoLinks == [i \in Links |-> "none"]
NobodyServed == [i \in Links |-> NoConsumers]
FirstAttempt == [s \in Attempts |->
  IF s = 1 THEN [Idle EXCEPT !.at = "connecting", !.try = 1] ELSE Idle]
FirstAwaiting == [s \in Attempts |-> IF s = 1 THEN {"boot"} ELSE {}]

ConnInit ==
  /\ up = TRUE
  /\ link = NoLinks /\ served = NobodyServed
  /\ channel = None /\ active = {}
  /\ timer = FALSE
  /\ connectPromise = 1 /\ attempt = FirstAttempt /\ awaiting = FirstAwaiting
  /\ boot = "starting"
  /\ shuttingDown = FALSE

-----------------------------------------------------------------------------
\* Variant for a mutant: a timer even after shutdown.
ScheduledAnyway(t) == TRUE

\* scheduleReconnect: whether a timer is pending after it, t before it.
Scheduled(t) == t \/ ~shuttingDown

\* Variant for a mutant: a running attempt is trusted to connect.
LeftToAttempt(t) == t \/ (~shuttingDown /\ connectPromise = None)

\* What the lifecycle handlers do with the timer.
AfterLoss(t) == Scheduled(t)

\* Variant for a mutant: the catch only logs.
OnlyLogged(t) == t

\* What the timer's own catch does with the timer.
AfterExhausted(t) == Scheduled(t)

\* Variant for a mutant: every caller starts an attempt of its own.
NotShared == None

\* The attempt a caller without a channel joins.
Shared == connectPromise

\* connectWithRetry without a channel: join the attempt or start one, unless
\* its first check of shuttingDown throws.
ConnectWithRetry(caller) ==
  IF Shared # None
  THEN /\ awaiting' = [awaiting EXCEPT ![Shared] = @ \cup {caller}]
       /\ UNCHANGED <<connectPromise, attempt>>
  ELSE \E s \in Attempts :
         /\ attempt[s] = Idle /\ \A r \in Attempts : attempt[r] = Idle => s <= r
         /\ attempt' = [attempt EXCEPT ![s] = [Idle EXCEPT !.at = "connecting", !.try = 1]]
         /\ connectPromise' = s
         /\ awaiting' = [awaiting EXCEPT ![s] = {caller}]

\* The attempt ends: whoever shared it goes on.  A boot without a channel
\* exits the process.
Ends(s, t, connected) ==
  /\ attempt' = [attempt EXCEPT ![s] = Idle]
  /\ connectPromise' = None
  /\ awaiting' = [awaiting EXCEPT ![s] = {}]
  /\ boot' = IF "boot" \notin awaiting[s] THEN boot
             ELSE IF connected THEN "running" ELSE "exited"
  /\ timer' = t

Rejects(s, t) == Ends(s, IF "timer" \in awaiting[s] THEN AfterExhausted(t) ELSE t, FALSE)

\* Variant for a mutant: one attempt too many.
FailsOnceMore(s, t) ==
  IF attempt[s].try <= MaxAttempts
  THEN /\ attempt' = [attempt EXCEPT ![s] = [Idle EXCEPT !.at = "backoff", !.try = attempt[s].try]]
       /\ timer' = t
       /\ UNCHANGED <<connectPromise, awaiting, boot>>
  ELSE Rejects(s, t)

\* connectOnce has thrown: wait and try again, or give up.
Fails(s, t) ==
  IF attempt[s].try < MaxAttempts
  THEN /\ attempt' = [attempt EXCEPT ![s] = [Idle EXCEPT !.at = "backoff", !.try = attempt[s].try]]
       /\ timer' = t
       /\ UNCHANGED <<connectPromise, awaiting, boot>>
  ELSE Rejects(s, t)

\* An attempt closes its connection before it fails.
Closes(s) ==
  /\ attempt' = [attempt EXCEPT ![s].at = "closing", ![s].todo = {}]
  /\ UNCHANGED <<connectPromise, awaiting, boot, timer>>

-----------------------------------------------------------------------------
\* amqp.connect() answers.
Connects(s) ==
  /\ Alive /\ up
  /\ attempt[s].at = "connecting"
  /\ \E i \in Links :
       /\ link[i] = "none" /\ \A j \in Links : link[j] = "none" => i <= j
       /\ link' = [link EXCEPT ![i] = "open"]
       /\ attempt' = [attempt EXCEPT ![s].at = "setup", ![s].conn = i]
  /\ UNCHANGED <<up, served, fields, timer, connectPromise, awaiting, boot, shuttingDown>>

Refused(s) ==
  /\ Alive /\ ~up
  /\ attempt[s].at = "connecting"
  /\ Fails(s, timer)
  /\ UNCHANGED <<broker, fields, shuttingDown>>

\* Variant for a mutant: trust the handlers to have cleared it.
NotCleared(a) == a

\* activeConsumers once a new channel is in place.
Cleared(a) == {}

\* Channel and topology are there: the fields take the link, whatever they
\* held, and the consumers of all registered queues are started.
SetsUp(s) ==
  /\ Alive
  /\ attempt[s].at = "setup"
  /\ channel' = attempt[s].conn
  /\ active' = Cleared(active)
  /\ IF Queues \subseteq active'
     THEN Ends(s, timer, TRUE)
     ELSE /\ attempt' = [attempt EXCEPT ![s].at = "starting", ![s].todo = Queues \ active']
          /\ UNCHANGED <<timer, connectPromise, awaiting, boot>>
  /\ UNCHANGED <<broker, shuttingDown>>

\* The broker has started one consumer.
Consumes(s, q) ==
  LET i == attempt[s].conn IN
  /\ Alive
  /\ attempt[s].at = "starting" /\ q \in attempt[s].todo
  /\ served' = [served EXCEPT ![i][q] = @ + 1]
  /\ active' = active \cup {q}
  /\ IF attempt[s].todo = {q}
     THEN Ends(s, timer, channel # None)
     ELSE /\ attempt' = [attempt EXCEPT ![s].todo = @ \ {q}]
          /\ UNCHANGED <<timer, connectPromise, awaiting, boot>>
  /\ UNCHANGED <<up, link, channel, shuttingDown>>

\* The pause between two attempts is over.
TriesAgain(s) ==
  /\ Alive
  /\ attempt[s].at = "backoff"
  /\ IF shuttingDown
     THEN Rejects(s, timer)
     ELSE /\ attempt' = [attempt EXCEPT ![s].at = "connecting", ![s].try = @ + 1]
          /\ UNCHANGED <<timer, connectPromise, awaiting, boot>>
  /\ UNCHANGED <<broker, fields, shuttingDown>>

-----------------------------------------------------------------------------
\* The link, or only its channel, is gone; then the connection is closed.
Breaks(i, kind) ==
  /\ Alive /\ ~up
  /\ link[i] = "open"
  /\ link' = [link EXCEPT ![i] = IF kind = "channel" THEN "closing" ELSE "none"]
  /\ served' = [served EXCEPT ![i] = NoConsumers]
  /\ UNCHANGED up

\* The lifecycle handlers of link i: nothing unless the fields still hold it.
TimerAfterLoss(i) == IF channel = i THEN AfterLoss(timer) ELSE timer
ChannelAfterLoss(i) == IF channel = i THEN None ELSE channel

\* Lost before its handlers are registered: the attempt fails, on its own or,
\* when the loss is read together with the last reply, on the first consumer;
\* or the "error" event nobody listens to ends the process.
BreaksInSetup(s, kind, late) ==
  /\ attempt[s].at = "setup"
  /\ Breaks(attempt[s].conn, kind)
  /\ IF late THEN channel' = None /\ active' = {} ELSE UNCHANGED fields
  /\ IF kind = "channel" THEN Closes(s) ELSE Fails(s, timer)
  /\ UNCHANGED shuttingDown

CrashesInSetup(s, kind) ==
  /\ attempt[s].at = "setup"
  /\ Breaks(attempt[s].conn, kind)
  /\ boot' = "exited"
  /\ UNCHANGED <<fields, timer, trying, shuttingDown>>

\* Lost while a consumer is being started, which throws.
BreaksInStart(s, kind) ==
  LET i == attempt[s].conn IN
  /\ attempt[s].at = "starting"
  /\ Breaks(i, kind)
  /\ channel' = None /\ active' = {}
  /\ Fails(s, TimerAfterLoss(i))
  /\ UNCHANGED shuttingDown

\* The reply for consumer q and the loss arrive in one read: the handlers run
\* before startConsumer goes on and adds q to activeConsumers.
BreaksAfterReply(s, q, kind) ==
  LET i == attempt[s].conn IN
  /\ attempt[s].at = "starting" /\ q \in attempt[s].todo
  /\ Breaks(i, kind)
  /\ IF attempt[s].todo = {q}
     THEN /\ channel' = ChannelAfterLoss(i)
          /\ active' = (IF channel = i THEN {} ELSE active) \cup {q}
          /\ Ends(s, TimerAfterLoss(i), channel' # None)
     ELSE /\ channel' = None /\ active' = {}
          /\ Fails(s, TimerAfterLoss(i))
  /\ UNCHANGED shuttingDown

\* Lost in use.
BreaksInUse(kind) ==
  /\ channel # None
  /\ \A s \in Attempts : attempt[s].conn # channel
  /\ Breaks(channel, kind)
  /\ channel' = None /\ active' = {}
  /\ timer' = AfterLoss(timer)
  /\ UNCHANGED <<trying, boot, shuttingDown>>

\* A connection has closed; an attempt that waited for it fails.
Closed(i) ==
  /\ Alive
  /\ link[i] = "closing"
  /\ link' = [link EXCEPT ![i] = "none"]
  /\ \/ \E s \in Attempts : attempt[s].conn = i /\ Fails(s, timer)
     \/ /\ \A s \in Attempts : attempt[s].conn # i
        /\ UNCHANGED <<timer, trying, boot>>
  /\ UNCHANGED <<up, served, fields, shuttingDown>>

-----------------------------------------------------------------------------
TimerFires ==
  /\ Alive /\ timer
  /\ IF channel # None
     THEN timer' = FALSE /\ UNCHANGED trying
     ELSE IF shuttingDown /\ Shared = None
     THEN timer' = AfterExhausted(FALSE) /\ UNCHANGED trying
     ELSE timer' = FALSE /\ ConnectWithRetry("timer")
  /\ UNCHANGED <<broker, fields, boot, shuttingDown>>

\* The publisher asks for a channel and there is none.
GetChannel ==
  /\ Alive
  /\ channel = None
  /\ \A s \in Attempts : "publisher" \notin awaiting[s]
  /\ shuttingDown => Shared # None
  /\ ConnectWithRetry("publisher")
  /\ UNCHANGED <<broker, fields, timer, boot, shuttingDown>>

\* onModuleDestroy: closes what the fields hold.  A consumer being started
\* there fails with it; an attempt still in setup goes on.
Destroy ==
  /\ Alive /\ ~shuttingDown
  /\ shuttingDown' = TRUE
  /\ timer' = FALSE
  /\ channel' = None /\ active' = {}
  /\ link' = [i \in Links |-> IF i = channel THEN "closing" ELSE link[i]]
  /\ served' = [i \in Links |-> IF i = channel THEN NoConsumers ELSE served[i]]
  /\ attempt' = [s \in Attempts |->
       IF channel # None /\ attempt[s].conn = channel
       THEN [attempt[s] EXCEPT !.at = "closing", !.todo = {}] ELSE attempt[s]]
  /\ UNCHANGED <<up, connectPromise, awaiting, boot>>

\* The container is started again unless it was stopped.
Restart ==
  /\ ~Alive /\ ~shuttingDown
  /\ link' = NoLinks /\ served' = NobodyServed
  /\ channel' = None /\ active' = {}
  /\ timer' = FALSE
  /\ connectPromise' = 1 /\ attempt' = FirstAttempt /\ awaiting' = FirstAwaiting
  /\ boot' = "starting"
  /\ UNCHANGED <<up, shuttingDown>>

BrokerFails == up /\ up' = FALSE /\ UNCHANGED <<link, served, fields, timer, trying, boot, shuttingDown>>
BrokerBack == ~up /\ up' = TRUE /\ UNCHANGED <<link, served, fields, timer, trying, boot, shuttingDown>>

AttemptNext(s) ==
  \/ Connects(s) \/ Refused(s)
  \/ SetsUp(s)
  \/ \E q \in Queues : Consumes(s, q)
  \/ TriesAgain(s)

LossNext ==
  \E kind \in {"channel", "connection"} :
    \/ BreaksInUse(kind)
    \/ \E s \in Attempts :
         \/ \E late \in BOOLEAN : BreaksInSetup(s, kind, late)
         \/ CrashesInSetup(s, kind)
         \/ BreaksInStart(s, kind)
         \/ \E q \in Queues : BreaksAfterReply(s, q, kind)

ConnNext ==
  \/ \E s \in Attempts : AttemptNext(s)
  \/ LossNext
  \/ \E i \in Links : Closed(i)
  \/ TimerFires \/ GetChannel \/ Destroy \/ Restart
  \/ BrokerFails \/ BrokerBack

ConnSpec == ConnInit /\ [][ConnNext]_connVars

\* Timers fire, the broker answers or the socket reports that it does not, the
\* container runtime restarts a dead process.  Nothing is asked of the broker's
\* failures and recoveries.
ConnFairness ==
  /\ \A s \in Attempts : WF_connVars(AttemptNext(s))
  /\ \A i \in Links : WF_connVars(Closed(i))
  /\ WF_connVars(TimerFires)
  /\ WF_connVars(Restart)

ConnFairSpec == ConnSpec /\ ConnFairness

-----------------------------------------------------------------------------
(* Properties *)

\* Whatever timers, callers, losses and shutdown meet, every open connection is
\* the one in the fields or the one an attempt is working on: none is
\* overwritten or forgotten with its consumers still taking messages.
NothingLeaks ==
  \A i \in Links : link[i] = "open" =>
    \/ channel = i
    \/ \E s \in Attempts : attempt[s].conn = i /\ attempt[s].at \in {"setup", "starting"}

\* The channel callers get from getChannel is alive, and once it is fully
\* started each registered queue has exactly one consumer, all on it:
\* activeConsumers never makes startConsumer skip a queue of a new channel.
ConsumersRestored ==
  /\ channel # None => link[channel] = "open"
  /\ channel # None /\ (\A s \in Attempts : attempt[s].conn # channel) =>
       \A q \in Queues : served[channel][q] = 1
  /\ \A i \in Links, q \in Queues :
       served[i][q] <= 1 /\ (served[i][q] = 1 /\ link[i] = "open" => channel = i)

\* A running process without a channel always has a reconnect to come: a timer,
\* or an attempt whose failure will set one.
ReconnectOwed ==
  (boot = "running" /\ ~shuttingDown /\ channel = None) =>
    (timer \/ \E s \in Attempts : "timer" \in awaiting[s])

Consuming == /\ channel # None
             /\ \A q \in Queues : served[channel][q] = 1
             /\ \A s \in Attempts : attempt[s] = Idle

\* Once the broker stays up, a process that is not shut down has a channel with
\* all its consumers in the end, and keeps it, however the losses, timers and
\* restarts before fell.
Recovers == <>[]up => (<>shuttingDown \/ <>[]Consuming)

\* After onModuleDestroy the attempts end and no timer starts another, even
\* when the broker never answers.
RetriesEndAtShutdown ==
  <>shuttingDown => <>[](~Alive \/ (~timer /\ \A s \in Attempts : attempt[s] = Idle))
=============================================================================
