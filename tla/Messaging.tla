----------------------------- MODULE Messaging ------------------------------
(***************************************************************************)
(* From outbox row to handled event: OutboxPublisherService polls the       *)
(* outbox, RabbitMqConnection publishes on a confirm channel, hands          *)
(* deliveries to the consumer, republishes failed ones with the next retry   *)
(* count and dead-letters them at the limit.                                *)
(*                                                                         *)
(* Each process has one channel, which its publisher and its handlers share. *)
(*   publisher: idle -> publish -> confirm -> mark -> publish ... -> idle     *)
(*   handler:   free -> handle -> ack -> free, or handle -> copy -> ack      *)
(* A copy published on a channel travels on the channel's wire until the     *)
(* broker has taken it.  What a handler does is module Execution.           *)
(***************************************************************************)
EXTENDS Sums, Sequences

CONSTANTS
  Events,       \* ids of outbox rows
  CreatedAt,    \* the rows' creation times
  Processes,    \* processes of the service
  Slots,        \* concurrent handlers, the channel's prefetch per process
  Host,         \* the process of each slot
  BatchSize,    \* OUTBOX_BATCH_SIZE
  MaxRetries,   \* RABBITMQ_CONSUMER_MAX_RETRIES
  MaxFaults,    \* bound: faults that may happen
  None

VARIABLES
  enqueued,     \* outbox rows committed
  published,    \* outbox rows with a published_at
  pub,          \* each process's publisher
  wire,         \* what each channel has sent and the broker has not taken
  up,           \* processes with an open channel
  cancelled,    \* processes whose consumer the broker has cancelled
  queue,        \* the execution queue: how many of each copy
  dead,         \* events in the dead-letter queue
  slot,         \* each handler and the delivery it holds
  stale,        \* handlers still running for a channel that is gone
  handled,      \* events a handler has settled
  thrown,       \* retry counts at which a handler has thrown, per event
  faults        \* faults so far

rows == <<enqueued, published>>
channel == <<wire, up, cancelled>>
broker == <<queue, dead>>
handlers == <<slot, stale, handled, thrown>>
msgVars == <<rows, pub, channel, broker, handlers, faults>>

ASSUME CreatedAtAssumption == CreatedAt \in [Events -> Nat]
ASSUME HostAssumption == Host \in [Slots -> Processes]
ASSUME LimitsAssumption == BatchSize \in Nat \ {0} /\ MaxRetries \in Nat /\ MaxFaults \in Nat
ASSUME NoneAssumption == None \notin Events \cup Processes \cup Slots
ASSUME SendersAssumption == Processes \cap Slots = {}
ASSUME FinitenessAssumption == IsFiniteSet(Processes) /\ IsFiniteSet(Slots)

Copy == [event : Events, retries : 0..MaxRetries]
Sender == Processes \cup Slots
Sent == [by : Sender \cup {None}, key : {"execution", "dead-letter"}, copy : Copy]

IdlePublisher == [phase |-> "idle", batch |-> {}, row |-> None]
FreeSlot == [phase |-> "free", copy |-> None]

MsgTypeOK ==
  /\ enqueued \subseteq Events
  /\ published \subseteq enqueued
  /\ pub \in [Processes -> [phase : {"idle", "publish", "confirm", "mark"},
                            batch : SUBSET Events, row : Events \cup {None}]]
  /\ wire \in [Processes -> Seq(Sent)]
  /\ up \subseteq Processes
  /\ cancelled \subseteq Processes
  /\ queue \in [Copy -> Nat]
  /\ dead \subseteq Events
  /\ slot \in [Slots -> [phase : {"free", "handle", "copy", "ack"}, copy : Copy \cup {None}]]
  /\ stale \in [Processes -> SUBSET Events]
  /\ handled \subseteq Events
  /\ thrown \in [Events -> SUBSET (0..MaxRetries)]
  /\ faults \in 0..MaxFaults
  /\ \A p \in Processes :
       /\ pub[p].phase \in {"confirm", "mark"} <=> pub[p].row # None
       /\ pub[p].phase = "idle" <=> pub[p].batch = {}
       /\ pub[p].row # None => pub[p].row \in pub[p].batch
  /\ \A s \in Slots : slot[s].phase # "free" => slot[s].copy \in Copy /\ Host[s] \in up

MsgInit ==
  /\ enqueued = {}
  /\ published = {}
  /\ pub = [p \in Processes |-> IdlePublisher]
  /\ wire = [p \in Processes |-> <<>>]
  /\ up = Processes
  /\ cancelled = {}
  /\ queue = [c \in Copy |-> 0]
  /\ dead = {}
  /\ slot = [s \in Slots |-> FreeSlot]
  /\ stale = [p \in Processes |-> {}]
  /\ handled = {}
  /\ thrown = [e \in Events |-> {}]
  /\ faults = 0

Fault == faults < MaxFaults /\ faults' = faults + 1

-----------------------------------------------------------------------------
(* The channel. *)

Send(p, s, key, copy) ==
  wire' = [wire EXCEPT ![p] = Append(@, [by |-> s, key |-> key, copy |-> copy])]

OnWire(p, s) == \E i \in DOMAIN wire[p] : wire[p][i].by = s

\* waitForConfirms answers when the broker has confirmed all that the channel
\* has sent; the broker takes a channel's copies in order, so the sender's own
\* is the last of them.  The variant does not wait.
ConfirmedAtOnce(p, s) == p \in up
Confirmed(p, s) == ~ OnWire(p, s)

\* The wait ends without the confirm: the copy is refused, or its confirm is late
\* and it stays on the wire.  (Once taken, only the confirm or the drain event is late.)
GiveUp(p, s) ==
  \/ ~ OnWire(p, s) /\ UNCHANGED wire
  \/ \E i \in DOMAIN wire[p] :
       /\ wire[p][i].by = s
       /\ \/ wire' = [wire EXCEPT ![p] = SubSeq(@, 1, i - 1) \o SubSeq(@, i + 1, Len(@))]
          \/ wire' = [wire EXCEPT ![p][i].by = None]

\* The routing key leads to one of the two durable queues.
BrokerTakes(p) ==
  /\ wire[p] # <<>>
  /\ LET m == Head(wire[p]) IN
     \/ m.key = "execution" /\ queue' = [queue EXCEPT ![m.copy] = @ + 1] /\ UNCHANGED dead
     \/ m.key = "dead-letter" /\ dead' = dead \cup {m.copy.event} /\ UNCHANGED queue
  /\ wire' = [wire EXCEPT ![p] = Tail(@)]
  /\ UNCHANGED <<rows, pub, up, cancelled, handlers, faults>>

-----------------------------------------------------------------------------
(* OutboxPublisherService.publishBatch. *)

\* The commit of an accept transaction.  Rows may become visible in another
\* order than that of their creation times.
Enqueue(e) ==
  /\ e \notin enqueued
  /\ enqueued' = enqueued \cup {e}
  /\ UNCHANGED <<published, pub, channel, broker, handlers, faults>>

SetPub(p, phase, batch, row) ==
  pub' = [pub EXCEPT ![p] = [phase |-> phase, batch |-> batch, row |-> row]]
StopBatch(p) == pub' = [pub EXCEPT ![p] = IdlePublisher]

\* The `running` flag; the variant lacks it.
IdleOrNot(p) == p \in Processes
Idle(p) == pub[p].phase = "idle"

\* findUnpublished: the oldest BatchSize rows without published_at.
Poll(p) ==
  LET rest == enqueued \ published IN
  /\ Idle(p)
  /\ \E B \in (SUBSET rest) \ {{}} :
       /\ Cardinality(B) <= BatchSize
       /\ B = rest \/ Cardinality(B) = BatchSize
       /\ \A e \in B, f \in rest \ B : CreatedAt[e] <= CreatedAt[f]
       /\ SetPub(p, "publish", B, None)
  /\ UNCHANGED <<rows, channel, broker, handlers, faults>>

Publish(p, e) ==
  /\ pub[p].phase = "publish"
  /\ e \in pub[p].batch
  /\ \A f \in pub[p].batch : CreatedAt[e] <= CreatedAt[f]
  /\ p \in up
  /\ Send(p, p, "execution", [event |-> e, retries |-> 0])
  /\ SetPub(p, "confirm", pub[p].batch, e)
  /\ UNCHANGED <<rows, up, cancelled, broker, handlers, faults>>

PublishConfirmed(p) ==
  /\ pub[p].phase = "confirm"
  /\ Confirmed(p, p)
  /\ SetPub(p, "mark", pub[p].batch, pub[p].row)
  /\ UNCHANGED <<rows, channel, broker, handlers, faults>>

\* publish throws, which ends the batch: there is no channel, or the confirm
\* fails or times out.
PublishFails(p) ==
  /\ \/ pub[p].phase = "publish" /\ p \notin up /\ UNCHANGED <<wire, faults>>
     \/ pub[p].phase = "confirm" /\ Fault /\ GiveUp(p, p)
  /\ StopBatch(p)
  /\ UNCHANGED <<rows, up, cancelled, broker, handlers>>

Mark(p) ==
  LET left == pub[p].batch \ {pub[p].row} IN
  /\ pub[p].phase = "mark"
  /\ published' = published \cup {pub[p].row}
  /\ SetPub(p, IF left = {} THEN "idle" ELSE "publish", left, None)
  /\ UNCHANGED <<enqueued, channel, broker, handlers, faults>>

\* markPublished throws, with or without effect, which ends the batch.
MarkFails(p) ==
  /\ pub[p].phase = "mark"
  /\ Fault
  /\ published' \in {published, published \cup {pub[p].row}}
  /\ StopBatch(p)
  /\ UNCHANGED <<enqueued, channel, broker, handlers>>

-----------------------------------------------------------------------------
(* RabbitMqConnection.startConsumer and handleConsumerFailure. *)

SetSlot(s, phase, copy) == slot' = [slot EXCEPT ![s] = [phase |-> phase, copy |-> copy]]

Deliver(s) ==
  /\ slot[s].phase = "free"
  /\ Host[s] \in up \ cancelled
  /\ \E c \in Copy :
       /\ queue[c] > 0
       /\ queue' = [queue EXCEPT ![c] = @ - 1]
       /\ SetSlot(s, "handle", c)
  /\ UNCHANGED <<rows, pub, channel, dead, stale, handled, thrown, faults>>

\* The broker drops the delivery once the ack arrives, see Acked.
HandlerReturns(s) ==
  /\ slot[s].phase = "handle"
  /\ handled' = handled \cup {slot[s].copy.event}
  /\ SetSlot(s, "ack", slot[s].copy)
  /\ UNCHANGED <<rows, pub, channel, broker, stale, thrown, faults>>

\* What a failed delivery is replaced by; the variants give up one retry early, go
\* one past the limit, and do not count.
DeadLettersEarly(c) ==
  IF c.retries + 1 < MaxRetries THEN [key |-> "execution", copy |-> [c EXCEPT !.retries = @ + 1]]
  ELSE [key |-> "dead-letter", copy |-> c]
RetriesPastLimit(c) ==
  IF c.retries <= MaxRetries THEN [key |-> "execution", copy |-> [c EXCEPT !.retries = @ + 1]]
  ELSE [key |-> "dead-letter", copy |-> c]
RetriesForEver(c) == [key |-> "execution", copy |-> c]
Replacement(c) ==
  IF c.retries < MaxRetries THEN [key |-> "execution", copy |-> [c EXCEPT !.retries = @ + 1]]
  ELSE [key |-> "dead-letter", copy |-> c]

\* A handler may throw although its settlement has committed.
HandlerThrows(s) ==
  LET c == slot[s].copy IN
  /\ slot[s].phase = "handle"
  /\ handled' \in {handled, handled \cup {c.event}}
  /\ thrown' = [thrown EXCEPT ![c.event] = @ \cup {c.retries}]
  /\ Send(Host[s], s, Replacement(c).key, Replacement(c).copy)
  /\ SetSlot(s, "copy", c)
  /\ UNCHANGED <<rows, pub, up, cancelled, broker, stale, faults>>

ReplacementConfirmed(s) ==
  /\ slot[s].phase = "copy"
  /\ Confirmed(Host[s], s)
  /\ SetSlot(s, "ack", slot[s].copy)
  /\ UNCHANGED <<rows, pub, channel, broker, stale, handled, thrown, faults>>

\* nack with requeue, though the broker may have the replacement as well.
ReplacementFails(s) ==
  /\ slot[s].phase = "copy"
  /\ Fault
  /\ GiveUp(Host[s], s)
  /\ queue' = [queue EXCEPT ![slot[s].copy] = @ + 1]
  /\ slot' = [slot EXCEPT ![s] = FreeSlot]
  /\ UNCHANGED <<rows, pub, up, cancelled, dead, stale, handled, thrown>>

Acked(s) ==
  /\ slot[s].phase = "ack"
  /\ slot' = [slot EXCEPT ![s] = FreeSlot]
  /\ UNCHANGED <<rows, pub, channel, broker, stale, handled, thrown, faults>>

-----------------------------------------------------------------------------
(* The channel closes, the process crashes, the broker cancels a consumer. *)

HostedAt(p) == {s \in Slots : Host[s] = p}

\* The broker requeues what the channel has not acked; an ack under way is lost.
Requeue(p) ==
  queue' = [c \in Copy |-> queue[c] +
              Cardinality({s \in HostedAt(p) : slot[s].phase # "free" /\ slot[s].copy = c})]

Close(p) ==
  /\ Fault
  /\ up' = up \ {p}
  /\ cancelled' = cancelled \ {p}
  /\ wire' = [wire EXCEPT ![p] = <<>>]
  /\ Requeue(p)
  /\ slot' = [s \in Slots |-> IF Host[s] = p THEN FreeSlot ELSE slot[s]]
  /\ UNCHANGED <<rows, dead, handled, thrown>>

\* Handlers run on, but their ack, copy or nack throws on the closed channel and
\* is swallowed.  A publisher whose copy was confirmed may have seen that.
ChannelLost(p) ==
  /\ p \in up
  /\ Close(p)
  /\ stale' = [stale EXCEPT ![p] = @ \cup
                 {slot[s].copy.event : s \in {t \in HostedAt(p) : slot[t].phase = "handle"}}]
  /\ \/ pub[p].phase = "confirm" /\ StopBatch(p)
     \/ ~ (pub[p].phase = "confirm" /\ OnWire(p, p)) /\ UNCHANGED pub

\* One of the handlers that still run for an event on the closed channel ends.
StaleEnds(p, e) ==
  /\ e \in stale[p]
  /\ stale' \in {stale, [stale EXCEPT ![p] = @ \ {e}]}
  /\ handled' \in {handled, handled \cup {e}}
  /\ UNCHANGED <<rows, pub, channel, broker, slot, thrown, faults>>

Crash(p) ==
  /\ Close(p)
  /\ stale' = [stale EXCEPT ![p] = {}]
  /\ StopBatch(p)

\* connectWithRetry, by the reconnect timer or the next getChannel, asserts the
\* topology and starts the registered consumer again.
Reconnect(p) ==
  /\ p \notin up
  /\ up' = up \cup {p}
  /\ UNCHANGED <<rows, pub, wire, cancelled, broker, handlers, faults>>

\* The null message of a cancelled consumer is ignored.
ConsumerCancelled(p) ==
  /\ p \in up \ cancelled
  /\ Fault
  /\ cancelled' = cancelled \cup {p}
  /\ UNCHANGED <<rows, pub, wire, up, broker, handlers>>

-----------------------------------------------------------------------------

PublishBatch(p) ==
  \/ Poll(p) \/ \E e \in Events : Publish(p, e)
  \/ PublishConfirmed(p) \/ PublishFails(p) \/ Mark(p) \/ MarkFails(p)

Consume(s) ==
  \/ HandlerReturns(s) \/ HandlerThrows(s)
  \/ ReplacementConfirmed(s) \/ ReplacementFails(s) \/ Acked(s)

MsgNext ==
  \/ \E e \in Events : Enqueue(e)
  \/ \E p \in Processes :
       \/ PublishBatch(p) \/ BrokerTakes(p) \/ Reconnect(p)
       \/ ChannelLost(p) \/ Crash(p) \/ ConsumerCancelled(p)
       \/ \E e \in Events : StaleEnds(p, e)
  \/ \E s \in Slots : Deliver(s) \/ Consume(s)

MsgSpec == MsgInit /\ [][MsgNext]_msgVars

\* Timers fire, promises settle and the broker keeps working; how often a handler
\* throws is left open.
MsgFairSpec ==
  /\ MsgSpec
  /\ \A p \in Processes :
       /\ WF_msgVars(PublishBatch(p))
       /\ WF_msgVars(BrokerTakes(p))
       /\ WF_msgVars(Reconnect(p))
  /\ \A s \in Slots : WF_msgVars(Deliver(s)) /\ WF_msgVars(Consume(s))

-----------------------------------------------------------------------------
(* Properties. *)

Holds(s, e) == slot[s].phase # "free" /\ slot[s].copy.event = e
Queued(e) == \E c \in Copy : c.event = e /\ queue[c] > 0

\* A row marked published is never lost: its event is handled or dead-lettered,
\* or the broker still has a copy, queued or not acked.  A confirm that has not
\* come, a copy on the wire or a running handler is not enough.
NothingLost ==
  \A e \in published :
    e \in handled \cup dead \/ Queued(e) \/ \E s \in Slots : Holds(s, e)

\* Each retry was earned: a copy with retry count n exists only after a handler
\* threw at every count below n, and a dead letter only after it threw at every
\* count up to the limit; requeues, duplicates and lost channels use up none.
RetriesEarned ==
  LET Earned(e, n) == 0..(n - 1) \subseteq thrown[e] IN
  /\ \A c \in Copy : queue[c] > 0 => Earned(c.event, c.retries)
  /\ \A s \in Slots : slot[s].phase # "free" => Earned(slot[s].copy.event, slot[s].copy.retries)
  /\ \A e \in dead : Earned(e, MaxRetries + 1)

\* How many copies of an event are queued, with a running handler or on a wire.
CopiesOf(e) ==
  LET queued == SumOver(queue, {c \in Copy : c.event = e})
      running == {s \in Slots : slot[s].phase = "handle" /\ slot[s].copy.event = e}
      sent == [p \in Processes |-> Cardinality({i \in DOMAIN wire[p] : wire[p][i].copy.event = e})]
  IN queued + Cardinality(running) + SumOver(sent, Processes)

\* Where nothing fails but handlers, an event is in the system at most once per
\* publishing process: retries replace copies, overlapping polls of one process
\* publish no row twice, and only replicas read each other's rows.
PublishedOncePerProcess ==
  faults = 0 => \A e \in Events : CopiesOf(e) <= Cardinality(Processes)

\* Every committed row's event is handled or dead-lettered in the end, though
\* connections drop, confirms are late and processes restart, unless the broker
\* has cancelled every process's consumer.
EveryRowEnds ==
  \A e \in Events : e \in enqueued ~> e \in handled \cup dead \/ Processes \subseteq cancelled
=============================================================================
