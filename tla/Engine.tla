------------------------------- MODULE Engine --------------------------------
(***************************************************************************)
(* Execution and Messaging put together: from the accepted quote to the     *)
(* settled conversion.  Messaging leaves open what a handler does and       *)
(* Execution how often a message comes and what becomes of its failures;    *)
(* here the delivery a slot of the channel holds is the one a worker        *)
(* handles, and the message is acknowledged or replaced as that worker's    *)
(* delivery ends.                                                           *)
(*                                                                         *)
(* A worker whose channel is lost runs on, and its end goes unheard; a      *)
(* worker whose process has crashed is an open connection of the database,  *)
(* which rolls back, or still carries out the last statement it was sent.   *)
(***************************************************************************)
EXTENDS Integers, Sequences, FiniteSets

CONSTANTS
  Quotes, Conversions, Events, Wallets, Terms, Initial,  \* as in Store
  Workers, Prunable,                                     \* as in Execution
  CreatedAt, Processes, Slots, Host, BatchSize,          \* as in Messaging
  MaxRetries, MaxFaults,
  None

VARIABLES
  quote, conversion, outbox, available, reserved, balance, lock,
  processed, exchange, opened, stage, task, result, fresh,
  published, pub, wire, up, cancelled, queue, dead, slot, stale, handled, thrown, faults,
  owner   \* the slot a worker's delivery came from, the process whose channel
          \* it has lost, or None

X == INSTANCE Execution WITH Keys <- {}, Sessions <- Workers, Strays <- {}

Enqueued == {e \in Events : outbox[e] # None}
M == INSTANCE Messaging WITH enqueued <- Enqueued

\* What the two modules assume of their constants.
ASSUME StoreAssumption ==
  /\ Terms \in [Quotes -> X!QuoteTerms]
  /\ \A q \in Quotes : Terms[q].source # Terms[q].target
  /\ Initial \in [Wallets -> Nat]
  /\ IsFiniteSet(Conversions)
  /\ Prunable \subseteq Events
ASSUME BrokerAssumption ==
  /\ CreatedAt \in [Events -> Nat]
  /\ Host \in [Slots -> Processes]
  /\ BatchSize \in Nat \ {0} /\ MaxRetries \in Nat /\ MaxFaults \in Nat
  /\ IsFiniteSet(Processes) /\ IsFiniteSet(Slots)
ASSUME NamesAssumption ==
  /\ Quotes \cap (Wallets \cup Events) = {} /\ Wallets \cap Events = {}
  /\ Processes \cap Slots = {}
  /\ None \notin Quotes \cup Conversions \cup Events \cup Workers \cup Processes \cup Slots \cup Nat
  /\ None \notin X!Message \cup X!Outcome

execution == <<quote, conversion, outbox, available, reserved, balance, lock,
               processed, exchange, opened, stage, task, result, fresh>>
messaging == <<published, pub, wire, up, cancelled, queue, dead, slot, stale, handled,
               thrown, faults>>
engineVars == <<execution, messaging, owner>>

EngineInit ==
  /\ X!ExecInit
  /\ M!MsgInit
  /\ owner = [w \in Workers |-> None]

Settled(e) == outbox[e] # None /\ conversion[outbox[e]].status \in X!TerminalStatus

-----------------------------------------------------------------------------
(* Steps of one side. *)

Accept(q, c, e) ==
  /\ X!Accept(q, c, e)
  /\ M!Enqueue(e)
  /\ UNCHANGED owner

Prune(e) ==
  /\ X!Prune(e)
  /\ UNCHANGED <<messaging, owner>>

Publisher(p) ==
  /\ UNCHANGED <<execution, owner>>
  /\ M!PublishBatch(p)

Broker(p) ==
  /\ UNCHANGED <<execution, owner>>
  /\ M!BrokerTakes(p) \/ M!ConsumerCancelled(p)

Reconnect(p) ==
  /\ UNCHANGED <<execution, owner>>
  /\ M!Reconnect(p)

\* What follows the end of a handler.
Reply(s) ==
  /\ UNCHANGED <<execution, owner>>
  /\ M!ReplacementConfirmed(s) \/ M!ReplacementFails(s) \/ M!Acked(s)

Work(w) ==
  /\ owner[w] # None
  /\ X!Handle(w)
  /\ stage'[w] # "idle"
  /\ UNCHANGED <<messaging, owner>>

-----------------------------------------------------------------------------
(* A delivery starts and ends. *)

Deliver(s, w, e) ==
  /\ \E m \in X!Published : m.event = e /\ X!Deliver(w, m)
  /\ M!Deliver(s)
  /\ slot'[s].copy.event = e
  /\ owner' = [owner EXCEPT ![w] = s]

\* The handler's promise resolves: the event is taken for handled.
Returns(w) ==
  /\ owner[w] # None
  /\ X!Exists(w) \/ X!Repair(w) \/ X!Claim(w) \/ X!Settle(w)
  /\ stage'[w] = "idle"
  /\ \/ owner[w] \in Slots /\ M!HandlerReturns(owner[w])
     \/ owner[w] \in Processes /\ M!StaleEnds(owner[w], task[w].event)
  /\ task[w].event \in handled'

\* It rejects: a foreign payload, a failure, or a commit whose acknowledgement is
\* lost.
Throws(w) ==
  /\ owner[w] # None
  /\ X!Mark(w) \/ X!Fail(w) \/ X!DeadlockVictim(w) \/ X!Repair(w) \/ X!Settle(w)
  /\ stage'[w] = "idle"
  /\ \/ owner[w] \in Slots /\ M!HandlerThrows(owner[w])
     \/ owner[w] \in Processes /\ M!StaleEnds(owner[w], task[w].event)
  /\ handled' = handled

\* A process stays listed for an event while one of its stale handlers has it.
Outlived(w) ==
  \E v \in Workers \ {w} : owner[v] = owner[w] /\ task[v].event = task[w].event

End(w) ==
  /\ Returns(w) \/ Throws(w)
  /\ owner[w] \in Processes => (task[w].event \in stale'[owner[w]] <=> Outlived(w))
  /\ owner' = [owner EXCEPT ![w] = None]

-----------------------------------------------------------------------------
(* Channels and processes fail. *)

ChannelLost(p) ==
  /\ UNCHANGED execution
  /\ M!ChannelLost(p)
  /\ owner' = [w \in Workers |-> IF owner[w] \in M!HostedAt(p) THEN p ELSE owner[w]]

Crash(p) ==
  /\ UNCHANGED execution
  /\ M!Crash(p)
  /\ owner' = [w \in Workers |-> IF owner[w] \in M!HostedAt(p) \cup {p} THEN None ELSE owner[w]]

\* What the database does with the connection of a process that is gone.
ConnectionDies(w) ==
  /\ owner[w] = None
  /\ X!Fail(w) \/ X!Repair(w) \/ X!Settle(w)
  /\ UNCHANGED <<messaging, owner>>

-----------------------------------------------------------------------------

EngineNext ==
  \/ \E q \in Quotes, c \in Conversions, e \in Events : Accept(q, c, e)
  \/ \E e \in Prunable : Prune(e)
  \/ \E p \in Processes :
       Publisher(p) \/ Broker(p) \/ Reconnect(p) \/ ChannelLost(p) \/ Crash(p)
  \/ \E s \in Slots : Reply(s) \/ \E w \in Workers, e \in Events : Deliver(s, w, e)
  \/ \E w \in Workers : Work(w) \/ End(w) \/ ConnectionDies(w)

EngineSpec == EngineInit /\ [][EngineNext]_engineVars

\* The fairness of the two sides; a handler goes on until it returns or throws,
\* and a transaction has a timeout.
EngineFairSpec ==
  /\ EngineSpec
  /\ \A p \in Processes :
       /\ WF_engineVars(Publisher(p))
       /\ WF_engineVars(UNCHANGED <<execution, owner>> /\ M!BrokerTakes(p))
       /\ WF_engineVars(Reconnect(p))
  /\ \A s \in Slots :
       /\ WF_engineVars(Reply(s))
       /\ WF_engineVars(\E w \in Workers, e \in Events : Deliver(s, w, e))
  /\ \A w \in Workers : WF_engineVars(Work(w) \/ End(w)) /\ WF_engineVars(ConnectionDies(w))

-----------------------------------------------------------------------------
(* Properties. *)

\* An event is acknowledged as handled only when its conversion has ended: a
\* handler that finds a marker, loses a race or repairs one has seen the end that
\* another delivery committed.
HandledIsSettled == \A e \in handled : Settled(e)

\* Funds are never held for a conversion that nobody will execute: while it has
\* no end, its event is still to be published, or the broker has it, or it is in
\* the dead-letter queue for an operator to see.
NoHoldForgotten ==
  \A c \in X!InStatus({"FUNDS_RESERVED", "EXECUTION_REQUESTED"}) :
    LET e == conversion[c].event IN
    \/ e \notin published \/ e \in dead \/ M!Queued(e)
    \/ \E s \in Slots : M!Holds(s, e)

\* An accepted conversion ends, whatever channels, processes, confirms and
\* transactions fail on the way, unless its retries are used up or the broker
\* has cancelled every consumer.
AcceptedConversionEnds ==
  \A e \in Events :
    e \in Enqueued ~> Settled(e) \/ e \in dead \/ Processes \subseteq cancelled
=============================================================================
