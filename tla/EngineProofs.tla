----------------------------- MODULE EngineProofs -----------------------------
(***************************************************************************)
(* The engine is an execution and a messaging running side by side, so what *)
(* is proved of each holds in it; and what neither says alone: an event is  *)
(* acknowledged as handled only when its conversion has ended, and no hold  *)
(* is forgotten.                                                            *)
(*                                                                         *)
(* The theorems about Execution and Messaging are brought in by XP and MP,  *)
(* whose definitions are those of X and M once more.                        *)
(***************************************************************************)
EXTENDS Engine, TLAPS

XP == INSTANCE ExecutionProofs WITH Keys <- {}, Sessions <- Workers, Strays <- {}
MP == INSTANCE MessagingProofs WITH enqueued <- Enqueued

-----------------------------------------------------------------------------
(* What the theorems about the two sides say here.                           *)

LEMMA SameExecution == X!ExecSpec <=> XP!ExecSpec
BY PTL
DEF X!ExecNext, X!Accept, X!Free, X!CanReserve, X!AcceptRows, X!CanInsert, X!MarkAccepted,
    X!InsertConversion, X!EnqueueEvent, X!ReserveFunds, X!Published, X!Deliver, X!Prune,
    X!Goto, X!Finish, X!Exists, X!OutcomeOf, X!StatusOf, X!Markable, X!Matches, X!Mark,
    X!Repair, X!RecordOutcome, X!Exchange, X!TermsOf, X!Claim, X!Moves, X!Applicable,
    X!Read, X!LockSource, X!LockTarget, X!CommitAndCredit, X!Conflicts, X!OpenTarget,
    X!HasRow, X!CommitInserts, X!ReleaseHold, X!Settle, X!Rollback, X!Fail, X!Wanted,
    X!Deadlocked, X!DeadlockVictim, X!Handle, X!Acquire, X!ReleaseLocks, X!tables,
    X!wallets, X!work, X!TerminalStatus, X!Outcome, X!Row, X!execVars, X!ExecSpec,
    X!ExecInit, X!NoQuoteRow, X!NoConversionRow, XP!ExecNext, XP!Accept, XP!Free,
    XP!CanReserve, XP!AcceptRows, XP!CanInsert, XP!MarkAccepted, XP!InsertConversion,
    XP!EnqueueEvent, XP!ReserveFunds, XP!Published, XP!Deliver, XP!Prune, XP!Goto,
    XP!Finish, XP!Exists, XP!OutcomeOf, XP!StatusOf, XP!Markable, XP!Matches, XP!Mark,
    XP!Repair, XP!RecordOutcome, XP!Exchange, XP!TermsOf, XP!Claim, XP!Moves,
    XP!Applicable, XP!Read, XP!LockSource, XP!LockTarget, XP!CommitAndCredit, XP!Conflicts,
    XP!OpenTarget, XP!HasRow, XP!CommitInserts, XP!ReleaseHold, XP!Settle, XP!Rollback,
    XP!Fail, XP!Wanted, XP!Deadlocked, XP!DeadlockVictim, XP!Handle, XP!Acquire,
    XP!ReleaseLocks, XP!tables, XP!wallets, XP!work, XP!TerminalStatus, XP!Outcome, XP!Row,
    XP!execVars, XP!ExecSpec, XP!ExecInit, XP!NoQuoteRow, XP!NoConversionRow

LEMMA SameExecutionStep == [X!ExecNext]_(X!execVars) => [XP!ExecNext]_(XP!execVars)
BY
DEF X!ExecNext, X!Accept, X!Free, X!CanReserve, X!AcceptRows, X!CanInsert, X!MarkAccepted,
    X!InsertConversion, X!EnqueueEvent, X!ReserveFunds, X!Published, X!Deliver, X!Prune,
    X!Goto, X!Finish, X!Exists, X!OutcomeOf, X!StatusOf, X!Markable, X!Matches, X!Mark,
    X!Repair, X!RecordOutcome, X!Exchange, X!TermsOf, X!Claim, X!Moves, X!Applicable,
    X!Read, X!LockSource, X!LockTarget, X!CommitAndCredit, X!Conflicts, X!OpenTarget,
    X!HasRow, X!CommitInserts, X!ReleaseHold, X!Settle, X!Rollback, X!Fail, X!Wanted,
    X!Deadlocked, X!DeadlockVictim, X!Handle, X!Acquire, X!ReleaseLocks, X!tables,
    X!wallets, X!work, X!TerminalStatus, X!Outcome, X!Row, X!execVars, XP!ExecNext,
    XP!Accept, XP!Free, XP!CanReserve, XP!AcceptRows, XP!CanInsert, XP!MarkAccepted,
    XP!InsertConversion, XP!EnqueueEvent, XP!ReserveFunds, XP!Published, XP!Deliver,
    XP!Prune, XP!Goto, XP!Finish, XP!Exists, XP!OutcomeOf, XP!StatusOf, XP!Markable,
    XP!Matches, XP!Mark, XP!Repair, XP!RecordOutcome, XP!Exchange, XP!TermsOf, XP!Claim,
    XP!Moves, XP!Applicable, XP!Read, XP!LockSource, XP!LockTarget, XP!CommitAndCredit,
    XP!Conflicts, XP!OpenTarget, XP!HasRow, XP!CommitInserts, XP!ReleaseHold, XP!Settle,
    XP!Rollback, XP!Fail, XP!Wanted, XP!Deadlocked, XP!DeadlockVictim, XP!Handle,
    XP!Acquire, XP!ReleaseLocks, XP!tables, XP!wallets, XP!work, XP!TerminalStatus,
    XP!Outcome, XP!Row, XP!execVars

LEMMA SameMessaging == M!MsgSpec <=> MP!MsgSpec
BY PTL
DEF M!MsgSpec, M!Cardinality, M!MsgInit, M!MsgNext, M!Copy, M!IdlePublisher, M!FreeSlot,
    M!Fault, M!Send, M!OnWire, M!Confirmed, M!GiveUp, M!BrokerTakes, M!Enqueue, M!SetPub,
    M!StopBatch, M!Idle, M!Poll, M!Publish, M!PublishConfirmed, M!PublishFails, M!Mark,
    M!MarkFails, M!SetSlot, M!Deliver, M!HandlerReturns, M!Replacement, M!HandlerThrows,
    M!ReplacementConfirmed, M!ReplacementFails, M!Acked, M!HostedAt, M!Requeue, M!Close,
    M!ChannelLost, M!StaleEnds, M!Crash, M!Reconnect, M!ConsumerCancelled, M!PublishBatch,
    M!Consume, M!rows, M!channel, M!broker, M!handlers, M!msgVars, MP!MsgSpec,
    MP!Cardinality, MP!MsgInit, MP!MsgNext, MP!Copy, MP!IdlePublisher, MP!FreeSlot,
    MP!Fault, MP!Send, MP!OnWire, MP!Confirmed, MP!GiveUp, MP!BrokerTakes, MP!Enqueue,
    MP!SetPub, MP!StopBatch, MP!Idle, MP!Poll, MP!Publish, MP!PublishConfirmed,
    MP!PublishFails, MP!Mark, MP!MarkFails, MP!SetSlot, MP!Deliver, MP!HandlerReturns,
    MP!Replacement, MP!HandlerThrows, MP!ReplacementConfirmed, MP!ReplacementFails,
    MP!Acked, MP!HostedAt, MP!Requeue, MP!Close, MP!ChannelLost, MP!StaleEnds, MP!Crash,
    MP!Reconnect, MP!ConsumerCancelled, MP!PublishBatch, MP!Consume, MP!rows, MP!channel,
    MP!broker, MP!handlers, MP!msgVars

LEMMA ExecutionInvariant == X!ExecSpec => []XP!ExecInv
<1>1. XP!ExecSpec => []XP!ExecInv
  BY XP!ExecInvariance, StoreAssumption, NamesAssumption
  DEF IsFiniteSet, XP!IsFiniteSet, X!QuoteTerms, XP!QuoteTerms, X!Message, XP!Message,
      X!Outcome, XP!Outcome
<1>. QED
  BY <1>1, SameExecution, PTL

LEMMA MessagingInvariant == M!MsgSpec => [](MP!MsgTypeOK /\ MP!NothingLost)
<1>1. MP!MsgSpec => []MP!MsgTypeOK
  BY MP!MsgTypeCorrect, BrokerAssumption, NamesAssumption DEF IsFiniteSet, MP!IsFiniteSet
<1>2. MP!MsgSpec => []MP!NothingLost
  BY MP!PublishedNeverLost, BrokerAssumption, NamesAssumption DEF IsFiniteSet, MP!IsFiniteSet
<1>. QED
  BY <1>1, <1>2, SameMessaging, PTL

-----------------------------------------------------------------------------
(* Each step of the engine is a step of either side, or leaves it alone.     *)

\* What a worker does to its delivery, and leaves alone otherwise.
WorkerSteps(w) == X!Handle(w) \/ X!Fail(w) \/ X!DeadlockVictim(w)

LEMMA WorkerRows ==
  ASSUME NEW w \in Workers, WorkerSteps(w)
  PROVE  UNCHANGED outbox
BY DEF WorkerSteps, X!Handle, X!Exists, X!Mark, X!Repair, X!Exchange, X!Claim, X!Read,
       X!LockSource, X!OpenTarget, X!LockTarget, X!Settle, X!Fail, X!DeadlockVictim, X!Rollback, X!tables

LEMMA StepExecution ==
  ASSUME [EngineNext]_engineVars
  PROVE  [X!ExecNext]_(X!execVars)
<1>1. UNCHANGED execution => UNCHANGED X!execVars
  BY DEF execution, X!execVars, X!tables, X!wallets, X!work
<1>2. ASSUME NEW w \in Workers, WorkerSteps(w) PROVE X!ExecNext
  BY <1>2 DEF WorkerSteps, X!ExecNext
<1>3. ASSUME NEW w \in Workers, Work(w) \/ End(w) \/ ConnectionDies(w) PROVE WorkerSteps(w)
  BY <1>3 DEF Work, End, Returns, Throws, ConnectionDies, WorkerSteps, X!Handle
<1>4. ASSUME NEW q \in Quotes, NEW c \in Conversions, NEW e \in Events, Accept(q, c, e)
      PROVE  X!ExecNext
  BY <1>4 DEF Accept, X!ExecNext
<1>5. ASSUME NEW e \in Prunable, Prune(e) PROVE X!ExecNext
  BY <1>5 DEF Prune, X!ExecNext
<1>6. ASSUME NEW s \in Slots, NEW w \in Workers, NEW e \in Events, Deliver(s, w, e)
      PROVE  X!ExecNext
  BY <1>6 DEF Deliver, X!ExecNext
<1>7. ASSUME NEW p \in Processes,
             Publisher(p) \/ Broker(p) \/ Reconnect(p) \/ ChannelLost(p) \/ Crash(p)
      PROVE  UNCHANGED execution
  BY <1>7 DEF Publisher, Broker, Reconnect, ChannelLost, Crash
<1>8. ASSUME NEW s \in Slots, Reply(s) PROVE UNCHANGED execution
  BY <1>8 DEF Reply
<1>9. UNCHANGED engineVars => UNCHANGED execution
  BY DEF engineVars
<1>. QED
  BY <1>1, <1>2, <1>3, <1>4, <1>5, <1>6, <1>7, <1>8, <1>9 DEF EngineNext

LEMMA WorkerBusy ==
  ASSUME NEW w \in Workers, WorkerSteps(w)
  PROVE  stage[w] # "idle"
<1>1. X!Handle(w) \/ X!Fail(w) => stage[w] # "idle"
  BY DEF X!Handle, X!Exists, X!Mark, X!Repair, X!Exchange, X!Claim, X!Read, X!LockSource,
         X!OpenTarget, X!LockTarget, X!Settle, X!Fail
<1>2. X!DeadlockVictim(w) => X!Wanted(w) # None
  BY DEF X!DeadlockVictim, X!Deadlocked
<1>3. stage[w] = "idle" => X!Wanted(w) = None
  BY DEF X!Wanted
<1>. QED
  BY <1>1, <1>2, <1>3 DEF WorkerSteps

LEMMA StepMessaging ==
  ASSUME XP!ExecInv, [EngineNext]_engineVars
  PROVE  [M!MsgNext]_(M!msgVars)
<1>1. ASSUME UNCHANGED <<outbox, messaging>> PROVE UNCHANGED M!msgVars
  <2>1. Enqueued' = Enqueued
    BY <1>1 DEF Enqueued
  <2>. QED
    BY <1>1, <2>1 DEF messaging, M!msgVars, M!rows, M!channel, M!broker, M!handlers
<1>2. ASSUME NEW w \in Workers, Work(w) \/ ConnectionDies(w)
      PROVE  UNCHANGED <<outbox, messaging>>
  BY <1>2, WorkerRows DEF Work, ConnectionDies, WorkerSteps, X!Handle
<1>3. ASSUME NEW w \in Workers, End(w) PROVE M!MsgNext
  <2>1. CASE owner[w] \in Slots /\ (M!HandlerReturns(owner[w]) \/ M!HandlerThrows(owner[w]))
    BY <2>1 DEF M!MsgNext, M!Consume
  <2>2. CASE owner[w] \in Processes /\ M!StaleEnds(owner[w], task[w].event)
    <3>1. stage[w] # "idle"
      BY <1>3, WorkerBusy DEF End, Returns, Throws, WorkerSteps, X!Handle
    <3>2. task[w].event \in Events
      BY <3>1 DEF XP!ExecInv, XP!ExecTypeOK, XP!Message
    <3>. QED
      BY <2>2, <3>2 DEF M!MsgNext
  <2>. QED
    BY <1>3, <2>1, <2>2 DEF End, Returns, Throws
<1>4. ASSUME NEW q \in Quotes, NEW c \in Conversions, NEW e \in Events, Accept(q, c, e)
      PROVE  M!MsgNext
  BY <1>4 DEF Accept, M!MsgNext
<1>5. ASSUME NEW e \in Prunable, Prune(e) PROVE UNCHANGED <<outbox, messaging>>
  BY <1>5 DEF Prune, X!Prune, X!tables
<1>6. ASSUME NEW s \in Slots, NEW w \in Workers, NEW e \in Events, Deliver(s, w, e)
      PROVE  M!MsgNext
  BY <1>6 DEF Deliver, M!MsgNext
<1>7. ASSUME NEW p \in Processes,
             Publisher(p) \/ Broker(p) \/ Reconnect(p) \/ ChannelLost(p) \/ Crash(p)
      PROVE  M!MsgNext
  BY <1>7 DEF Publisher, Broker, Reconnect, ChannelLost, Crash, M!MsgNext
<1>8. ASSUME NEW s \in Slots, Reply(s) PROVE M!MsgNext
  BY <1>8 DEF Reply, M!MsgNext, M!Consume
<1>9. UNCHANGED engineVars => UNCHANGED <<outbox, messaging>>
  BY DEF engineVars, execution
<1>. QED
  BY <1>1, <1>2, <1>3, <1>4, <1>5, <1>6, <1>7, <1>8, <1>9 DEF EngineNext

\* The engine executes conversions as Execution says.
THEOREM EngineRunsExecution == EngineSpec => X!ExecSpec
<1>1. EngineInit => X!ExecInit
  BY DEF EngineInit
<1>2. [EngineNext]_engineVars => [X!ExecNext]_(X!execVars)
  BY StepExecution
<1>. QED
  BY <1>1, <1>2, PTL DEF EngineSpec, X!ExecSpec

\* The engine's publisher, channels and consumers are those of Messaging, with
\* handlers that return and throw as the execution does.
THEOREM EngineRunsMessaging == EngineSpec => M!MsgSpec
<1>1. EngineInit => M!MsgInit
  BY DEF EngineInit
<1>2. XP!ExecInv /\ [EngineNext]_engineVars => [M!MsgNext]_(M!msgVars)
  BY StepMessaging
<1>. QED
  BY <1>1, <1>2, EngineRunsExecution, ExecutionInvariant, PTL DEF EngineSpec, M!MsgSpec

LEMMA SidesInvariant ==
  EngineSpec => [](XP!ExecInv /\ MP!MsgTypeOK /\ MP!NothingLost)
BY EngineRunsExecution, EngineRunsMessaging, ExecutionInvariant, MessagingInvariant, PTL

-----------------------------------------------------------------------------
(* The worker and the slot it works for.                                     *)

\* A slot that waits for its handler has one worker, which handles its event.
Owned(w) ==
  owner[w] \in Slots =>
    /\ slot[owner[w]].phase = "handle"
    /\ slot[owner[w]].copy.event = task[w].event

OwnersAgree ==
  /\ owner \in [Workers -> Slots \cup Processes \cup {None}]
  /\ \A w \in Workers : Owned(w)
  /\ \A v, w \in Workers : owner[v] = owner[w] /\ owner[v] \in Slots => v = w

\* A worker's step leaves the others' deliveries alone, and its own unless it
\* ends it.
LEMMA WorkerTasks ==
  ASSUME XP!ExecInv, NEW w \in Workers, WorkerSteps(w)
  PROVE  /\ \A v \in Workers \ {w} : task'[v] = task[v]
         /\ stage'[w] # "idle" => task'[w] = task[w]
<1>1. stage \in [Workers -> XP!Stage] /\ task \in [Workers -> XP!Message \cup {None}]
  BY DEF XP!ExecInv, XP!ExecTypeOK
<1>2. UNCHANGED task \/ X!Finish(w)
  BY DEF WorkerSteps, X!Handle, X!Exists, X!Mark, X!Repair, X!Exchange, X!Claim, X!Read,
         X!LockSource, X!OpenTarget, X!LockTarget, X!Settle, X!Fail, X!DeadlockVictim, X!Rollback
<1>. QED
  BY <1>1, <1>2 DEF X!Finish

\* Steps in which neither workers change hands nor slots with a handler change.
LEMMA OwnersStay ==
  ASSUME OwnersAgree, UNCHANGED owner,
         \A w \in Workers : owner[w] \in Slots => task'[w] = task[w],
         \A s \in Slots : slot[s].phase = "handle" => slot'[s] = slot[s]
  PROVE  OwnersAgree'
BY DEF OwnersAgree, Owned

LEMMA DeliverOwners ==
  ASSUME XP!ExecInv, MP!MsgTypeOK, OwnersAgree,
         NEW s \in Slots, NEW w \in Workers, NEW e \in Events, Deliver(s, w, e)
  PROVE  OwnersAgree'
<1>1. slot[s].phase = "free" /\ \A v \in Workers : owner[v] # s
  BY DEF Deliver, M!Deliver, OwnersAgree, Owned
<1>2. PICK m \in X!Published : m.event = e /\ X!Deliver(w, m)
  BY DEF Deliver
<1>3. PICK c \in M!Copy : M!SetSlot(s, "handle", c)
  BY DEF Deliver, M!Deliver
<1>4. /\ slot'[s].phase = "handle" /\ slot'[s].copy.event = e
      /\ \A t \in Slots \ {s} : slot'[t] = slot[t]
  BY <1>3 DEF Deliver, M!SetSlot, MP!MsgTypeOK
<1>5. task'[w].event = e /\ \A v \in Workers \ {w} : task'[v] = task[v]
  BY <1>2 DEF X!Deliver, XP!ExecInv, XP!ExecTypeOK
<1>6. owner' = [owner EXCEPT ![w] = s]
  BY DEF Deliver
<1>7. owner'[w] = s /\ \A v \in Workers \ {w} : owner'[v] = owner[v]
  BY <1>6 DEF OwnersAgree
<1>8. owner' \in [Workers -> Slots \cup Processes \cup {None}]
  BY <1>6 DEF OwnersAgree
<1>9. ASSUME NEW v \in Workers PROVE Owned(v)'
  <2>1. CASE v = w
    BY <1>4, <1>5, <1>7, <2>1 DEF Owned
  <2>2. CASE v # w
    BY <1>1, <1>4, <1>5, <1>7, <2>2 DEF OwnersAgree, Owned
  <2>. QED
    BY <2>1, <2>2
<1>10. \A v, u \in Workers : owner'[v] = owner'[u] /\ owner'[v] \in Slots => v = u
  BY <1>1, <1>7 DEF OwnersAgree
<1>. QED
  BY <1>8, <1>9, <1>10 DEF OwnersAgree

LEMMA EndOwners ==
  ASSUME XP!ExecInv, MP!MsgTypeOK, OwnersAgree, NEW w \in Workers, End(w)
  PROVE  OwnersAgree'
<1>1. WorkerSteps(w)
  BY DEF End, Returns, Throws, WorkerSteps, X!Handle
<1>2. \A v \in Workers \ {w} : task'[v] = task[v]
  BY <1>1, WorkerTasks
<1>3. owner' = [owner EXCEPT ![w] = None]
  BY DEF End
<1>4. owner'[w] = None /\ \A v \in Workers \ {w} : owner'[v] = owner[v]
  BY <1>3 DEF OwnersAgree
<1>5. owner' \in [Workers -> Slots \cup Processes \cup {None}]
  BY <1>3 DEF OwnersAgree
<1>6. \A s \in Slots : s # owner[w] => slot'[s] = slot[s]
  BY DEF End, Returns, Throws, M!HandlerReturns, M!HandlerThrows, M!StaleEnds, M!SetSlot, MP!MsgTypeOK
<1>7. None \notin Slots
  BY NamesAssumption
<1>8. ASSUME NEW v \in Workers, owner'[v] \in Slots
      PROVE  v # w /\ owner'[v] = owner[v] /\ owner[v] # owner[w]
  BY <1>4, <1>7, <1>8 DEF OwnersAgree
<1>9. \A v \in Workers : Owned(v)'
  BY <1>2, <1>6, <1>8 DEF OwnersAgree, Owned
<1>10. \A v, u \in Workers : owner'[v] = owner'[u] /\ owner'[v] \in Slots => v = u
  BY <1>8 DEF OwnersAgree
<1>. QED
  BY <1>5, <1>9, <1>10 DEF OwnersAgree

\* A channel or process that goes takes its workers' slots with it.
LEMMA LostOwners ==
  ASSUME MP!MsgTypeOK, OwnersAgree, NEW p \in Processes, ChannelLost(p) \/ Crash(p)
  PROVE  OwnersAgree'
<1>1. p \notin Slots /\ None \notin Slots
  BY NamesAssumption
<1>2. ASSUME NEW w \in Workers
      PROVE  \/ owner'[w] \in {p, None}
             \/ owner'[w] = owner[w] /\ owner[w] \notin M!HostedAt(p)
  BY DEF ChannelLost, Crash
<1>3. UNCHANGED task /\ M!Close(p)
  BY DEF ChannelLost, Crash, execution, M!ChannelLost, M!Crash
<1>4. \A s \in Slots : s \notin M!HostedAt(p) => slot'[s] = slot[s]
  BY <1>3 DEF M!Close, M!HostedAt
<1>5. owner' \in [Workers -> Slots \cup Processes \cup {None}]
  BY DEF ChannelLost, Crash, OwnersAgree
<1>6. ASSUME NEW w \in Workers, owner'[w] \in Slots
      PROVE  owner'[w] = owner[w] /\ owner[w] \notin M!HostedAt(p)
  BY <1>1, <1>2, <1>6
<1>. QED
  BY <1>3, <1>4, <1>5, <1>6 DEF OwnersAgree, Owned

LEMMA StepOwners ==
  ASSUME XP!ExecInv, MP!MsgTypeOK, OwnersAgree, [EngineNext]_engineVars
  PROVE  OwnersAgree'
<1>1. ASSUME UNCHANGED <<owner, task, slot>> PROVE OwnersAgree'
  BY <1>1, OwnersStay
<1>2. ASSUME NEW w \in Workers, Work(w) \/ ConnectionDies(w) PROVE OwnersAgree'
  <2>1. WorkerSteps(w) /\ UNCHANGED <<owner, slot>>
    BY <1>2 DEF Work, ConnectionDies, WorkerSteps, X!Handle, messaging
  <2>2. owner[w] \in Slots => task'[w] = task[w]
    BY <1>2, <2>1, WorkerTasks, NamesAssumption DEF Work, ConnectionDies
  <2>. QED
    BY <2>1, <2>2, WorkerTasks, OwnersStay
<1>3. ASSUME NEW q \in Quotes, NEW c \in Conversions, NEW e \in Events, Accept(q, c, e)
      PROVE  UNCHANGED <<owner, task, slot>>
  BY <1>3 DEF Accept, X!Accept, M!Enqueue, X!work, M!handlers
<1>4. ASSUME NEW e \in Prunable, Prune(e) PROVE UNCHANGED <<owner, task, slot>>
  BY <1>4 DEF Prune, X!Prune, X!work, messaging
<1>5. ASSUME NEW p \in Processes, Publisher(p) \/ Broker(p) \/ Reconnect(p)
      PROVE  UNCHANGED <<owner, task, slot>>
  BY <1>5 DEF Publisher, Broker, Reconnect, execution, M!PublishBatch, M!Poll, M!Publish,
     M!PublishConfirmed, M!PublishFails, M!Mark, M!MarkFails, M!BrokerTakes,
     M!ConsumerCancelled, M!Reconnect, M!handlers
<1>6. ASSUME NEW s \in Slots, Reply(s) PROVE OwnersAgree'
  <2>1. UNCHANGED <<owner, task>>
    BY <1>6 DEF Reply, execution
  <2>2. \A t \in Slots : slot[t].phase = "handle" => slot'[t] = slot[t]
    BY <1>6 DEF Reply, M!ReplacementConfirmed, M!ReplacementFails, M!Acked, M!SetSlot, MP!MsgTypeOK
  <2>. QED
    BY <2>1, <2>2, OwnersStay
<1>7. UNCHANGED engineVars => UNCHANGED <<owner, task, slot>>
  BY DEF engineVars, execution, messaging
<1>. QED
  BY <1>1, <1>2, <1>3, <1>4, <1>5, <1>6, <1>7, DeliverOwners, EndOwners, LostOwners DEF EngineNext

-----------------------------------------------------------------------------
(* Handled means settled.                                                    *)

\* A conversion that has ended stays ended, and its event's.
LEMMA SettledStays ==
  ASSUME XP!ExecInv, [EngineNext]_engineVars, NEW e \in Events, Settled(e)
  PROVE  Settled(e)'
<1>1. outbox[e] \in Conversions /\ conversion[outbox[e]].status \in X!TerminalStatus
  BY DEF Settled, XP!ExecInv, XP!ExecTypeOK, XP!StoreTypeOK
<1>2. [XP!ExecNext]_(XP!execVars)
  BY StepExecution, SameExecutionStep
<1>3. XP!SettlesOnceStep
  BY <1>2, XP!StepSettlesOnce, StoreAssumption, NamesAssumption
  DEF IsFiniteSet, XP!IsFiniteSet, X!QuoteTerms, XP!QuoteTerms, X!Message, XP!Message,
      X!Outcome, XP!Outcome
<1>4. conversion'[outbox[e]] = conversion[outbox[e]]
  BY <1>1, <1>3 DEF XP!SettlesOnceStep, X!TerminalStatus, XP!TerminalStatus
<1>5. outbox'[e] = outbox[e]
  <2>1. ASSUME NEW q \in Quotes, NEW c \in Conversions, NEW f \in Events, X!Accept(q, c, f)
        PROVE  outbox'[e] = outbox[e]
    BY <2>1 DEF X!Accept, X!AcceptRows, X!CanInsert, X!EnqueueEvent, Settled
  <2>2. X!ExecNext => \/ UNCHANGED outbox
                      \/ \E q \in Quotes, c \in Conversions, f \in Events : X!Accept(q, c, f)
    BY WorkerRows DEF X!ExecNext, WorkerSteps, X!Deliver, X!Prune, X!tables
  <2>. QED
    BY <2>1, <2>2, StepExecution DEF X!execVars, X!tables
<1>. QED
  BY <1>1, <1>4, <1>5 DEF Settled

\* A handler that returns has found its event's conversion ended, by its marker
\* or its status, or has ended it.
LEMMA ReturnsSettled ==
  ASSUME XP!ExecInv, NEW w \in Workers, Returns(w), NEW e, e = task[w].event
  PROVE  e \in Events /\ Settled(e)'
<1> DEFINE m == task[w]
<1>1. WorkerSteps(w) /\ stage[w] # "idle"
  BY WorkerBusy DEF Returns, WorkerSteps, X!Handle
<1>2. m \in XP!Message /\ m.event = e /\ e \in Events /\ m.conversion \in Conversions
  BY <1>1 DEF XP!ExecInv, XP!ExecTypeOK, XP!Message
<1>3. XP!DeliveryChecks(w) /\ stage \in [Workers -> XP!Stage]
  BY DEF XP!ExecInv, XP!WorkersChecked, XP!ExecTypeOK
<1>4. CASE processed[e] # None /\ UNCHANGED <<conversion, outbox>>
  <2>1. /\ outbox[e] \in Conversions
        /\ conversion[outbox[e]].status = XP!StatusOf(processed[e])
    BY <1>2, <1>4 DEF XP!ExecInv, XP!SettledAsExecuted
  <2>2. outbox[e] # None
    BY <2>1, NamesAssumption
  <2>. QED
    BY <1>2, <1>4, <2>1, <2>2 DEF Settled, X!TerminalStatus, XP!StatusOf
<1>5. ASSUME XP!Matches(m) PROVE outbox[e] = m.conversion /\ m.conversion # None
  <2>1. conversion[m.conversion].status # "NONE" /\ conversion[m.conversion].event = e
    BY <1>5 DEF XP!Matches
  <2>2. outbox[e] = m.conversion
    BY <1>2, <2>1 DEF XP!ExecInv, XP!RowsAgree
  <2>. QED
    BY <1>2, <2>2, NamesAssumption
<1>6. CASE X!Exists(w)
  BY <1>3, <1>4, <1>6 DEF Returns, X!Exists, X!Goto, X!tables
<1>7. CASE X!Repair(w)
  <2>1. XP!Matches(m) /\ conversion[m.conversion].status \in XP!TerminalStatus
    BY <1>3, <1>7 DEF X!Repair, XP!DeliveryChecks
  <2>2. UNCHANGED <<conversion, outbox>>
    BY <1>7 DEF X!Repair, X!tables
  <2>. QED
    BY <1>2, <1>5, <2>1, <2>2 DEF Settled, X!TerminalStatus, XP!TerminalStatus
<1>8. CASE X!Claim(w)
  BY <1>3, <1>4, <1>8 DEF Returns, X!Claim, X!Goto, X!tables
<1>9. CASE X!Settle(w)
  <2>1. XP!Matches(m)
    BY <1>3, <1>9 DEF X!Settle, XP!DeliveryChecks, XP!Settling
  <2>2. /\ conversion' = [conversion EXCEPT ![m.conversion].status = X!StatusOf(result[w])]
        /\ UNCHANGED outbox
    BY <1>9 DEF X!Settle
  <2>3. conversion'[m.conversion].status = X!StatusOf(result[w])
    BY <1>2, <2>2 DEF XP!ExecInv, XP!ExecTypeOK, XP!StoreTypeOK
  <2>4. X!StatusOf(result[w]) \in X!TerminalStatus
    BY DEF X!StatusOf, X!TerminalStatus
  <2>. QED
    BY <1>2, <1>5, <2>1, <2>2, <2>3, <2>4 DEF Settled
<1>. QED
  BY <1>2, <1>6, <1>7, <1>8, <1>9 DEF Returns

LEMMA StepHandled ==
  ASSUME XP!ExecInv, MP!MsgTypeOK, OwnersAgree, HandledIsSettled, [EngineNext]_engineVars
  PROVE  HandledIsSettled'
<1>1. handled \subseteq Events
  BY DEF MP!MsgTypeOK
<1>2. \A e \in handled : Settled(e)'
  BY <1>1, SettledStays DEF HandledIsSettled
<1>3. ASSUME handled' \subseteq handled PROVE HandledIsSettled'
  BY <1>2, <1>3 DEF HandledIsSettled
<1>4. ASSUME NEW w \in Workers, End(w) PROVE HandledIsSettled'
  <2>1. CASE Throws(w)
    BY <1>3, <2>1 DEF Throws
  <2>2. CASE Returns(w)
    <3>1. PICK e : e = task[w].event
      OBVIOUS
    <3>2. handled' \subseteq handled \cup {e}
      BY <2>2, <3>1 DEF Returns, M!HandlerReturns, M!StaleEnds, OwnersAgree, Owned
    <3>3. Settled(e)'
      BY <2>2, <3>1, ReturnsSettled
    <3>. QED
      BY <1>2, <3>2, <3>3 DEF HandledIsSettled
  <2>. QED
    BY <1>4, <2>1, <2>2 DEF End
<1>5. UNCHANGED messaging => UNCHANGED handled
  BY DEF messaging
<1>6. ASSUME NEW q \in Quotes, NEW c \in Conversions, NEW e \in Events, Accept(q, c, e)
      PROVE  UNCHANGED handled
  BY <1>6 DEF Accept, M!Enqueue, M!handlers
<1>7. ASSUME NEW p \in Processes,
             Publisher(p) \/ Broker(p) \/ Reconnect(p) \/ ChannelLost(p) \/ Crash(p)
      PROVE  UNCHANGED handled
  BY <1>7 DEF Publisher, Broker, Reconnect, ChannelLost, Crash, M!PublishBatch, M!Poll, M!Publish,
     M!PublishConfirmed, M!PublishFails, M!Mark, M!MarkFails, M!BrokerTakes,
     M!ConsumerCancelled, M!Reconnect, M!ChannelLost, M!Crash, M!Close, M!handlers
<1>8. ASSUME NEW s \in Slots,
             Reply(s) \/ \E w \in Workers, e \in Events : Deliver(s, w, e)
      PROVE  UNCHANGED handled
  BY <1>8 DEF Reply, Deliver, M!Deliver, M!ReplacementConfirmed, M!ReplacementFails, M!Acked
<1>. QED
  BY <1>3, <1>4, <1>5, <1>6, <1>7, <1>8
  DEF EngineNext, Prune, Work, ConnectionDies, engineVars

EngineInv == OwnersAgree /\ HandledIsSettled

LEMMA EngineInvariance == EngineSpec => []EngineInv
<1>1. EngineInit => EngineInv
  BY NamesAssumption
  DEF EngineInit, EngineInv, OwnersAgree, Owned, HandledIsSettled, M!MsgInit
<1>2. XP!ExecInv /\ MP!MsgTypeOK /\ EngineInv /\ [EngineNext]_engineVars => EngineInv'
  BY StepOwners, StepHandled DEF EngineInv
<1>. QED
  BY <1>1, <1>2, SidesInvariant, PTL DEF EngineSpec

\* Whatever is delivered twice, lost with its channel or left behind by a crash,
\* an event is acknowledged as handled only when its conversion has ended.
THEOREM HandledMeansSettled == EngineSpec => []HandledIsSettled
BY EngineInvariance, PTL DEF EngineInv

-----------------------------------------------------------------------------
(* No hold is forgotten: what the messaging has not lost and no handler has   *)
(* handled is still to come, and what was handled has ended.                 *)

LEMMA HoldsRemembered ==
  XP!ExecInv /\ MP!NothingLost /\ HandledIsSettled => NoHoldForgotten
<1> SUFFICES ASSUME XP!ExecInv, MP!NothingLost, HandledIsSettled,
                    NEW c \in X!InStatus({"FUNDS_RESERVED", "EXECUTION_REQUESTED"})
             PROVE  LET e == conversion[c].event IN
                    \/ e \notin published \/ e \in dead \/ M!Queued(e)
                    \/ \E s \in Slots : M!Holds(s, e)
  BY DEF NoHoldForgotten
<1> DEFINE e == conversion[c].event
<1>1. c \in Conversions /\ conversion[c].status \in {"FUNDS_RESERVED", "EXECUTION_REQUESTED"}
  BY DEF X!InStatus
<1>2. outbox[e] = c
  BY <1>1 DEF XP!ExecInv, XP!RowsAgree
<1>3. e \notin handled
  BY <1>1, <1>2 DEF HandledIsSettled, Settled, X!TerminalStatus
<1>4. e \in published =>
        e \in handled \cup dead \/ MP!Queued(e) \/ \E s \in Slots : MP!Holds(s, e)
  BY DEF MP!NothingLost
<1>. QED
  BY <1>3, <1>4 DEF M!Queued, MP!Queued, M!Holds, MP!Holds, M!Copy, MP!Copy

\* A conversion that still holds funds has an event that is to be published, with
\* the broker or in the dead-letter queue: no fault makes the engine forget it.
THEOREM NoHoldIsForgotten == EngineSpec => []NoHoldForgotten
BY EngineInvariance, SidesInvariant, HoldsRemembered, PTL DEF EngineInv
=============================================================================
