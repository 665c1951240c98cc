# Verification of the wallet conversion engine

TLA+ models of the conversion engine, TLC configurations that check them on small
instances, and TLAPS proofs of the main theorems for every value of the constants.
Paths below are relative to the repository.

## The system

A client asks for a quote (`POST /quotes`), accepts it within 20 s under an
idempotency key (`POST /quotes/{id}/accept`), and the engine later executes the
conversion on an exchange and settles the user's wallets. PostgreSQL holds all
state; RabbitMQ carries one event per conversion.

| Component | State | Operations | Hard part |
|---|---|---|---|
| Quotes (`pricing/`) | `quotes`: status, `expires_at`, `accepted_at` | create; accept once, in time | read without lock, decided again by a conditional UPDATE |
| Accept (`accept-quote.use-case.ts`) | one transaction over five tables | claim key, read and save quote, reserve, insert conversion and outbox row, store response | concurrent requests, rollback, lost responses, retries |
| Idempotency records | `idempotency_records` | tryBegin, find, complete, deleteExpired | claim and completion visible together; retention |
| Wallets (`wallet/`) | `available`, `reserved`, `balance` per user and asset | reserve, release, commitReservation, credit, createIfMissing | conditional UPDATEs on one row by many transactions |
| Conversions | status, bound event | mark, applyExecutionResult | terminal statuses must be final |
| Outbox and publisher | `outbox_messages` | enqueue, publishBatch, markPublished | crash between publish and mark |
| Broker connection (`rabbitmq.connection.ts`) | channel, consumers, retry counter | publish with confirm, retry, dead-letter, reconnect | timeouts, duplicates, non-atomic republish and ack |
| Execution (`process-conversion-execution.use-case.ts`) | `processed_messages` | skip, mark, exchange, settle, repair | at-least-once delivery to concurrent workers, crashes |
| Fake exchange | `fake_exchange_executions` | execute, memoised by client order id | the first outcome must win across restarts |
| Cleanup job | none | delete old idempotency records | races with requests that use them |
| Money, assets, rates | none | add, subtract, convert | double rounding |
| Queries, metrics, filter, health, configuration, seed | none that the above read | | |

Accept and execution meet only in the tables. Accept leaves an outbox row; the
publisher turns rows into messages, at least once; consumer workers handle
messages concurrently; both lock the same wallet rows.

What makes each component correct:

- *accept*: one conversion and one event per accepted quote; accepted in its lifetime; all
  or nothing; a repeated request gets the first response; a refused one leaves no trace;
- *wallets*: every reserved unit belongs to one unfinished conversion,
  `available + reserved = balance`, no column negative;
- *execution*: settled once, as the exchange first answered, whatever is duplicated,
  delayed, repeated or crashes; money conserved; no delivery hangs;
- *cleanup*: a stored response survives its retention;
- *broker connection*: no connection is leaked, each queue has one consumer on the live
  channel, a process without a channel gets one again;
- *pricing*: a quote pays the exact product rounded down, and no sequence of conversions
  creates value.

## Modules

| Module | Models |
|---|---|
| `Sums` | sum of natural amounts over a set of rows, by counting units so that no recursion is needed |
| `Store` | the tables, row locks, the conditional statements of the repositories, the rows of an accepted quote; the shared properties `Backed` and `AcceptedOnce` |
| `AcceptQuote` | the accept transaction statement by statement, quote creation, cleanup job, clock |
| `Execution` | the consumer handler and settlement transaction statement by statement, exchange, deliveries, crashes, deadlock detector |
| `Messaging` | outbox publisher, confirm channel, broker queues, retry count and dead-lettering, lost channels, restarts |
| `Ledger` | what the engine promises: each quote is dealt with once, its funds held and then paid out or given back |
| `WalletAccount` | the wallet aggregate (`wallet-account.ts`), whose methods the repository's UPDATEs must amount to |
| `ConversionAggregate` | the conversion aggregate (`conversion.ts`), whose methods the stored rows must follow |
| `Engine` | `Execution` and `Messaging` composed |
| `RabbitConnection` | connect, retry, reconnect timer, lifecycle handlers, consumer registration and shutdown of `rabbitmq.connection.ts` |
| `Pricing` | `Money.convert`, `Quote.create`, the rate table, and what sequences of conversions do to a user's holdings |
| `MCAcceptQuote`, `MCExecution`, `MCMessaging`, `MCEngine`, `MCRabbitConnection`, `MCPricing` | instances for TLC |
| `SumTheorems`, `StoreTheorems` | what `SumOver` does when one row changes; what the statements of `Store` do to holds, deals, accounts and lifecycles |
| `AcceptQuoteProofs`, `ExecutionProofs`, `MessagingProofs`, `RabbitConnectionProofs`, `PricingProofs` | the theorems about the module each is named after |
| `EngineProofs` | the composition implements both its parts, and what neither part says alone |

`AcceptQuote` and `Execution` both extend `Store`; `Messaging` stands beside them, with
`Execution`'s handler reduced to returning, which settles the event, or throwing. `Engine`
instantiates both and joins their steps. `Store` instantiates `Ledger`, `WalletAccount` and
`ConversionAggregate` over its tables, so that `AcceptQuote` and `Execution` can be checked
against all three. `RabbitConnection` and `Pricing` stand alone. A definition whose comment says
"variant" is a deliberately wrong version of the definition after it; no specification
uses it, and `PROJECT.json` ("mutants") says which property it breaks.

### State and steps

A *wallet* is one `(user_id, asset)` row, and a quote's constant terms name the
wallet it debits and the wallet it credits with the two amounts, natural numbers in
the smallest unit. *Sessions* are database sessions.

*Transactions.* The writes of a READ COMMITTED transaction appear at its commit. Until
then its rows are locked, so nothing another session does can change them. The model
therefore keeps the row locks exactly as the statements take them, decides each
conditional UPDATE when its statement runs, and applies all writes at the commit.
`ChecksStayTrue` and `SettlementChecksStayTrue` verify this: what was decided under
a lock still holds at the commit. Statements on rows that only the
transaction can see (insert of the conversion, the outbox row) are part of the commit.
A statement that would wait for a lock is a step that is not enabled.

*Accept.* `pc` runs `begin -> read -> save -> reserve -> commit`. `TryBegin` is
`INSERT ... ON CONFLICT DO NOTHING`, which waits for an uncommitted claim of the same key;
`Find` and `Poll` are the losers' lookup and wait; `ReadQuote` is `findById` and
`Quote.accept`; `SaveAccepted` and `Reserve` the conditional UPDATEs. `began` is the
transaction's `NOW()`, which becomes `created_at`, and `now` the value captured
after the claim. `TransactionFails` is every way to roll back: an error, a timeout, a
lost connection, a crash. The commit may be answered by a server error, for an
acknowledgement can be lost.

*Execution.* `stage` runs `exists -> mark -> exchange -> claim -> read -> source ->
create -> target -> save`. The handler's own statements commit one by one; `claim` to `save` are
the settlement transaction, which locks marker, source wallet, target wallet in that
order. `create` is `createIfMissing` of the target wallet: a committed row is left alone, a
row another settlement has inserted is waited for until that one commits or rolls back,
else the row is inserted. `target` is the `credit`, an UPDATE of its own that waits for the row's lock
and throws `WalletNotFoundError` where it finds no row: `HasRow` is its guard, `Fail` the
rollback. The inserted row is there for everyone from the commit on (`CommitInserts`).
Accepting is a single step here, which the lemma `TablesChange` of
`AcceptQuoteProofs` backs: no step of `AcceptQuote` other than quote creation and its
commit changes the tables. `Deliver` gives a free worker any published message again and
again, or a stray one; `Prune` deletes a processed marker, the situation the
repair branch exists for; `Fail` rolls back and ends the delivery at any point.

*Messaging.* A process has one confirm channel. What its publisher and its handlers
send is on `wire` until the broker takes it, in order; `waitForConfirms` waits for all the
channel has sent, so a sender's wait is over when its own copy has been taken. A wait may
end otherwise (`PublishFails`, `ReplacementFails`): refused, so the copy is gone, or late, so
it stays on the wire for the broker to take later. `queue` counts the copies of an event by
retry count. A handler's slot is held until its ack arrives; when the channel is lost
the broker requeues what has no ack, while the handler runs on (`stale`) with nowhere to
send its ack. A row is in `published` only after `Mark`. The rows of one batch go oldest first,
equally old ones in any order. Faults are counted and bounded by `MaxFaults`; a handler may
throw at any time and is not counted as a fault.

*Refinement.* `Store` maps `available` to `Ledger`'s `free`, and a quote's deal is read off
its conversion's status (`DealOf`): held while the source amount is reserved, completed or
failed once it is not. `WalletAccount` is instantiated per wallet row and
`ConversionAggregate` per conversion row. `ExecutionSafety` checks the three properties for the
execution; for the statements of the accept they are proved, and no run repeats them.

*Engine.* A worker of `Execution` handles the delivery a slot of `Messaging` holds; `owner`
pairs them. The handler's promise resolves or rejects as the worker's delivery ends, in one
step (`End`). When a channel is lost its workers go on and their end goes unheard, and when a
process crashes its workers become database connections without an owner, whose last
statement may still be carried out or is rolled back (`ConnectionDies`).

*RabbitConnection.* A step is one event and all the code that runs on it before
everybody awaits something again. The fields `connection` and `channel` are set and cleared
together in the code and are one variable. An attempt is one run of `tryConnect`, with the callers
awaiting it. A link may be lost in each of the attempt's phases: before its handlers are
registered (an `error` event then ends the process), while a consumer is being started, in the
same read as a reply, so that the handlers run before the code after the `await` goes on,
or in use. A process that cannot connect at boot exits and is restarted
(`restart: unless-stopped` in `docker-compose.yml`).

*Pricing.* An amount is its number of smallest units. `CreateQuote` multiplies with Decimal's
limit on significant digits, half to even, and then rounds down to the target's scale, as
`convert` does; an amount that does not fit the column is refused by the database. Quotes
settle or are forgotten in any order.

## Runs

| Run | Question | Instance |
|---|---|---|
| `AcceptSafety` | can concurrent accepts, failures, expiry and cleanup break the accept's promises? | 2 sessions, 2 quotes on one wallet that covers either but not both, 2 keys (one stuck), clock 0..2 |
| `AcceptLiveness` | is every request answered? | as above, one conversion id |
| `AcceptStuckClaim` | are in-progress records retained, as documented? (no) | as above |
| `ExecutionSafety` | does each conversion settle once, as executed, with money conserved? does the execution implement `Ledger` and keep to both aggregates? | 2 workers, 3 conversions (two from different wallets into a missing one, two held on one wallet), markers prunable |
| `ExecutionLiveness` | does every delivery end? can a message that is not the outbox's own do harm? | 2 workers, 2 opposite conversions, one marker prunable, one stray message, whose event, conversion and terms accepts tie to each other or to others |
| `MessagingSafety` | can an event be lost, or dead-lettered before its retries are used up? | 2 rows, 1 process, 2 handlers, 1 retry, 1 fault |
| `MessagingReplicas` | where do duplicates come from when nothing fails but handlers? | 2 rows equally old, 2 processes with a handler each, batches of 1, no fault |
| `MessagingLiveness` | does every row's event end? | 1 row, 1 process, 2 handlers, 1 retry, 2 faults |
| `EngineSafety` | can an event be acknowledged unsettled, or a hold be forgotten? | 1 conversion, 1 process, 2 handlers, 3 workers, 1 retry, 1 fault |
| `EngineLiveness` | does an accepted conversion end? | the same with 1 handler and 2 workers |
| `Connection` | can connections leak, consumers be missing or doubled, a reconnect be forgotten? does a process consume again, and stop trying after shutdown? | 2 queues, 3 links and 2 attempts at a time, 2 tries per attempt, any number of losses |
| `Pricing` | do quotes pay exactly, and can conversions create value? | 2 assets, both rates, every admissible amount, 1 waiting quote |

*Properties of the accept.* `Backed`, `AcceptedOnce`, `AcceptedInTime`,
`AnswersTruthful` (every 201 and stored response names a committed conversion of that very
quote), `ClaimsPrivate` (no half-done claim is ever visible, so only keys stuck from
before make a request wait), `ChecksStayTrue`, `RefusalLeavesNoTrace`,
`CompletedReplays`, `RetainedForWindow`, `Answered`.

*Properties of the execution.* `Backed`, `Conserved`, `CreditFindsWallet`
(of settlements that create and credit the same missing wallet, each finds a row and keeps it
locked, whichever inserts it and whichever rolls back), `SettledAsExecuted`,
`SettlementChecksStayTrue`, `SettlesOnce`, `StraysInert`, `DeliveryEnds`.

*Properties of the messaging.* `NothingLost` (marked means handled, dead-lettered or with the
broker), `RetriesEarned` (a retry count counts throws of the handler and nothing else),
`PublishedOncePerProcess`, `EveryRowEnds`. The last one has an exception that is the
code's: a consumer the broker cancels (`ConsumerCancelled`, the null message at
`rabbitmq.connection.ts:262`) is started again only when its channel is lost.

*Refinement properties.* `LedgerKept` (a quote's funds move only as its one deal moves),
`AccountsKept` (the UPDATEs of a wallet row amount to the aggregate's operations, one
at a time), `LifecycleKept` (the stored conversion changes only as its methods would change it,
although the consumer marks it with an UPDATE of its own and settles through copies).

*Properties of the engine.* `HandledIsSettled` (an acknowledged event's conversion has
ended), `NoHoldForgotten` (an unfinished conversion's event is unpublished, with the broker or
dead-lettered), `AcceptedConversionEnds`, with the exceptions of `EveryRowEnds`.

*Properties of the connection.* `NothingLeaks`, `ConsumersRestored`, `ReconnectOwed`,
`Recovers`, `RetriesEndAtShutdown`. `NothingLeaks` counts a connection as accounted for while an
attempt works on it, and a connection that opens after `close()` is taken into the fields
then and stays open until the process exits; `onModuleDestroy` does not wait for it.

*Properties of the pricing.* `QuotesExact` and `NoFreeMoney`; the latter is the comment at
`money.ts:104`, that a conversion must never fabricate value, for whole sequences of
conversions.

`ClaimsPrivate` is worth a remark. A comment at `accept-quote.use-case.ts:264` has
same-key losers see an in-progress record inside the transaction. Claim and completion
share one transaction, so a loser's INSERT waits for the winner and then finds a
completed record or none; the polling path serves only records left by something else.

*Bounds and why they are enough.* Time bounds: TTL = Retention = 1 and `MaxTime` = 2 put
requests before, at and after both boundaries, with a transaction spanning them. Two
sessions give every pairwise race on a row; a row lock makes a third session repeat
the second's part. The wallet amounts 2 and 1 of 2 make the second reservation
fail and make amounts distinguishable. Stuck key k1 is needed for the polling
path. In the execution two workers suffice for a deadlock cycle and for a duplicate racing
its original; in `ExecutionSafety` the first wallet carries two holds of
different amounts, the second covers its conversion only once another one has credited it, and
two settlements race to create and credit the third. Wallets locked in opposite order, and so
deadlocks, are in `ExecutionLiveness`; to the tables a deadlock's victim is one more rollback,
like those of `Fail`. In the messaging one retry gives a first delivery, a retry and a dead letter; two handlers let an
event race its duplicate; one fault at any point, and two for a single row,
put a late confirm before or after a lost channel. In the engine a third worker is needed to
handle a redelivery while an old handler still runs; one conversion suffices because
conversions meet only in wallets, which `ExecutionSafety` covers. In the connection, losses,
restarts and reconnects are unlimited, for links and attempts are numbered again once
they are gone; two tries show both a retry and an exhausted attempt; three links leave one to spare
beside one in use and one closing, and two attempts leave room for a second one that the code
must never start. In the pricing the scales, precision and rates are small, but
in the same proportions: products that fit the column keep all their digits, products beyond it lose
some, and the rates lose 1% there and back. The theorems cover the deployed numbers.
Identifiers that are
interchangeable are declared symmetric in the safety runs only.

*Fairness.* `FairSpec` and `ExecFairSpec` assume strong fairness of each session's own
statements: PostgreSQL grants a row lock to its waiters in turn, so a step that is
enabled again and again is taken. Weak fairness of `DeadlockVictim` is the deadlock
detector, which runs after `deadlock_timeout` and aborts one transaction of a cycle.
`MsgFairSpec` assumes weak fairness of each process's publisher, channel and reconnection and
of each handler: timers fire again, awaited promises settle or time out, the broker keeps
routing. `MaxFaults` makes faults end. `EngineFairSpec` joins both: a handler goes on until it
returns or throws, one of which every interactive transaction's timeout brings about.
`ConnFairness` assumes that attempts are answered or refused, closing connections close, timers
fire and a dead process is restarted; nothing of the broker's failures, so `Recovers` speaks of
behaviours in which the broker stays up from some point on. Nothing
is assumed of clients, deliveries, the clock, the cleanup job or failures. That an event is
*eventually executed* is not claimed: retries are bounded, then the message is
dead-lettered.

## Finding

`AcceptStuckClaim`: `docs/DECISIONS.md:121`, `docs/ARCHITECTURE.md:164` and
`README.md:178` say the cleanup retains in-progress records. `deleteExpired`
(`prisma-idempotency.repository.ts:74`) selects by age only. The run shows a stuck claim
being deleted, after which its key is free.

## Proofs

Every invariant and every action property of the runs is also a theorem, for all values
of the constants. The sections below give the theorems, the inductive invariant each rests on and
why it takes that one.

### The accept

For any sets of quotes, keys, sessions and wallets, any finite set of conversions, any amounts
and any clock, `AcceptQuoteProofs` proves of `AcceptQuote!Spec`:

| Theorem | Property |
|---|---|
| `TypeCorrect` | `TypeOK` |
| `ChecksStable` | `ChecksStayTrue` |
| `WalletsBacked` | `Backed` |
| `QuoteAcceptedOnce` | `AcceptedOnce` |
| `QuoteAcceptedInTime` | `AcceptedInTime` |
| `AnswersAreTruthful` | `AnswersTruthful` |
| `ClaimsArePrivate` | `ClaimsPrivate` |
| `RefusalsLeaveNoTrace` | `RefusalLeavesNoTrace` |
| `CompletedAreReplayed` | `CompletedReplays` |
| `ResponsesRetained` | `RetainedForWindow` |
| `AcceptImplementsLedger` | `LedgerKept` |
| `AcceptKeepsAccounts` | `AccountsKept` |
| `AcceptKeepsLifecycle` | `LifecycleKept` |

`TypeOK` is not inductive: `available` stays a natural number after a reservation only because
the check made when the row was locked still holds at the commit. So the inductive
invariant is `IInv == TypeOK /\ ChecksStayTrue /\ Backed`. `ChecksStayTrue` is preserved
because a step of one session leaves the locked rows of another alone
(`BystanderChecks`); `Backed` because the commit adds one holding conversion
to one wallet's sum and the same amount to its `reserved` (`SumInsert`).
`AcceptedOnce` and `AcceptedInTime` need in addition that the tables refer to each
other consistently (`RowsConsistent`, in `OnceInv`); `TablesChange` reduces that
argument to quote creation and commit.

The answers have an invariant of their own, `AnswersInv`: what is stored and what is answered
names a committed conversion, and whoever waits does so on a stuck key. It needs `OnceInv`,
because a conversion's row is never taken by a second quote. The two step properties about answers
look at one step only, but need `ChecksStayTrue` in the state before it: a session inside the
transaction holds the lock on its key, so that key's record is still missing when it is refused.

The refinements are step simulations under these invariants: `TablesChange` leaves quote
creation, which changes no funds, deal or conversion, and the commit, which is `Ledger`'s `Hold` of
the quote, `WalletAccount`'s `Reserve` on one row and `ConversionAggregate`'s `Accepted` of
one. The hold's guard in both modules is the reservation check, true at the commit by
`ChecksStayTrue`.

### The execution

For any number of workers and deliveries, any strays and any prunable markers, `ExecutionProofs`
proves of `Execution!ExecSpec`:

| Theorem | Property |
|---|---|
| `ExecTypeCorrect` | `ExecTypeOK` |
| `ExecWalletsBacked` | `Backed` |
| `TablesTellOneStory` | `SettledAsExecuted` |
| `SettlementChecksStable` | `SettlementChecksStayTrue` |
| `SettledOnce` | `SettlesOnce` |
| `StrayMessagesInert` | `StraysInert` |
| `CreditsFindWallets` | `CreditFindsWallet` |
| `MoneyConserved` | `Conserved` |
| `ExecutionImplementsLedger` | `LedgerKept` |
| `ExecutionKeepsAccounts` | `AccountsKept` |
| `ExecutionKeepsLifecycle` | `LifecycleKept` |

None of the first four is inductive alone. That no column goes below zero needs `Backed` (the
amount released is part of `reserved`) and that the conversion settled still has the status the worker
read, which in turn needs the marker row's lock and the agreement of conversion, event and outbox
rows. The inductive invariant is therefore their conjunction, `ExecInv`, with
`RowsAgree` (conversions, events and outbox rows name each other one to one) and, for each worker,
`DeliveryChecks`: what it relies on from the statements it has carried out. `SettleRows` says what
one settlement does to the rows, and everything about money follows from it: `Held` and the two
sums of `Conserved` lose or gain exactly one conversion (`SumInsert`, `SumRemove`).
`CreditFindsWallet` rests on the row lock: between `create` and the commit a settlement's target
is either its own uncommitted row, which nobody else can lock or remove, or a committed one, and
no code deletes wallets (`CreditSteps`); that the terms it acts on stay those of its conversion is
`ExecInv` again.

### The messaging

For any processes, handlers and events, any retry limit and any number of faults, `MessagingProofs`
proves of `Messaging!MsgSpec`:

| Theorem | Property |
|---|---|
| `MsgTypeCorrect` | `MsgTypeOK` |
| `PublishedNeverLost` | `NothingLost` |
| `RetriesAreEarned` | `RetriesEarned` |
| `PublishedAtMostOnceEach` | `PublishedOncePerProcess` |

`NothingLost` is about rows that are marked, and a delivery may be acknowledged because its
replacement is with the broker, so the invariant must say why a sender may stop waiting. A copy and
its replacement form a chain of growing retry counts: `Present(e, n)` says that the event is
settled or the broker has a copy of it with at least `n` retries, and `NothingForgotten` that it
holds from 0 on for a row about to be marked, and from one retry further on for a delivery
about to be acknowledged. `WireAgrees` and `OneEach` tie what is on a wire to the one who waits for
it, so that "not on the wire any more" means "taken by the broker" unless the wait was given up.
`RetriesEarned` needs the same of what is on a wire (`WireEarned`).

`PublishedOncePerProcess` counts. Its invariant `Once` bounds an event's copies not by the
number of processes but by those that are `Spent`: they have published the row, or it is
marked and not in their batch. A process publishes a row only when not spent and is spent from
then on; every other step moves a copy from queue to handler, handler to wire or wire to queue.

### The connection

For any number of queues, links and attempts, `RabbitConnectionProofs` proves of
`RabbitConnection!ConnSpec`:

| Theorem | Property |
|---|---|
| `ConnTypeCorrect` | `ConnTypeOK` |
| `NoConnectionLeaks` | `NothingLeaks` |
| `EachQueueOneConsumer` | `ConsumersRestored` |
| `ReconnectIsOwed` | `ReconnectOwed` |

`connectPromise` is a lock: only the attempt in it runs (`OneAttempt`). So nobody but that attempt
holds a link outside the fields, the fields are empty until it has set one up (`AttemptShape`), and
`activeConsumers` describes the link in the fields (`Served`).

### The engine

`EngineProofs` proves of `Engine!EngineSpec`:

| Theorem | What |
|---|---|
| `EngineRunsExecution` | it implements `Execution!ExecSpec` |
| `EngineRunsMessaging` | it implements `Messaging!MsgSpec` |
| `HandledMeansSettled` | `HandledIsSettled` |
| `NoHoldIsForgotten` | `NoHoldForgotten` |

The first two make every theorem about the parts one about the engine. The parts meet in
`OwnersAgree`: a worker with a slot handles the delivery the slot holds, and no slot has
two workers. With it the end of a delivery settles the right event (`HandledIsSettled`); and
`NoHoldForgotten` follows from `NothingLost`, `RowsAgree` and `HandledIsSettled`, for an unfinished
conversion's event is not handled.

### The pricing

`PricingProofs` proves of `Pricing!PricingSpec`, for any assets, rates, prices, precision and
number of waiting quotes:

| Theorem | Property |
|---|---|
| `PricingTypes` | `PricingTypeOK` |
| `QuotesAreExact` | `QuotesExact` |
| `ConversionsGainNothing` | `NoFreeMoney` |
| `DeployedRates` | the deployed rates, scales, precision and column satisfy `Fair` and `Precise` |

A product that loses digits is at least `Significand`, so by `Precise` its target is at least
`Whole` and is refused by the column; what is stored is therefore an exact product rounded down
(`QuotesExact`). With `Fair` its target is then worth no more than its source, and a
settlement changes two summands of the worth (`SumTheorems`).

### Assumptions

All are named `ASSUME`s that TLC evaluates on the instances.

- `Store`, `AcceptQuote`, `Execution`: positive amounts between two different wallets
  (`TermsAssumption`, from the constructors of `Quote` and `Conversion`), natural initial balances,
  row names that do not collide, `None` not a row, number, message or outcome, finitely many
  conversions, positive TTL, retention and batch size, workers among the sessions.
- `Messaging`: natural creation times, a process for each slot, a positive batch size, natural retry
  and fault bounds, processes and slots that are distinct, and finitely many of both.
- `RabbitConnection`: at least one queue and one attempt, at least one try per attempt.
- `Engine`: those of its two sides.
- `Pricing`: finitely many assets, positive scales and rates, a precision divisible by ten,
  and `Fair` and `Precise` for every pair, which `DeployedRates` proves of the deployed numbers.

### Only model-checked

All liveness (`Answered`, `DeliveryEnds`, `EveryRowEnds`, `AcceptedConversionEnds`, `Recovers`,
`RetriesEndAtShutdown`): TLAPS has no support for fairness or ENABLED. `InProgressRetained` is
refuted, see the finding. Nothing in the models is recursive, so no proof needs induction over data.

## Not modelled, and why

Request validation, metrics, logging, error formatting and the HTTP layer decide nothing
the models read. The conversion query is one read that changes nothing. Environment validation,
module wiring, seed and smoke script run before or beside the system; their numbers are
constants. Which exchange outcome is returned is left open. The application
clock and the database's `NOW()` are one clock. `Execution` sees publisher and
broker as at-least-once, unordered delivery; `Messaging` shows how the code provides it, with the
broker's durable queues and confirms taken as RabbitMQ documents them. Connecting is one
step there and in `Engine`; `RabbitConnection` has its interleavings, and assumes at least one
registered queue: without a consumer (`EXECUTION_CONSUMER_ENABLED=false`) a channel
that closes together with the last reply of its setup is not noticed, and no document says what
should happen then. Outside `Pricing`, money is
natural numbers: add, subtract and comparison of decimals of one scale are exact.

## Plan

Order of work, most important behaviour first:

1. `Store`, `AcceptQuote`, `Execution`, `Messaging` with their runs, and the proofs about
   `AcceptQuote` — done.
2. `Ledger`, `WalletAccount`, `ConversionAggregate`; `Execution` shown to implement them by TLC,
   `AcceptQuote` by proof — done.
3. `Engine`, the composition of `Messaging` with `Execution` — done.
4. `RabbitConnection`: connect, reconnect, close and consumer registration as
   interleaved asynchronous steps — done.
5. `Pricing` and its proofs — done.
6. `ExecutionProofs`: every safety property of the execution and its three refinements, for every
   instance — done.
7. `MessagingProofs`: type correctness, `NothingLost`, `RetriesEarned` and
   `PublishedOncePerProcess` for every instance — done.
8. `RabbitConnectionProofs`: the four invariants for every number of queues and links — done.
9. `EngineProofs`: the composition implements its parts, and its two invariants — done.
10. The step properties of the accept and its lifecycle — done.

Open: the composition of the accept's statements with the execution's in one state space, for which
`Execution` has the accept as one step; the lemma `TablesChange` and the three refinements proved
of both sides are what stands in for it.
