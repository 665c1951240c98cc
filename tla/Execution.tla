----------------------------- MODULE Execution ------------------------------
(***************************************************************************)
(* ConversionExecutionRequested: workers consume execution events that the  *)
(* broker delivers at least once, call the exchange and settle.             *)
(*                                                                         *)
(* One delivery runs through                                                *)
(*   idle -> exists -> mark -> exchange -> claim -> read -> source -> create *)
(*        -> target -> save -> idle                                         *)
(* and leaves that path where the code returns or throws.  The steps up to  *)
(* "exchange" and "repair" commit by themselves; "claim" to "save" are the   *)
(* settlement transaction.  Accepting a quote is one step here: AcceptQuote  *)
(* shows that only its commit changes these tables.                         *)
(***************************************************************************)
EXTENDS Store

CONSTANTS
  Workers,      \* sessions of the consumer, at most the channel's prefetch
  Strays,       \* messages in the queue that no outbox row stands for
  Prunable      \* events whose processed marker operators may delete

VARIABLES
  processed,    \* table processed_messages: the recorded outcome
  exchange,     \* table fake_exchange_executions: the outcome of each order
  opened,       \* the wallets that have a committed row
  stage,        \* where each worker's delivery stands
  task,         \* the message a worker handles
  result,       \* the exchange's answer
  fresh         \* conversion status the settlement read

work == <<stage, task, result, fresh>>
execVars == <<tables, lock, processed, exchange, opened, work>>

\* The payload's user, assets and amounts are those of some quote.
Message == [event : Events, conversion : Conversions, quote : Quotes]

ASSUME WorkersAssumption == Workers \subseteq Sessions
ASSUME StraysAssumption == Strays \subseteq Message
ASSUME PrunableAssumption == Prunable \subseteq Events

Outcome == {"SUCCESS", "FAILURE", "UNKNOWN"}
ASSUME NullAssumption == None \notin Message /\ None \notin Outcome

TerminalStatus == {"COMPLETED", "FAILED", "REQUIRES_RECONCILIATION"}
Stage == {"idle", "exists", "mark", "repair", "exchange",
          "claim", "read", "source", "create", "target", "save"}
Settling == {"read", "source", "create", "target", "save"}

ExecTypeOK ==
  /\ StoreTypeOK
  /\ processed \in [Events -> Outcome \cup {None}]
  /\ exchange \in [Events -> Outcome \cup {None}]
  /\ opened \subseteq Wallets
  /\ stage \in [Workers -> Stage]
  /\ task \in [Workers -> Message \cup {None}]
  /\ result \in [Workers -> Outcome \cup {None}]
  /\ fresh \in [Workers -> ConversionStatus]
  /\ \A w \in Workers :
       /\ stage[w] # "idle" => task[w] \in Message
       /\ stage[w] \in Settling \cup {"repair", "claim"} => result[w] \in Outcome

\* Every quote is open for acceptance; a wallet nobody funded has no row.
ExecInit ==
  /\ quote = [q \in Quotes |-> [NoQuoteRow EXCEPT !.status = "ACTIVE"]]
  /\ conversion = [c \in Conversions |-> NoConversionRow]
  /\ outbox = [e \in Events |-> None]
  /\ available = Initial
  /\ reserved = [w \in Wallets |-> 0]
  /\ balance = Initial
  /\ lock = [r \in Row |-> None]
  /\ processed = [e \in Events |-> None]
  /\ exchange = [e \in Events |-> None]
  /\ opened = {w \in Wallets : Initial[w] > 0}
  /\ stage = [w \in Workers |-> "idle"]
  /\ task = [w \in Workers |-> None]
  /\ result = [w \in Workers |-> None]
  /\ fresh = [w \in Workers |-> "NONE"]

-----------------------------------------------------------------------------
(* Environment. *)

\* The commit of an accept transaction; its UPDATE of the wallet waits for a
\* settlement that holds the row.
Accept(q, c, e) ==
  /\ quote[q].status = "ACTIVE"
  /\ Free(Terms[q].source)
  /\ CanReserve(Terms[q].source, Terms[q].sourceAmount)
  /\ AcceptRows(q, c, e, 0)
  /\ UNCHANGED <<lock, processed, exchange, opened, work>>

\* An outbox row is published at least once and its message delivered at least
\* once, in any order.
Published == {[event |-> e, conversion |-> outbox[e], quote |-> conversion[outbox[e]].quote] :
                e \in {f \in Events : outbox[f] # None}}

Deliver(w, m) ==
  /\ stage[w] = "idle"
  /\ m \in Published \cup Strays
  /\ stage' = [stage EXCEPT ![w] = "exists"]
  /\ task' = [task EXCEPT ![w] = m]
  /\ UNCHANGED <<tables, lock, processed, exchange, opened, result, fresh>>

\* The repair branch exists for conversions whose marker is gone.
Prune(e) ==
  /\ processed[e] # None
  /\ Free(e)
  /\ processed' = [processed EXCEPT ![e] = None]
  /\ UNCHANGED <<tables, lock, exchange, opened, work>>

-----------------------------------------------------------------------------
(* Steps that commit by themselves. *)

Goto(w, next) == stage' = [stage EXCEPT ![w] = next]

Finish(w) ==
  /\ stage' = [stage EXCEPT ![w] = "idle"]
  /\ task' = [task EXCEPT ![w] = None]
  /\ result' = [result EXCEPT ![w] = None]
  /\ fresh' = [fresh EXCEPT ![w] = "NONE"]

Exists(w) ==
  /\ stage[w] = "exists"
  /\ \/ processed[task[w].event] # None /\ Finish(w)
     \/ processed[task[w].event] = None /\ Goto(w, "mark") /\ UNCHANGED <<task, result, fresh>>
  /\ UNCHANGED <<tables, lock, processed, exchange, opened>>

OutcomeOf(status) == CASE status = "COMPLETED" -> "SUCCESS"
                       [] status = "FAILED" -> "FAILURE"
                       [] OTHER -> "UNKNOWN"
StatusOf(outcome) == CASE outcome = "SUCCESS" -> "COMPLETED"
                       [] outcome = "FAILURE" -> "FAILED"
                       [] OTHER -> "REQUIRES_RECONCILIATION"

\* The WHERE clause of markExecutionRequestedIfFundsReserved; the variant
\* forgets the status.
MarkableAnyStatus(m) == conversion[m.conversion].event = m.event
Markable(m) ==
  /\ conversion[m.conversion].status = "FUNDS_RESERVED"
  /\ conversion[m.conversion].event = m.event

\* The conversion exists, has the payload's user, assets and amounts, and is
\* bound to this very event; the variant forgets the binding.
MatchesIgnoringEvent(m) ==
  /\ conversion[m.conversion].status # "NONE"
  /\ Terms[m.quote] = Terms[conversion[m.conversion].quote]
Matches(m) ==
  /\ conversion[m.conversion].status # "NONE"
  /\ Terms[m.quote] = Terms[conversion[m.conversion].quote]
  /\ conversion[m.conversion].event = m.event

\* The UPDATE happens before the payload is compared, and stays when it throws.
\* (UPDATE and the SELECT after an UPDATE of no row are one step: the SELECT
\* could only see a conversion further along.)
Mark(w) ==
  LET m == task[w]
      status == conversion[m.conversion].status IN
  /\ stage[w] = "mark"
  /\ conversion' = IF Markable(m)
                   THEN [conversion EXCEPT ![m.conversion].status = "EXECUTION_REQUESTED"]
                   ELSE conversion
  /\ \/ ~ Matches(m) /\ Finish(w)
     \/ /\ Matches(m)
        /\ status \in TerminalStatus
        /\ Goto(w, "repair")
        /\ result' = [result EXCEPT ![w] = OutcomeOf(status)]
        /\ UNCHANGED <<task, fresh>>
     \/ /\ Matches(m)
        /\ status \notin TerminalStatus
        /\ Goto(w, "exchange")
        /\ UNCHANGED <<task, result, fresh>>
  /\ UNCHANGED <<quote, outbox, wallets, lock, processed, exchange, opened>>

\* tryRecord outside a transaction: INSERT ... ON CONFLICT DO NOTHING, which
\* waits for a settlement that has inserted the marker and not ended.
Repair(w) ==
  LET e == task[w].event IN
  /\ stage[w] = "repair"
  /\ \/ processed[e] # None /\ UNCHANGED processed
     \/ processed[e] = None /\ Free(e) /\ processed' = [processed EXCEPT ![e] = result[w]]
  /\ Finish(w)
  /\ UNCHANGED <<tables, lock, exchange, opened>>

\* The first outcome of an order is persisted, every later call replays it.
\* Both calls carry the terms of the conversion bound to the order, so
\* assertSameCommand compares equals.  The variant overwrites.
RecordOutcomeAnew(e, o) == exchange' = [exchange EXCEPT ![e] = o]
RecordOutcome(e, o) ==
  \/ exchange[e] = None /\ exchange' = [exchange EXCEPT ![e] = o]
  \/ exchange[e] # None /\ exchange[e] = o /\ UNCHANGED exchange

Exchange(w, o) ==
  /\ stage[w] = "exchange"
  /\ RecordOutcome(task[w].event, o)
  /\ result' = [result EXCEPT ![w] = o]
  /\ Goto(w, "claim")
  /\ UNCHANGED <<tables, lock, processed, opened, task, fresh>>

-----------------------------------------------------------------------------
(* The settlement transaction. *)

TermsOf(w) == Terms[conversion[task[w].conversion].quote]

\* Variant of Claim: the marker is inserted outside the transaction.
ClaimOutsideTransaction(w) ==
  LET e == task[w].event IN
  /\ stage[w] = "claim"
  /\ \/ processed[e] # None /\ Finish(w) /\ UNCHANGED <<lock, processed>>
     \/ /\ processed[e] = None
        /\ Free(e)
        /\ Acquire(w, e)
        /\ processed' = [processed EXCEPT ![e] = result[w]]
        /\ Goto(w, "read")
        /\ UNCHANGED <<task, result, fresh>>
  /\ UNCHANGED <<tables, exchange, opened>>

\* A marker that is there ends the delivery; an uncommitted one is waited for.
Claim(w) ==
  LET e == task[w].event IN
  /\ stage[w] = "claim"
  /\ \/ processed[e] # None /\ Finish(w) /\ UNCHANGED lock
     \/ /\ processed[e] = None
        /\ Free(e)
        /\ Acquire(w, e)
        /\ Goto(w, "read")
        /\ UNCHANGED <<task, result, fresh>>
  /\ UNCHANGED <<tables, processed, exchange, opened>>

\* Whether applyOutcome moves money, given the status it read; the variant
\* does not ask.
MovesAlways(status, outcome) == status \in ConversionStatus /\ outcome # "UNKNOWN"
Moves(status, outcome) ==
  /\ outcome # "UNKNOWN"
  /\ status \in {"EXECUTION_REQUESTED", "REQUIRES_RECONCILIATION"}

\* applyExecutionResult accepts this outcome, and leaves StatusOf(outcome).
Applicable(status, outcome) ==
  \/ status \in {"EXECUTION_REQUESTED", "REQUIRES_RECONCILIATION"}
  \/ status = StatusOf(outcome)

\* findById and markExecutionRequested in memory; where it is not Applicable
\* the transaction throws, as in Fail.
Read(w) ==
  LET status == conversion[task[w].conversion].status
      seen == IF status = "FUNDS_RESERVED" THEN "EXECUTION_REQUESTED" ELSE status IN
  /\ stage[w] = "read"
  /\ Applicable(seen, result[w])
  /\ fresh' = [fresh EXCEPT ![w] = seen]
  /\ \/ Moves(seen, result[w]) /\ Goto(w, "source")
     \/ ~ Moves(seen, result[w]) /\ Goto(w, "save")
  /\ UNCHANGED <<tables, lock, processed, exchange, opened, task, result>>

\* commitReservation or release: UPDATE ... WHERE reserved >= amount.
LockSource(w) ==
  /\ stage[w] = "source"
  /\ Free(TermsOf(w).source)
  /\ reserved[TermsOf(w).source] >= TermsOf(w).sourceAmount
  /\ Acquire(w, TermsOf(w).source)
  /\ \/ result[w] = "SUCCESS" /\ Goto(w, "create")
     \/ result[w] = "FAILURE" /\ Goto(w, "save")
  /\ UNCHANGED <<tables, processed, exchange, opened, task, result, fresh>>

\* The rows ON CONFLICT DO NOTHING leaves alone; the variant counts those of
\* transactions that may still roll back.
ConflictsUncommitted(x) == x \in opened \/ ~ Free(x)
Conflicts(x) == x \in opened

\* createIfMissing: a committed row is left alone, locked or not, and one that
\* another settlement has inserted is waited for until that one ends.
OpenTarget(w) ==
  LET target == TermsOf(w).target IN
  /\ stage[w] = "create"
  /\ \/ Conflicts(target) /\ UNCHANGED lock
     \/ ~ Conflicts(target) /\ Free(target) /\ Acquire(w, target)
  /\ Goto(w, "target")
  /\ UNCHANGED <<tables, processed, exchange, opened, task, result, fresh>>

\* The wallet rows a statement of w can see: committed, or inserted by w itself.
HasRow(w, x) == x \in opened \/ lock[x] = w

\* credit: an UPDATE, which waits for the row's lock.  Where it finds no row the
\* transaction throws WalletNotFoundError, as in Fail.
LockTarget(w) ==
  LET target == TermsOf(w).target IN
  /\ stage[w] = "target"
  /\ HasRow(w, target)
  /\ Free(target) \/ lock[target] = w
  /\ Acquire(w, target)
  /\ Goto(w, "save")
  /\ UNCHANGED <<tables, processed, exchange, opened, task, result, fresh>>

\* commitReservation of the source and credit of the target; the variants credit
\* what may be spent only, and give the hold back instead.
CreditAvailableOnly(t) ==
  /\ reserved' = [reserved EXCEPT ![t.source] = @ - t.sourceAmount]
  /\ available' = [available EXCEPT ![t.target] = @ + t.targetAmount]
  /\ balance' = [balance EXCEPT ![t.source] = @ - t.sourceAmount]
CreditAndRelease(t) ==
  /\ reserved' = [reserved EXCEPT ![t.source] = @ - t.sourceAmount]
  /\ available' = [available EXCEPT ![t.source] = @ + t.sourceAmount,
                                    ![t.target] = @ + t.targetAmount]
  /\ balance' = [balance EXCEPT ![t.target] = @ + t.targetAmount]
CommitAndCredit(t) ==
  /\ reserved' = [reserved EXCEPT ![t.source] = @ - t.sourceAmount]
  /\ available' = [available EXCEPT ![t.target] = @ + t.targetAmount]
  /\ balance' = [balance EXCEPT ![t.source] = @ - t.sourceAmount,
                                ![t.target] = @ + t.targetAmount]

ReleaseHold(t) ==
  /\ reserved' = [reserved EXCEPT ![t.source] = @ - t.sourceAmount]
  /\ available' = [available EXCEPT ![t.source] = @ + t.sourceAmount]
  /\ UNCHANGED balance

\* COMMIT: the wallet rows the transaction has written, its own insert among them,
\* are there for everyone.
CommitInserts(w) == opened' = opened \cup {x \in Wallets : lock[x] = w}

\* The conversion's save and the commit of marker, status and wallets.
Settle(w) ==
  LET m == task[w] IN
  /\ stage[w] = "save"
  /\ processed' = [processed EXCEPT ![m.event] = result[w]]
  /\ conversion' = [conversion EXCEPT ![m.conversion].status = StatusOf(result[w])]
  /\ \/ /\ Moves(fresh[w], result[w])
        /\ result[w] = "SUCCESS"
        /\ CommitAndCredit(TermsOf(w))
     \/ /\ Moves(fresh[w], result[w])
        /\ result[w] = "FAILURE"
        /\ ReleaseHold(TermsOf(w))
     \/ /\ ~ Moves(fresh[w], result[w])
        /\ UNCHANGED wallets
  /\ CommitInserts(w)
  /\ Finish(w)
  /\ ReleaseLocks(w)
  /\ UNCHANGED <<quote, outbox, exchange>>

-----------------------------------------------------------------------------
(* Failures. *)

Rollback(w) ==
  /\ Finish(w)
  /\ ReleaseLocks(w)
  /\ UNCHANGED <<tables, processed, exchange, opened>>

\* A statement fails, the transaction times out, or the process crashes: what
\* has not committed is rolled back and the message is redelivered or dropped.
Fail(w) ==
  /\ stage[w] # "idle"
  /\ Rollback(w)

\* The row whose lock the next statement of a worker needs.
Wanted(w) ==
  CASE stage[w] \in {"claim", "repair"} /\ processed[task[w].event] = None -> task[w].event
    [] stage[w] = "source" -> TermsOf(w).source
    [] stage[w] = "create" /\ ~ Conflicts(TermsOf(w).target) -> TermsOf(w).target
    [] stage[w] = "target" /\ lock[TermsOf(w).target] # w -> TermsOf(w).target
    [] OTHER -> None

\* The lock waits form a cycle through w; the variant detects none.
NeverDeadlocked(w) == w \notin Workers
Deadlocked(w) ==
  \E C \in SUBSET Workers :
    /\ w \in C
    /\ \A v \in C : Wanted(v) # None
    /\ {lock[Wanted(v)] : v \in C} = C

\* The database's deadlock detector aborts one transaction of the cycle.
DeadlockVictim(w) ==
  /\ Deadlocked(w)
  /\ Rollback(w)

-----------------------------------------------------------------------------

Handle(w) ==
  \/ Exists(w) \/ Mark(w) \/ Repair(w) \/ \E o \in Outcome : Exchange(w, o)
  \/ Claim(w) \/ Read(w) \/ LockSource(w) \/ OpenTarget(w) \/ LockTarget(w) \/ Settle(w)

ExecNext ==
  \/ \E q \in Quotes, c \in Conversions, e \in Events : Accept(q, c, e)
  \/ \E w \in Workers, m \in Published \cup Strays : Deliver(w, m)
  \/ \E e \in Prunable : Prune(e)
  \/ \E w \in Workers : Handle(w) \/ Fail(w) \/ DeadlockVictim(w)

ExecSpec == ExecInit /\ [][ExecNext]_execVars

\* Lock waiters are served in turn, handlers run on by themselves and the
\* deadlock detector runs; nothing obliges accepts, deliveries, or failures.
ExecFairSpec ==
  ExecSpec /\ \A w \in Workers : SF_execVars(Handle(w)) /\ WF_execVars(DeadlockVictim(w))

-----------------------------------------------------------------------------
(* Properties. *)

InStatus(statuses) == {c \in Conversions : conversion[c].status \in statuses}
SourcedAt(w) == {c \in InStatus({"COMPLETED"}) : Terms[conversion[c].quote].source = w}
TargetedAt(w) == {c \in InStatus({"COMPLETED"}) : Terms[conversion[c].quote].target = w}
TargetAmount == [c \in Conversions |-> IF conversion[c].quote = None THEN 0
                                       ELSE Terms[conversion[c].quote].targetAmount]

\* A wallet's balance is what it started with, less the source amounts and plus
\* the target amounts of exactly the completed conversions: duplicate, failed
\* and repaired deliveries neither create nor destroy money.
Conserved ==
  \A w \in Wallets :
    balance[w] = Initial[w] - SumOver(SourceAmount, SourcedAt(w))
                            + SumOver(TargetAmount, TargetedAt(w))

\* Two settlements may create and credit the same missing wallet.  Whichever of
\* them inserts the row, and whether it commits or rolls back, each credit finds a
\* row and keeps it to itself until the commit, and no paid-out conversion is left
\* without the wallet it was paid to.
CreditFindsWallet ==
  /\ \A w \in Workers :
       /\ stage[w] = "target" => HasRow(w, TermsOf(w).target)
       /\ stage[w] = "save" /\ result[w] = "SUCCESS" /\ Moves(fresh[w], result[w]) =>
            lock[TermsOf(w).target] = w
  /\ \A c \in InStatus({"COMPLETED"}) : Terms[conversion[c].quote].target \in opened

\* The four tables tell one story: no order reaches the exchange before its
\* conversion is committed and marked, a terminal status is what the exchange
\* answered, and a processed marker records just that.
SettledAsExecuted ==
  /\ \A e \in Events : exchange[e] # None =>
       /\ outbox[e] \in Conversions
       /\ conversion[outbox[e]].status \in TerminalStatus \cup {"EXECUTION_REQUESTED"}
  /\ \A c \in Conversions : conversion[c].status \in TerminalStatus =>
       exchange[conversion[c].event] = OutcomeOf(conversion[c].status)
  /\ \A e \in Events : processed[e] # None =>
       /\ outbox[e] \in Conversions
       /\ conversion[outbox[e]].status = StatusOf(processed[e])

\* What a settlement has read stays true until it commits, whatever the other
\* workers, accepts and operators do: its marker is its own, the conversion has
\* the status it read, and the hold it consumes is there.
SettlementChecksStayTrue ==
  \A w \in Workers :
    /\ stage[w] \in Settling =>
         /\ lock[task[w].event] = w
         /\ processed[task[w].event] = None
         /\ Matches(task[w])
    /\ stage[w] \in {"source", "create", "target", "save"} =>
         conversion[task[w].conversion].status = fresh[w]
    /\ stage[w] \in {"source", "create", "target"} =>
         reserved[TermsOf(w).source] >= TermsOf(w).sourceAmount
    /\ stage[w] \notin Settling => \A r \in Row : lock[r] # w

\* A terminal conversion, its event and the exchange's answer never change,
\* and funds move only in the step that makes a conversion terminal or accepts
\* its quote.
SettlesOnce ==
  [][/\ \A c \in Conversions :
          conversion[c].status \in TerminalStatus => conversion'[c] = conversion[c]
     /\ \A e \in Events : exchange[e] # None => exchange'[e] = exchange[e]
     /\ wallets' # wallets =>
          \E c \in Conversions : conversion'[c].status # conversion[c].status]_execVars

\* An outbox row stands for the message: two quotes with the same terms are the
\* same payload.
Genuine(m) ==
  \E p \in Published :
    p.event = m.event /\ p.conversion = m.conversion /\ Terms[p.quote] = Terms[m.quote]

\* A message that no outbox row stands for, or whose user, assets or amounts are
\* not those of its conversion, moves no money, reaches no exchange and leaves
\* no marker; at most it marks the conversion it names.
StraysInert ==
  [][\A w \in Workers :
       task[w] # None /\ ~ Genuine(task[w]) /\ stage'[w] # stage[w] =>
         UNCHANGED <<wallets, exchange, processed>>]_execVars

\* Every delivery ends: opposite conversions of one user may deadlock on the
\* two wallets, but the victim's rollback lets the other one through.
DeliveryEnds == \A w \in Workers : stage[w] # "idle" ~> stage[w] = "idle"
=============================================================================
