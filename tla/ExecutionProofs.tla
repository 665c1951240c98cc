--------------------------- MODULE ExecutionProofs ---------------------------
(***************************************************************************)
(* Theorems about the execution of conversions, for any number of workers,  *)
(* conversions, wallets and messages, any amounts and any strays.           *)
(*                                                                         *)
(* That a settlement may spend the hold it was made for rests on the wallet *)
(* being backed; that it is still held, on the conversion having the status *)
(* the settlement read; that it has, on the lock of the marker row, which   *)
(* only one worker of the event holds; and that a repeated settlement       *)
(* changes nothing, on the exchange having answered the same.  ExecInv has  *)
(* these together.                                                          *)
(***************************************************************************)
EXTENDS Execution, StoreTheorems

\* Statuses in which the order may have reached the exchange.
Executable == TerminalStatus \cup {"EXECUTION_REQUESTED"}

\* Unused ids have no row, conversions and events refer to each other, and a
\* quote has one conversion.
RowsAgree ==
  /\ \A c \in Conversions :
       IF conversion[c].status = "NONE" THEN conversion[c] = NoConversionRow
       ELSE /\ conversion[c].quote \in Quotes /\ conversion[c].event \in Events
            /\ outbox[conversion[c].event] = c
  /\ \A e \in Events : outbox[e] # None =>
       conversion[outbox[e]].status # "NONE" /\ conversion[outbox[e]].event = e
  /\ \A c, d \in Conversions :
       conversion[c].quote = conversion[d].quote /\ conversion[c].quote # None => c = d

\* What a worker relies on from what it has done so far.
DeliveryChecks(w) ==
  LET m == task[w]
      status == conversion[m.conversion].status IN
  /\ stage[w] \in {"repair", "exchange", "claim"} \cup Settling =>
       Matches(m) /\ status \in Executable
  /\ stage[w] = "repair" => status \in TerminalStatus /\ result[w] = OutcomeOf(status)
  /\ stage[w] \in {"claim"} \cup Settling => exchange[m.event] = result[w]
  /\ stage[w] \in Settling => lock[m.event] = w /\ processed[m.event] = None
  /\ stage[w] \in {"source", "create", "target", "save"} =>
       status = fresh[w] /\ Applicable(status, result[w])
  /\ stage[w] \in {"source", "create", "target"} => Moves(status, result[w])
  /\ stage[w] \notin Settling => \A r \in Row : lock[r] # w

WorkersChecked == \A w \in Workers : DeliveryChecks(w)

ExecInv == ExecTypeOK /\ Backed /\ RowsAgree /\ SettledAsExecuted /\ WorkersChecked

-----------------------------------------------------------------------------
(* Facts about one delivery. *)

LEMMA OutcomesAndStatuses ==
  /\ \A o \in Outcome : StatusOf(o) \in TerminalStatus /\ OutcomeOf(StatusOf(o)) = o
  /\ \A s \in TerminalStatus : OutcomeOf(s) \in Outcome /\ StatusOf(OutcomeOf(s)) = s
  /\ TerminalStatus \subseteq ConversionStatus
BY DEF Outcome, TerminalStatus, StatusOf, OutcomeOf, ConversionStatus

\* The rows a message names exist.
LEMMA MessageRows ==
  ASSUME ExecTypeOK, NEW w \in Workers, stage[w] # "idle"
  PROVE  /\ task[w] \in Message /\ task[w].conversion \in Conversions
         /\ task[w].event \in Events /\ task[w].event \in Row /\ w \in Sessions
BY WorkersAssumption DEF ExecTypeOK, Message, Row

\* A message that matches its conversion is bound to it by the outbox.
LEMMA MatchedRows ==
  ASSUME ExecTypeOK, RowsAgree, NEW m \in Message, Matches(m)
  PROVE  /\ conversion[m.conversion].event = m.event /\ outbox[m.event] = m.conversion
         /\ conversion[m.conversion].quote \in Quotes
BY DEF Message, Matches, RowsAgree

\* The wallets a settlement locks.
LEMMA SettledTerms ==
  ASSUME ExecTypeOK, RowsAgree, NEW w \in Workers, stage[w] # "idle", Matches(task[w])
  PROVE  /\ TermsOf(w).source \in Wallets /\ TermsOf(w).source \in Row
         /\ TermsOf(w).target \in Wallets /\ TermsOf(w).target \in Row
         /\ TermsOf(w).source # TermsOf(w).target
         /\ TermsOf(w).sourceAmount \in Nat \ {0} /\ TermsOf(w).targetAmount \in Nat \ {0}
BY MessageRows, MatchedRows, TermsAssumption DEF TermsOf, Row, QuoteTerms

LEMMA InitExec == ExecInit => ExecInv
<1> SUFFICES ASSUME ExecInit PROVE ExecInv
  OBVIOUS
<1>1. ExecTypeOK
  <2>1. quote \in [Quotes -> [status : QuoteStatus, expiresAt : Nat, acceptedAt : Nat \cup {None}]]
    BY DEF ExecInit, NoQuoteRow, QuoteStatus
  <2>2. conversion \in [Conversions -> [status : ConversionStatus, quote : Quotes \cup {None},
                                       event : Events \cup {None}]]
    BY DEF ExecInit, NoConversionRow, ConversionStatus
  <2>3. StoreTypeOK
    BY <2>1, <2>2, InitialAssumption DEF ExecInit, StoreTypeOK
  <2>. QED
    BY <2>3 DEF ExecInit, ExecTypeOK, Stage, Settling, ConversionStatus
<1>2. Backed
  BY InitBacked DEF ExecInit
<1>3. RowsAgree
  BY DEF ExecInit, RowsAgree, NoConversionRow
<1>4. SettledAsExecuted
  BY DEF ExecInit, SettledAsExecuted, NoConversionRow, TerminalStatus
<1>5. WorkersChecked
  BY WorkersAssumption, NoneAssumption DEF ExecInit, WorkersChecked, DeliveryChecks, Settling
<1>. QED
  BY <1>1, <1>2, <1>3, <1>4, <1>5 DEF ExecInv

-----------------------------------------------------------------------------
(* What a settlement finds at its commit. *)

LEMMA SettleFinds ==
  ASSUME ExecInv, NEW w \in Workers, Settle(w)
  PROVE  /\ Matches(task[w])
         /\ result[w] \in Outcome
         /\ exchange[task[w].event] = result[w]
         /\ lock[task[w].event] = w /\ processed[task[w].event] = None
         /\ conversion[task[w].conversion].status = fresh[w]
         /\ fresh[w] \in Executable /\ Applicable(fresh[w], result[w])
<1>1. stage[w] = "save"
  BY DEF Settle
<1>2. DeliveryChecks(w)
  BY DEF ExecInv, WorkersChecked
<1>3. result[w] \in Outcome
  BY <1>1 DEF ExecInv, ExecTypeOK, Settling
<1>. QED
  BY <1>1, <1>2, <1>3 DEF DeliveryChecks, Settling

\* A conversion that has ended was ended by the same answer of the exchange.
LEMMA SettleRepeats ==
  ASSUME ExecInv, NEW w \in Workers, Settle(w), fresh[w] \in TerminalStatus
  PROVE  fresh[w] = StatusOf(result[w]) /\ ~ Moves(fresh[w], result[w])
<1> DEFINE c == task[w].conversion
<1>1. /\ Matches(task[w]) /\ conversion[c].status = fresh[w]
      /\ exchange[task[w].event] = result[w] /\ result[w] \in Outcome
  BY SettleFinds
<1>2. c \in Conversions /\ conversion[c].event = task[w].event
  BY <1>1, MessageRows DEF Settle, ExecInv, Matches
<1>3. result[w] = OutcomeOf(fresh[w])
  BY <1>1, <1>2 DEF ExecInv, SettledAsExecuted
<1>. QED
  BY <1>3 DEF TerminalStatus, OutcomeOf, StatusOf, Moves

\* What moves money is the first end of a requested conversion, whose hold is
\* still reserved.
LEMMA SettleMoves ==
  ASSUME ExecInv, NEW w \in Workers, Settle(w), Moves(fresh[w], result[w])
  PROVE  /\ fresh[w] = "EXECUTION_REQUESTED"
         /\ result[w] \in {"SUCCESS", "FAILURE"}
         /\ task[w].conversion \in Holding(TermsOf(w).source)
         /\ SourceAmount[task[w].conversion] = TermsOf(w).sourceAmount
         /\ reserved[TermsOf(w).source] >= TermsOf(w).sourceAmount
<1> DEFINE c == task[w].conversion
           t == TermsOf(w)
<1>1. /\ Matches(task[w]) /\ conversion[c].status = fresh[w]
      /\ result[w] \in Outcome /\ fresh[w] \in Executable
  BY SettleFinds
<1>2. fresh[w] = "EXECUTION_REQUESTED" /\ result[w] \in {"SUCCESS", "FAILURE"}
  BY <1>1, SettleRepeats DEF Executable, Moves, Outcome
<1>3. /\ c \in Conversions /\ conversion[c].quote \in Quotes /\ conversion[c].quote # None
      /\ t = Terms[conversion[c].quote] /\ t.source \in Wallets
  BY <1>1, MessageRows, MatchedRows, SettledTerms, NoneAssumption DEF Settle, ExecInv, TermsOf
<1>4. c \in Holding(t.source) /\ SourceAmount[c] = t.sourceAmount
  BY <1>1, <1>2, <1>3 DEF Holding, HoldingStatus, SourceAmount
<1>5. Held(t.source) >= SourceAmount[c]
  BY <1>3, <1>4, HeldCovers DEF ExecInv, ExecTypeOK
<1>6. reserved[t.source] = Held(t.source)
  BY <1>3 DEF ExecInv, Backed
<1>. QED
  BY <1>2, <1>4, <1>5, <1>6

-----------------------------------------------------------------------------
(* Types. *)

WorkTypeOK ==
  /\ stage \in [Workers -> Stage]
  /\ task \in [Workers -> Message \cup {None}]
  /\ result \in [Workers -> Outcome \cup {None}]
  /\ fresh \in [Workers -> ConversionStatus]
  /\ \A w \in Workers :
       /\ stage[w] # "idle" => task[w] \in Message
       /\ stage[w] \in Settling \cup {"repair", "claim"} => result[w] \in Outcome

LEMMA ExecTypeParts ==
  ExecTypeOK <=> /\ StoreTypeOK
                 /\ processed \in [Events -> Outcome \cup {None}]
                 /\ exchange \in [Events -> Outcome \cup {None}]
                 /\ opened \subseteq Wallets
                 /\ WorkTypeOK
BY DEF ExecTypeOK, WorkTypeOK

LEMMA FinishType ==
  ASSUME WorkTypeOK, NEW w \in Workers, Finish(w)
  PROVE  WorkTypeOK'
BY DEF WorkTypeOK, Finish, Stage, Settling, ConversionStatus

\* A step of a delivery that has not ended.
LEMMA GotoType ==
  ASSUME WorkTypeOK, NEW w \in Workers, stage[w] # "idle", NEW next \in Stage, Goto(w, next),
         UNCHANGED task, result' \in [Workers -> Outcome \cup {None}],
         \A v \in Workers \ {w} : result'[v] = result[v],
         next \in Settling \cup {"repair", "claim"} => result'[w] \in Outcome,
         fresh' \in [Workers -> ConversionStatus]
  PROVE  WorkTypeOK'
BY DEF WorkTypeOK, Goto

LEMMA RollbackType ==
  ASSUME ExecTypeOK, NEW w \in Workers, Rollback(w)
  PROVE  ExecTypeOK'
<1>1. w \in Sessions
  BY WorkersAssumption
<1>2. StoreTypeOK'
  BY <1>1, ReleaseEffect DEF Rollback, ExecTypeOK, StoreTypeOK, tables, wallets
<1>3. WorkTypeOK'
  BY ExecTypeParts, FinishType DEF Rollback
<1>. QED
  BY <1>2, <1>3 DEF Rollback, ExecTypeOK, WorkTypeOK

\* A step of a delivery that at most takes a free row.
LEMMA AcquireType ==
  ASSUME StoreTypeOK, NEW w \in Workers, UNCHANGED tables,
         UNCHANGED lock \/ \E row \in Row : Free(row) /\ Acquire(w, row)
  PROVE  StoreTypeOK'
BY AcquireEffect, WorkersAssumption DEF StoreTypeOK, tables, wallets

LEMMA AcceptType ==
  ASSUME ExecTypeOK, NEW q \in Quotes, NEW c \in Conversions, NEW e \in Events, Accept(q, c, e)
  PROVE  ExecTypeOK'
<1>1. available[Terms[q].source] >= Terms[q].sourceAmount /\ lock' \in [Row -> Sessions \cup {None}]
  BY DEF Accept, CanReserve, ExecTypeOK, StoreTypeOK
<1>2. StoreTypeOK'
  BY <1>1, AcceptRowsType DEF Accept, ExecTypeOK
<1>. QED
  BY <1>2 DEF Accept, ExecTypeOK, work

LEMMA MarkType ==
  ASSUME ExecTypeOK, NEW w \in Workers, Mark(w)
  PROVE  ExecTypeOK'
<1>1. StoreTypeOK'
  <2>1. conversion' \in [Conversions -> [status : ConversionStatus, quote : Quotes \cup {None},
                                        event : Events \cup {None}]]
    <3>1. task[w].conversion \in Conversions
      BY MessageRows DEF Mark
    <3>2. [conversion[task[w].conversion] EXCEPT !.status = "EXECUTION_REQUESTED"]
            \in [status : ConversionStatus, quote : Quotes \cup {None}, event : Events \cup {None}]
      BY <3>1 DEF ExecTypeOK, StoreTypeOK, ConversionStatus
    <3>. QED
      BY <3>1, <3>2 DEF Mark, ExecTypeOK, StoreTypeOK
  <2>. QED
    BY <2>1 DEF Mark, ExecTypeOK, StoreTypeOK, wallets
<1>2. WorkTypeOK'
  <2>1. CASE Finish(w)
    BY <2>1, ExecTypeParts, FinishType
  <2>2. CASE /\ conversion[task[w].conversion].status \in TerminalStatus
             /\ Goto(w, "repair")
             /\ result' = [result EXCEPT ![w] = OutcomeOf(conversion[task[w].conversion].status)]
             /\ UNCHANGED <<task, fresh>>
    <3>1. OutcomeOf(conversion[task[w].conversion].status) \in Outcome
      BY <2>2, OutcomesAndStatuses
    <3>2. /\ result' \in [Workers -> Outcome \cup {None}] /\ result'[w] \in Outcome
          /\ \A v \in Workers \ {w} : result'[v] = result[v]
      BY <2>2, <3>1 DEF ExecTypeOK
    <3>. QED
      BY <2>2, <3>2, ExecTypeParts, GotoType DEF Mark, WorkTypeOK, Stage
  <2>3. CASE Goto(w, "exchange") /\ UNCHANGED <<task, result, fresh>>
    BY <2>3, ExecTypeParts, GotoType DEF Mark, WorkTypeOK, Stage, Settling
  <2>. QED
    BY <2>1, <2>2, <2>3 DEF Mark
<1>. QED
  BY <1>1, <1>2 DEF Mark, ExecTypeOK, WorkTypeOK

LEMMA SettleType ==
  ASSUME ExecInv, NEW w \in Workers, Settle(w)
  PROVE  ExecTypeOK'
<1> DEFINE m == task[w]
           t == TermsOf(w)
<1>1. /\ Matches(m) /\ result[w] \in Outcome /\ w \in Sessions
      /\ m.event \in Events /\ m.conversion \in Conversions
  BY SettleFinds, MessageRows DEF Settle, ExecInv
<1>2. conversion' \in [Conversions -> [status : ConversionStatus, quote : Quotes \cup {None},
                                      event : Events \cup {None}]]
  <2>1. StatusOf(result[w]) \in ConversionStatus
    BY <1>1, OutcomesAndStatuses
  <2>. QED
    BY SMTT(30), <1>1, <2>1 DEF Settle, ExecInv, ExecTypeOK, StoreTypeOK
<1>3. processed' \in [Events -> Outcome \cup {None}]
  BY <1>1 DEF Settle, ExecInv, ExecTypeOK
<1>4. /\ available' \in [Wallets -> Nat] /\ reserved' \in [Wallets -> Nat]
      /\ balance' \in [Wallets -> Nat] /\ opened' \subseteq Wallets
  <2>1. /\ t.source \in Wallets /\ t.target \in Wallets /\ t.source # t.target
        /\ t.sourceAmount \in Nat /\ t.targetAmount \in Nat
    BY <1>1, SettledTerms DEF Settle, ExecInv
  <2>2. ASSUME Moves(fresh[w], result[w])
        PROVE  reserved[t.source] >= t.sourceAmount /\ balance[t.source] >= t.sourceAmount
    <3>1. reserved[t.source] >= t.sourceAmount
      BY <2>2, SettleMoves
    <3>2. /\ available[t.source] + reserved[t.source] = balance[t.source]
          /\ available[t.source] \in Nat /\ reserved[t.source] \in Nat /\ balance[t.source] \in Nat
      BY <2>1 DEF ExecInv, Backed, ExecTypeOK, StoreTypeOK
    <3>. QED
      BY <2>1, <3>1, <3>2
  <2>3. opened' \subseteq Wallets
    BY DEF Settle, CommitInserts, ExecInv, ExecTypeOK
  <2>4. CASE Moves(fresh[w], result[w]) /\ CommitAndCredit(t)
    BY <2>1, <2>2, <2>3, <2>4 DEF CommitAndCredit, ExecInv, ExecTypeOK, StoreTypeOK
  <2>5. CASE Moves(fresh[w], result[w]) /\ ReleaseHold(t)
    BY <2>1, <2>2, <2>3, <2>5 DEF ReleaseHold, ExecInv, ExecTypeOK, StoreTypeOK
  <2>6. CASE UNCHANGED wallets
    BY <2>3, <2>6 DEF wallets, ExecInv, ExecTypeOK, StoreTypeOK
  <2>. QED
    BY <2>4, <2>5, <2>6 DEF Settle
<1>5. StoreTypeOK'
  BY <1>1, <1>2, <1>4, ReleaseEffect DEF Settle, ExecInv, ExecTypeOK, StoreTypeOK
<1>6. WorkTypeOK'
  BY ExecTypeParts, FinishType DEF Settle, ExecInv
<1>. QED
  BY <1>3, <1>4, <1>5, <1>6 DEF Settle, ExecInv, ExecTypeOK, WorkTypeOK

\* A step of a worker takes one free row, gives its rows back, or touches none.
LEMMA LockStep ==
  ASSUME ExecInv, NEW w \in Workers,
         Handle(w) \/ Fail(w) \/ DeadlockVictim(w) \/ \E m \in Message : Deliver(w, m)
  PROVE  \/ UNCHANGED lock
         \/ ReleaseLocks(w) /\ (Settle(w) \/ Fail(w) \/ DeadlockVictim(w))
         \/ \E row \in Row : Free(row) /\ Acquire(w, row)
<1> USE DEF ExecInv
<1>1. CASE Claim(w)
  BY <1>1, MessageRows DEF Claim
<1>2. CASE LockSource(w) \/ OpenTarget(w) \/ LockTarget(w)
  <2>1. stage[w] # "idle" /\ Matches(task[w])
    BY <1>2 DEF LockSource, OpenTarget, LockTarget, WorkersChecked, DeliveryChecks, Settling
  <2>2. TermsOf(w).source \in Row /\ TermsOf(w).target \in Row
    BY <2>1, SettledTerms
  <2>3. ASSUME NEW row \in Row, lock[row] = w, Acquire(w, row) PROVE UNCHANGED lock
    BY <2>3 DEF Acquire, ExecTypeOK, StoreTypeOK
  <2>. QED
    BY <1>2, <2>2, <2>3 DEF LockSource, OpenTarget, LockTarget
<1>3. CASE Settle(w) \/ Fail(w) \/ DeadlockVictim(w)
  BY <1>3 DEF Settle, Fail, DeadlockVictim, Rollback
<1>. QED
  BY <1>1, <1>2, <1>3 DEF Handle, Deliver, Exists, Mark, Repair, Exchange, Read

LEMMA StepExecType ==
  ASSUME ExecInv, [ExecNext]_execVars
  PROVE  ExecTypeOK'
<1> USE DEF ExecInv
<1>1. ASSUME NEW q \in Quotes, NEW c \in Conversions, NEW e \in Events, Accept(q, c, e)
      PROVE ExecTypeOK'
  BY <1>1, AcceptType
<1>2. ASSUME NEW w \in Workers, NEW m \in Published \cup Strays, Deliver(w, m) PROVE ExecTypeOK'
  <2>1. m \in Message
    BY StraysAssumption DEF Published, ExecTypeOK, StoreTypeOK, RowsAgree, Message
  <2>2. WorkTypeOK'
    BY <1>2, <2>1, ExecTypeParts DEF Deliver, WorkTypeOK, Stage, Settling
  <2>. QED
    BY <1>2, <2>2 DEF Deliver, ExecTypeOK, StoreTypeOK, WorkTypeOK, tables, wallets
<1>3. ASSUME NEW e \in Prunable, Prune(e) PROVE ExecTypeOK'
  BY <1>3 DEF Prune, ExecTypeOK, StoreTypeOK, tables, wallets, work
<1>4. ASSUME NEW w \in Workers, Exists(w) PROVE ExecTypeOK'
  <2>1. WorkTypeOK'
    BY <1>4, ExecTypeParts, FinishType, GotoType DEF Exists, WorkTypeOK, Stage, Settling
  <2>. QED
    BY <1>4, <2>1 DEF Exists, ExecTypeOK, StoreTypeOK, WorkTypeOK, tables, wallets
<1>5. ASSUME NEW w \in Workers, Mark(w) PROVE ExecTypeOK'
  BY <1>5, MarkType
<1>6. ASSUME NEW w \in Workers, Repair(w) PROVE ExecTypeOK'
  <2>1. WorkTypeOK'
    BY <1>6, ExecTypeParts, FinishType DEF Repair
  <2>2. processed' \in [Events -> Outcome \cup {None}]
    BY <1>6 DEF Repair, ExecTypeOK
  <2>. QED
    BY <1>6, <2>1, <2>2 DEF Repair, ExecTypeOK, StoreTypeOK, WorkTypeOK, tables, wallets
<1>7. ASSUME NEW w \in Workers, NEW o \in Outcome, Exchange(w, o) PROVE ExecTypeOK'
  <2>1. /\ result' \in [Workers -> Outcome \cup {None}] /\ result'[w] \in Outcome
        /\ \A v \in Workers \ {w} : result'[v] = result[v]
    BY <1>7 DEF Exchange, ExecTypeOK
  <2>2. WorkTypeOK'
    BY <1>7, <2>1, ExecTypeParts, GotoType DEF Exchange, WorkTypeOK, Stage
  <2>3. exchange' \in [Events -> Outcome \cup {None}]
    BY <1>7 DEF Exchange, RecordOutcome, ExecTypeOK
  <2>. QED
    BY <1>7, <2>2, <2>3 DEF Exchange, ExecTypeOK, StoreTypeOK, WorkTypeOK, tables, wallets
<1>8. ASSUME NEW w \in Workers, Claim(w) PROVE ExecTypeOK'
  <2>1. WorkTypeOK'
    <3>1. CASE Finish(w)
      BY <3>1, ExecTypeParts, FinishType
    <3>2. CASE Goto(w, "read") /\ UNCHANGED <<task, result, fresh>>
      <4>1. stage[w] = "claim" /\ result[w] \in Outcome
        BY <1>8 DEF Claim, ExecTypeOK
      <4>. QED
        BY <3>2, <4>1, ExecTypeParts, GotoType DEF WorkTypeOK, Stage
    <3>. QED
      BY <1>8, <3>1, <3>2 DEF Claim
  <2>2. task[w].event \in Row
    BY <1>8, MessageRows DEF Claim
  <2>3. StoreTypeOK'
    BY <1>8, <2>2, AcquireType DEF Claim, ExecTypeOK
  <2>. QED
    BY <1>8, <2>1, <2>3 DEF Claim, ExecTypeOK, WorkTypeOK
<1>9. ASSUME NEW w \in Workers, Read(w) PROVE ExecTypeOK'
  <2>1. PICK next \in {"source", "save"} : Goto(w, next)
    BY <1>9 DEF Read
  <2>2. task[w].conversion \in Conversions /\ result[w] \in Outcome /\ stage[w] # "idle"
    BY <1>9, MessageRows DEF Read, ExecTypeOK, Settling
  <2>3. fresh' \in [Workers -> ConversionStatus]
    BY <1>9, <2>2 DEF Read, ExecTypeOK, StoreTypeOK, ConversionStatus
  <2>4. WorkTypeOK'
    BY <1>9, <2>1, <2>2, <2>3, ExecTypeParts, GotoType DEF Read, WorkTypeOK, Stage
  <2>. QED
    BY <1>9, <2>4 DEF Read, ExecTypeOK, StoreTypeOK, WorkTypeOK, tables, wallets
<1>10. ASSUME NEW w \in Workers, LockSource(w) \/ OpenTarget(w) \/ LockTarget(w) PROVE ExecTypeOK'
  <2>1. PICK next \in {"create", "target", "save"} : Goto(w, next)
    BY <1>10 DEF LockSource, OpenTarget, LockTarget
  <2>2. result[w] \in Outcome /\ stage[w] # "idle" /\ UNCHANGED <<task, result, fresh>>
    BY <1>10 DEF LockSource, OpenTarget, LockTarget, ExecTypeOK, Settling
  <2>3. WorkTypeOK'
    BY <2>1, <2>2, ExecTypeParts, GotoType DEF WorkTypeOK, Stage
  <2>4. UNCHANGED lock \/ \E row \in Row : Free(row) /\ Acquire(w, row)
    <3>1. stage'[w] # "idle"
      BY <2>1 DEF Goto, ExecTypeOK
    <3>2. ~ (Settle(w) \/ Fail(w) \/ DeadlockVictim(w))
      BY <3>1 DEF Settle, Fail, DeadlockVictim, Rollback, Finish, ExecTypeOK
    <3>. QED
      BY <1>10, <3>2, LockStep DEF Handle
  <2>5. StoreTypeOK'
    BY <1>10, <2>4, AcquireType DEF LockSource, OpenTarget, LockTarget, ExecTypeOK
  <2>. QED
    BY <1>10, <2>3, <2>5 DEF LockSource, OpenTarget, LockTarget, ExecTypeOK, WorkTypeOK
<1>11. ASSUME NEW w \in Workers, Settle(w) PROVE ExecTypeOK'
  BY <1>11, SettleType
<1>12. ASSUME NEW w \in Workers, Fail(w) \/ DeadlockVictim(w) PROVE ExecTypeOK'
  BY <1>12, RollbackType DEF Fail, DeadlockVictim
<1>13. CASE UNCHANGED execVars
  BY <1>13 DEF execVars, ExecTypeOK, StoreTypeOK, tables, wallets, work
<1>. QED
  BY <1>1, <1>2, <1>3, <1>4, <1>5, <1>6, <1>7, <1>8, <1>9, <1>10, <1>11, <1>12, <1>13
  DEF ExecNext, Handle

-----------------------------------------------------------------------------
(* How the tables change. *)

\* The steps that write the tables accepts and settlements share.
LEMMA TablesChange ==
  ASSUME [ExecNext]_execVars
  PROVE  \/ UNCHANGED tables
         \/ \E q \in Quotes, c \in Conversions, e \in Events : Accept(q, c, e)
         \/ \E w \in Workers : Mark(w)
         \/ \E w \in Workers : Settle(w)
BY DEF ExecNext, Handle, execVars, Deliver, Prune, Exists, Repair, Exchange, Claim, Read,
   LockSource, OpenTarget, LockTarget, Fail, DeadlockVictim, Rollback

\* What they do to the rows of table conversions.
LEMMA MarkRows ==
  ASSUME ExecTypeOK, NEW w \in Workers, Mark(w), conversion' # conversion
  PROVE  \E c \in Conversions :
           /\ conversion[c].status = "FUNDS_RESERVED"
           /\ conversion' = [conversion EXCEPT ![c].status = "EXECUTION_REQUESTED"]
BY MessageRows DEF Mark, Markable

LEMMA SettleRows ==
  ASSUME ExecInv, NEW w \in Workers, Settle(w)
  PROVE  /\ task[w].conversion \in Conversions
         /\ \A d \in Conversions : d # task[w].conversion => conversion'[d] = conversion[d]
         /\ conversion'[task[w].conversion]
              = [conversion[task[w].conversion] EXCEPT !.status = StatusOf(result[w])]
         /\ conversion[task[w].conversion].status = fresh[w]
         /\ fresh[w] \in Executable
         /\ fresh[w] \in TerminalStatus => conversion' = conversion
<1> DEFINE c == task[w].conversion
<1>1. /\ c \in Conversions
      /\ conversion' = [conversion EXCEPT ![c].status = StatusOf(result[w])]
  BY MessageRows DEF Settle, ExecInv
<1>2. conversion[c].status = fresh[w] /\ fresh[w] \in Executable
  BY SettleFinds
<1>3. conversion[c] \in [status : ConversionStatus, quote : Quotes \cup {None}, event : Events \cup {None}]
  BY <1>1 DEF ExecInv, ExecTypeOK, StoreTypeOK
<1>4. ASSUME fresh[w] \in TerminalStatus PROVE conversion' = conversion
  <2>1. conversion[c].status = StatusOf(result[w])
    BY <1>2, <1>4, SettleRepeats
  <2>. QED
    BY <1>1, <1>3, <2>1 DEF ExecInv, ExecTypeOK, StoreTypeOK
<1>. QED
  BY <1>1, <1>2, <1>4 DEF ExecInv, ExecTypeOK, StoreTypeOK

\* Nothing is taken back: a conversion keeps its quote and event, leaves no
\* status it has ended in, and the exchange's answer stays.
Advance ==
  /\ \A c \in Conversions :
       /\ conversion[c].status # "NONE" =>
            /\ conversion'[c].status # "NONE"
            /\ conversion'[c].quote = conversion[c].quote
            /\ conversion'[c].event = conversion[c].event
       /\ conversion[c].status \in Executable => conversion'[c].status \in Executable
       /\ conversion[c].status \in TerminalStatus => conversion'[c] = conversion[c]
  /\ \A e \in Events : exchange[e] # None => exchange'[e] = exchange[e]

LEMMA StepAdvance ==
  ASSUME ExecInv, [ExecNext]_execVars
  PROVE  Advance
<1>1. ASSUME NEW e \in Events, exchange[e] # None PROVE exchange'[e] = exchange[e]
  BY <1>1 DEF ExecNext, Handle, execVars, Accept, Deliver, Prune, Exists, Mark, Repair, Exchange,
     RecordOutcome, Claim, Read, LockSource, OpenTarget, LockTarget, Settle, Fail, DeadlockVictim,
     Rollback, ExecInv, ExecTypeOK
<1> DEFINE Rows ==
      \A c \in Conversions :
        /\ conversion[c].status # "NONE" =>
             /\ conversion'[c].status # "NONE"
             /\ conversion'[c].quote = conversion[c].quote
             /\ conversion'[c].event = conversion[c].event
        /\ conversion[c].status \in Executable => conversion'[c].status \in Executable
        /\ conversion[c].status \in TerminalStatus => conversion'[c] = conversion[c]
<1>2. CASE UNCHANGED conversion
  BY <1>1, <1>2 DEF Advance
<1>3. ASSUME NEW q \in Quotes, NEW c \in Conversions, NEW e \in Events, Accept(q, c, e) PROVE Rows
  BY <1>3 DEF Accept, AcceptRows, CanInsert, InsertConversion, Executable, TerminalStatus,
     ExecInv, ExecTypeOK, StoreTypeOK
<1>4. ASSUME NEW w \in Workers, Mark(w), conversion' # conversion PROVE Rows
  <2>1. PICK c \in Conversions :
           /\ conversion[c].status = "FUNDS_RESERVED"
           /\ conversion' = [conversion EXCEPT ![c].status = "EXECUTION_REQUESTED"]
    BY <1>4, MarkRows DEF ExecInv
  <2>. QED
    BY <2>1 DEF Executable, TerminalStatus, ExecInv, ExecTypeOK, StoreTypeOK
<1>5. ASSUME NEW w \in Workers, Settle(w) PROVE Rows
  <2> DEFINE c == task[w].conversion
  <2>1. /\ c \in Conversions
        /\ \A d \in Conversions : d # c => conversion'[d] = conversion[d]
        /\ conversion'[c] = [conversion[c] EXCEPT !.status = StatusOf(result[w])]
        /\ conversion[c].status \in TerminalStatus => conversion' = conversion
    BY <1>5, SettleRows
  <2>2. StatusOf(result[w]) \in TerminalStatus
    BY <1>5, SettleFinds, OutcomesAndStatuses
  <2>3. /\ conversion'[c].status = StatusOf(result[w])
        /\ conversion'[c].quote = conversion[c].quote
        /\ conversion'[c].event = conversion[c].event
    BY <2>1 DEF ExecInv, ExecTypeOK, StoreTypeOK
  <2>4. "NONE" \notin TerminalStatus
    BY DEF TerminalStatus
  <2>. QED
    BY <2>1, <2>2, <2>3, <2>4 DEF Executable
<1>. QED
  BY <1>1, <1>2, <1>3, <1>4, <1>5, TablesChange DEF Advance, tables

-----------------------------------------------------------------------------
(* The rows keep agreeing. *)

\* A step that changes statuses of stored conversions only.
LEMMA StatusRows ==
  ASSUME RowsAgree, UNCHANGED outbox,
         \A c \in Conversions :
           \/ conversion'[c] = conversion[c]
           \/ /\ conversion[c].status # "NONE" /\ conversion'[c].status # "NONE"
              /\ conversion'[c].quote = conversion[c].quote
              /\ conversion'[c].event = conversion[c].event,
         \A e \in Events : outbox[e] \in Conversions \cup {None}
  PROVE  RowsAgree'
<1>1. ASSUME NEW c \in Conversions
      PROVE  /\ conversion'[c].quote = conversion[c].quote
             /\ conversion'[c].event = conversion[c].event
             /\ conversion[c].status = "NONE" => conversion'[c] = conversion[c]
             /\ conversion[c].status # "NONE" => conversion'[c].status # "NONE"
  OBVIOUS
<1>2. ASSUME NEW c \in Conversions
      PROVE  IF conversion'[c].status = "NONE" THEN conversion'[c] = NoConversionRow
             ELSE /\ conversion'[c].quote \in Quotes /\ conversion'[c].event \in Events
                  /\ outbox'[conversion'[c].event] = c
  BY <1>1 DEF RowsAgree
<1>3. ASSUME NEW e \in Events, outbox'[e] # None
      PROVE  conversion'[outbox'[e]].status # "NONE" /\ conversion'[outbox'[e]].event = e
  BY <1>1, <1>3 DEF RowsAgree
<1>4. \A c, d \in Conversions :
        conversion'[c].quote = conversion'[d].quote /\ conversion'[c].quote # None => c = d
  BY <1>1 DEF RowsAgree
<1>. QED
  BY <1>2, <1>3, <1>4 DEF RowsAgree

\* What an accept inserts.
Inserted(q, c, e) ==
  /\ conversion[c] = NoConversionRow /\ outbox[e] = None
  /\ \A f \in Events : outbox[f] # c
  /\ \A d \in Conversions : conversion[d].quote # q
  /\ conversion'[c] = [status |-> "FUNDS_RESERVED", quote |-> q, event |-> e]
  /\ \A d \in Conversions : d # c => conversion'[d] = conversion[d]
  /\ outbox'[e] = c /\ \A f \in Events : f # e => outbox'[f] = outbox[f]

LEMMA AcceptInserts ==
  ASSUME ExecTypeOK, RowsAgree, NEW q \in Quotes, NEW c \in Conversions, NEW e \in Events,
         Accept(q, c, e)
  PROVE  Inserted(q, c, e)
<1>1. conversion[c] = NoConversionRow /\ outbox[e] = None
  BY DEF Accept, AcceptRows, CanInsert, RowsAgree
<1>2. ASSUME NEW f \in Events PROVE outbox[f] # c
  BY <1>1, NoneAssumption DEF RowsAgree, NoConversionRow
<1>. QED
  BY <1>1, <1>2 DEF Accept, AcceptRows, CanInsert, InsertConversion, EnqueueEvent, ExecTypeOK,
     StoreTypeOK, Inserted

LEMMA AcceptAgrees ==
  ASSUME ExecTypeOK, RowsAgree, NEW q \in Quotes, NEW c \in Conversions, NEW e \in Events,
         Accept(q, c, e)
  PROVE  RowsAgree'
<1>0. q # None /\ c # None
  BY NoneAssumption
<1>1. Inserted(q, c, e)
  BY AcceptInserts
<1> USE <1>1 DEF Inserted
<1>2. ASSUME NEW d \in Conversions
      PROVE  IF conversion'[d].status = "NONE" THEN conversion'[d] = NoConversionRow
             ELSE /\ conversion'[d].quote \in Quotes /\ conversion'[d].event \in Events
                  /\ outbox'[conversion'[d].event] = d
  <2>1. CASE d = c
    BY <1>1, <2>1
  <2>2. CASE d # c
    <3>1. conversion[d].status # "NONE" => conversion[d].event # e
      BY <1>1, NoneAssumption DEF RowsAgree
    <3>. QED
      BY <1>1, <2>2, <3>1 DEF RowsAgree
  <2>. QED
    BY <2>1, <2>2
<1>3. ASSUME NEW f \in Events, outbox'[f] # None
      PROVE  conversion'[outbox'[f]].status # "NONE" /\ conversion'[outbox'[f]].event = f
  <2>1. CASE f = e
    BY <1>1, <2>1
  <2>2. CASE f # e
    <3>1. outbox'[f] = outbox[f] /\ outbox[f] \in Conversions /\ outbox[f] # c
      BY <1>1, <1>3, <2>2 DEF ExecTypeOK, StoreTypeOK
    <3>. QED
      BY <1>1, <1>3, <3>1 DEF RowsAgree
  <2>. QED
    BY <2>1, <2>2
<1>4. ASSUME NEW d \in Conversions, NEW b \in Conversions,
             conversion'[d].quote = conversion'[b].quote, conversion'[d].quote # None
      PROVE  d = b
  <2>1. conversion'[c].quote = q
    BY <1>1
  <2>. QED
    BY <1>1, <1>4, <2>1 DEF RowsAgree
<1>. QED
  BY <1>2, <1>3, <1>4 DEF RowsAgree

LEMMA StepRows ==
  ASSUME ExecInv, [ExecNext]_execVars
  PROVE  RowsAgree'
<1>1. CASE UNCHANGED <<conversion, outbox>>
  BY <1>1 DEF ExecInv, RowsAgree
<1>2. ASSUME NEW w \in Workers, Mark(w), conversion' # conversion PROVE RowsAgree'
  <2>1. PICK c \in Conversions :
           /\ conversion[c].status = "FUNDS_RESERVED"
           /\ conversion' = [conversion EXCEPT ![c].status = "EXECUTION_REQUESTED"]
    BY <1>2, MarkRows DEF ExecInv
  <2>2. UNCHANGED outbox
    BY <1>2 DEF Mark
  <2>3. conversion \in [Conversions -> [status : ConversionStatus, quote : Quotes \cup {None},
                                       event : Events \cup {None}]]
        /\ outbox \in [Events -> Conversions \cup {None}]
    BY DEF ExecInv, ExecTypeOK, StoreTypeOK
  <2>. QED
    BY <2>1, <2>2, <2>3, StatusRows DEF ExecInv
<1>3. ASSUME NEW w \in Workers, Settle(w) PROVE RowsAgree'
  <2>1. /\ task[w].conversion \in Conversions
        /\ \A d \in Conversions : d # task[w].conversion => conversion'[d] = conversion[d]
    BY <1>3, SettleRows
  <2>2. conversion[task[w].conversion].status # "NONE"
    BY <1>3, SettleFinds DEF Matches
  <2>3. Advance
    BY StepAdvance
  <2>4. UNCHANGED outbox /\ outbox \in [Events -> Conversions \cup {None}]
    BY <1>3 DEF Settle, ExecInv, ExecTypeOK, StoreTypeOK
  <2>. QED
    BY <2>1, <2>2, <2>3, <2>4, StatusRows DEF Advance, ExecInv
<1>. QED
  BY <1>1, <1>2, <1>3, AcceptAgrees, TablesChange DEF ExecInv, tables, Mark

-----------------------------------------------------------------------------
(* The tables keep telling one story. *)

\* Markers, answers and rows that stay, with conversions that only advance.
LEMMA SettledStays ==
  ASSUME ExecInv, Advance, UNCHANGED <<outbox, exchange>>,
         \A e \in Events : processed'[e] # None => processed'[e] = processed[e],
         \A c \in Conversions : conversion'[c].status \in TerminalStatus =>
           conversion'[c] = conversion[c]
  PROVE  SettledAsExecuted'
<1>1. ASSUME NEW e \in Events, exchange'[e] # None
      PROVE  outbox'[e] \in Conversions /\ conversion'[outbox'[e]].status \in Executable
  BY <1>1 DEF ExecInv, SettledAsExecuted, Advance, Executable
<1>2. ASSUME NEW c \in Conversions, conversion'[c].status \in TerminalStatus
      PROVE  exchange'[conversion'[c].event] = OutcomeOf(conversion'[c].status)
  BY <1>2 DEF ExecInv, SettledAsExecuted
<1>3. ASSUME NEW e \in Events, processed'[e] # None
      PROVE  outbox'[e] \in Conversions /\ conversion'[outbox'[e]].status = StatusOf(processed'[e])
  <2>1. /\ outbox[e] \in Conversions /\ processed'[e] = processed[e]
        /\ conversion[outbox[e]].status = StatusOf(processed[e])
    BY <1>3 DEF ExecInv, SettledAsExecuted
  <2>2. conversion[outbox[e]].status \in TerminalStatus
    BY <1>3, <2>1, OutcomesAndStatuses DEF ExecInv, ExecTypeOK
  <2>. QED
    BY <2>1, <2>2 DEF Advance
<1>. QED
  BY <1>1, <1>2, <1>3 DEF SettledAsExecuted, Executable

LEMMA AcceptSettled ==
  ASSUME ExecInv, NEW q \in Quotes, NEW c \in Conversions, NEW e \in Events, Accept(q, c, e)
  PROVE  SettledAsExecuted'
<1>1. Inserted(q, c, e)
  BY AcceptInserts DEF ExecInv
<1> USE <1>1 DEF Inserted
<1>2. exchange[e] = None /\ processed[e] = None
  BY <1>1, NoneAssumption DEF ExecInv, SettledAsExecuted
<1>3. UNCHANGED <<exchange, processed>> /\ "FUNDS_RESERVED" \notin TerminalStatus
  BY DEF Accept, TerminalStatus
<1>. QED
  BY <1>1, <1>2, <1>3 DEF ExecInv, SettledAsExecuted

LEMMA SettleSettled ==
  ASSUME ExecInv, NEW w \in Workers, Settle(w)
  PROVE  SettledAsExecuted'
<1> DEFINE c == task[w].conversion
           e == task[w].event
<1>1. /\ Matches(task[w]) /\ result[w] \in Outcome /\ exchange[e] = result[w]
      /\ task[w] \in Message /\ e \in Events /\ c \in Conversions
  BY SettleFinds, MessageRows DEF Settle, ExecInv
<1>2. conversion[c].event = e /\ outbox[e] = c /\ c # None
  BY <1>1, MatchedRows, NoneAssumption DEF ExecInv
<1>3. /\ \A d \in Conversions : d # c => conversion'[d] = conversion[d]
      /\ conversion'[c] = [conversion[c] EXCEPT !.status = StatusOf(result[w])]
  BY SettleRows
<1>4. /\ UNCHANGED <<outbox, exchange>>
      /\ processed' = [processed EXCEPT ![e] = result[w]]
  BY DEF Settle
<1>5. conversion'[c].status = StatusOf(result[w]) /\ conversion'[c].event = e
  BY <1>1, <1>2, <1>3 DEF ExecInv, ExecTypeOK, StoreTypeOK
<1>6. StatusOf(result[w]) \in TerminalStatus /\ OutcomeOf(StatusOf(result[w])) = result[w]
  BY <1>1, OutcomesAndStatuses
<1>7. ASSUME NEW f \in Events, exchange'[f] # None
      PROVE  outbox'[f] \in Conversions /\ conversion'[outbox'[f]].status \in Executable
  BY <1>3, <1>4, <1>5, <1>6, <1>7 DEF ExecInv, SettledAsExecuted, Executable
<1>8. ASSUME NEW d \in Conversions, conversion'[d].status \in TerminalStatus
      PROVE  exchange'[conversion'[d].event] = OutcomeOf(conversion'[d].status)
  BY <1>1, <1>3, <1>4, <1>5, <1>6, <1>8 DEF ExecInv, SettledAsExecuted
<1>9. ASSUME NEW f \in Events, processed'[f] # None
      PROVE  outbox'[f] \in Conversions /\ conversion'[outbox'[f]].status = StatusOf(processed'[f])
  <2>1. CASE f = e
    BY <1>1, <1>2, <1>4, <1>5, <2>1 DEF ExecInv, ExecTypeOK
  <2>2. CASE f # e
    <3>1. processed'[f] = processed[f] /\ outbox'[f] = outbox[f]
      BY <1>4, <2>2 DEF ExecInv, ExecTypeOK
    <3>2. outbox[f] \in Conversions /\ outbox[f] # c
      BY <1>2, <1>9, <2>2, <3>1 DEF ExecInv, SettledAsExecuted, RowsAgree
    <3>. QED
      BY <1>3, <1>9, <3>1, <3>2 DEF ExecInv, SettledAsExecuted
  <2>. QED
    BY <2>1, <2>2
<1>. QED
  BY <1>7, <1>8, <1>9 DEF SettledAsExecuted, Executable

LEMMA StepSettled ==
  ASSUME ExecInv, [ExecNext]_execVars
  PROVE  SettledAsExecuted'
<1>1. ASSUME UNCHANGED <<conversion, outbox, exchange>>,
             \A e \in Events : processed'[e] # None => processed'[e] = processed[e]
      PROVE  SettledAsExecuted'
  BY <1>1, StepAdvance, SettledStays
<1>2. ASSUME NEW e \in Prunable, Prune(e) PROVE SettledAsExecuted'
  BY <1>1, <1>2 DEF Prune, tables, ExecInv, ExecTypeOK
<1>3. ASSUME NEW w \in Workers, Mark(w) PROVE SettledAsExecuted'
  <2>1. UNCHANGED <<outbox, exchange, processed>>
    BY <1>3 DEF Mark
  <2>2. ASSUME conversion' # conversion, NEW c \in Conversions,
               conversion'[c].status \in TerminalStatus
        PROVE  conversion'[c] = conversion[c]
    BY <1>3, <2>2, MarkRows DEF ExecInv, ExecTypeOK, StoreTypeOK, TerminalStatus
  <2>. QED
    BY <2>1, <2>2, StepAdvance, SettledStays
<1>4. ASSUME NEW w \in Workers, Repair(w) PROVE SettledAsExecuted'
  <2> DEFINE e == task[w].event
             c == task[w].conversion
  <2>1. CASE UNCHANGED processed
    BY <1>1, <1>4, <2>1 DEF Repair, tables
  <2>2. CASE processed' = [processed EXCEPT ![e] = result[w]]
    <3>1. /\ Matches(task[w]) /\ conversion[c].status \in TerminalStatus
          /\ result[w] = OutcomeOf(conversion[c].status)
      BY <1>4 DEF Repair, ExecInv, WorkersChecked, DeliveryChecks
    <3>2. /\ outbox[e] = c /\ c \in Conversions /\ e \in Events
      BY <1>4, <3>1, MatchedRows, MessageRows DEF Repair, ExecInv
    <3>3. StatusOf(result[w]) = conversion[c].status
      BY <3>1, OutcomesAndStatuses
    <3>4. UNCHANGED <<conversion, outbox, exchange>>
      BY <1>4 DEF Repair, tables
    <3>5. ASSUME NEW f \in Events, processed'[f] # None
          PROVE  outbox'[f] \in Conversions /\ conversion'[outbox'[f]].status = StatusOf(processed'[f])
      BY <2>2, <3>2, <3>3, <3>4, <3>5 DEF ExecInv, SettledAsExecuted, ExecTypeOK
    <3>. QED
      BY <3>4, <3>5 DEF ExecInv, SettledAsExecuted
  <2>. QED
    BY <1>4, <2>1, <2>2 DEF Repair
<1>5. ASSUME NEW w \in Workers, NEW o \in Outcome, Exchange(w, o) PROVE SettledAsExecuted'
  <2> DEFINE e == task[w].event
             c == task[w].conversion
  <2>1. Matches(task[w]) /\ conversion[c].status \in Executable
    BY <1>5 DEF Exchange, ExecInv, WorkersChecked, DeliveryChecks
  <2>2. /\ outbox[e] = c /\ c \in Conversions /\ e \in Events
    BY <1>5, <2>1, MatchedRows, MessageRows DEF Exchange, ExecInv
  <2>3. UNCHANGED <<conversion, outbox, processed>>
    BY <1>5 DEF Exchange, tables
  <2>4. \A f \in Events : f # e => exchange'[f] = exchange[f]
    BY <1>5 DEF Exchange, RecordOutcome, ExecInv, ExecTypeOK
  <2>5. \A f \in Events : exchange[f] # None => exchange'[f] = exchange[f]
    BY StepAdvance DEF Advance
  <2>6. ASSUME NEW d \in Conversions, conversion[d].status \in TerminalStatus
        PROVE  exchange'[conversion[d].event] = exchange[conversion[d].event]
    <3>1. conversion[d].event \in Events
      BY <2>6 DEF ExecInv, RowsAgree, TerminalStatus
    <3>2. exchange[conversion[d].event] # None
      BY <2>6, OutcomesAndStatuses, NullAssumption DEF ExecInv, SettledAsExecuted
    <3>. QED
      BY <2>5, <3>1, <3>2
  <2>. QED
    BY <2>1, <2>2, <2>3, <2>4, <2>6 DEF ExecInv, SettledAsExecuted, Executable
<1>6. ASSUME UNCHANGED <<conversion, outbox, exchange, processed>> PROVE SettledAsExecuted'
  BY <1>1, <1>6
<1>. QED
  BY <1>2, <1>3, <1>4, <1>5, <1>6, AcceptSettled, SettleSettled
  DEF ExecNext, Handle, execVars, Deliver, Exists, Claim, Read, LockSource, OpenTarget, LockTarget,
      Fail, DeadlockVictim, Rollback, tables

-----------------------------------------------------------------------------
(* What a worker relies on stays. *)

\* Nobody else writes a marker row, or ends its conversion, under its lock.
LEMMA LockedRows ==
  ASSUME ExecInv, [ExecNext]_execVars, NEW v \in Workers, ~ Settle(v)
  PROVE  /\ \A e \in Events : lock[e] = v /\ processed[e] = None => processed'[e] = None
         /\ \A c \in Conversions :
              conversion[c].status \in Executable /\ lock[conversion[c].event] = v =>
                conversion'[c].status = conversion[c].status
<1>1. v # None
  BY WorkersAssumption, NoneAssumption
<1>2. CASE \E w \in Workers : Settle(w)
  <2>1. PICK w \in Workers : Settle(w)
    BY <1>2
  <2>2. w # v /\ lock[task[w].event] = w /\ Matches(task[w])
    BY <2>1, SettleFinds
  <2>3. \A c \in Conversions : c # task[w].conversion => conversion'[c] = conversion[c]
    BY <2>1, SettleRows
  <2>4. processed' = [processed EXCEPT ![task[w].event] = result[w]]
    BY <2>1 DEF Settle
  <2>. QED
    BY <2>2, <2>3, <2>4 DEF Matches, ExecInv, ExecTypeOK
<1>3. CASE ~ \E w \in Workers : Settle(w)
  <2>1. \A c \in Conversions :
          conversion[c].status \in Executable => conversion'[c].status = conversion[c].status
    <3>1. ASSUME NEW q \in Quotes, NEW c \in Conversions, NEW e \in Events, Accept(q, c, e),
                 NEW d \in Conversions, conversion[d].status \in Executable
          PROVE  conversion'[d].status = conversion[d].status
      <4>1. Inserted(q, c, e)
        BY <3>1, AcceptInserts DEF ExecInv
      <4>. QED
        BY <3>1, <4>1 DEF Inserted, NoConversionRow, Executable, TerminalStatus
    <3>2. ASSUME NEW w \in Workers, Mark(w), conversion' # conversion,
                 NEW d \in Conversions, conversion[d].status \in Executable
          PROVE  conversion'[d].status = conversion[d].status
      BY <3>2, MarkRows DEF ExecInv, ExecTypeOK, StoreTypeOK, Executable, TerminalStatus
    <3>. QED
      BY <1>3, <3>1, <3>2, TablesChange DEF tables
  <2>2. ASSUME NEW e \in Events, lock[e] = v, processed[e] = None PROVE processed'[e] = None
    BY <1>1, <1>3, <2>2 DEF ExecNext, Handle, execVars, Accept, Deliver, Prune, Exists, Mark,
       Repair, Exchange, Claim, Read, LockSource, OpenTarget, LockTarget, Fail, DeadlockVictim,
       Rollback, Free, ExecInv, ExecTypeOK
  <2>. QED
    BY <2>1, <2>2
<1>. QED
  BY <1>2, <1>3

\* A worker that a step leaves where it is.
LEMMA BystanderChecks ==
  ASSUME ExecInv, [ExecNext]_execVars, NEW v \in Workers, ~ Settle(v),
         stage'[v] = stage[v], task'[v] = task[v], result'[v] = result[v], fresh'[v] = fresh[v],
         \A r \in Row : lock'[r] = v <=> lock[r] = v
  PROVE  DeliveryChecks(v)'
<1> DEFINE m == task[v]
           c == m.conversion
<1>1. DeliveryChecks(v) /\ Advance
  BY StepAdvance DEF ExecInv, WorkersChecked
<1>2. CASE stage[v] = "idle"
  BY <1>1, <1>2 DEF DeliveryChecks, Settling
<1>3. CASE stage[v] # "idle"
  <2>1. /\ m \in Message /\ c \in Conversions /\ m.event \in Events /\ m.event \in Row
    BY <1>3, MessageRows DEF ExecInv
  <2>2. /\ lock[m.event] = v /\ processed[m.event] = None => processed'[m.event] = None
        /\ conversion[c].status \in Executable /\ lock[conversion[c].event] = v =>
             conversion'[c].status = conversion[c].status
    BY <2>1, LockedRows
  <2>3. /\ conversion[c].status # "NONE" =>
             /\ conversion'[c].status # "NONE"
             /\ conversion'[c].quote = conversion[c].quote
             /\ conversion'[c].event = conversion[c].event
        /\ conversion[c].status \in Executable => conversion'[c].status \in Executable
        /\ conversion[c].status \in TerminalStatus => conversion'[c] = conversion[c]
        /\ exchange[m.event] # None => exchange'[m.event] = exchange[m.event]
    BY <1>1, <2>1 DEF Advance
  <2>4. stage[v] \in {"claim"} \cup Settling => result[v] # None
    BY NullAssumption DEF ExecInv, ExecTypeOK, Settling
  <2>5. Matches(m) => Matches(m)'
    BY <2>3 DEF Matches
  <2>6. stage'[v] \in {"repair", "exchange", "claim"} \cup Settling =>
          Matches(task[v])' /\ conversion'[c].status \in Executable
    BY <1>1, <2>3, <2>5 DEF DeliveryChecks, Matches
  <2>7. stage'[v] = "repair" =>
          conversion'[c].status \in TerminalStatus /\ result'[v] = OutcomeOf(conversion'[c].status)
    BY <1>1, <2>3 DEF DeliveryChecks
  <2>8. stage'[v] \in {"claim"} \cup Settling => exchange'[m.event] = result'[v]
    BY <1>1, <2>3, <2>4 DEF DeliveryChecks
  <2>9. stage'[v] \in Settling => lock'[m.event] = v /\ processed'[m.event] = None
    BY <1>1, <2>1, <2>2 DEF DeliveryChecks
  <2>10. stage[v] \in {"source", "create", "target", "save"} => conversion'[c].status = conversion[c].status
    BY <1>1, <2>2 DEF DeliveryChecks, Settling, Matches
  <2>. QED
    BY <1>1, <2>6, <2>7, <2>8, <2>9, <2>10 DEF DeliveryChecks
<1>. QED
  BY <1>2, <1>3

\* A worker whose delivery has ended, and one that is not yet settling.
LEMMA EndedChecks ==
  ASSUME NEW w \in Workers, stage'[w] \in {"idle", "exists", "mark"}, \A r \in Row : lock'[r] # w
  PROVE  DeliveryChecks(w)'
BY DEF DeliveryChecks, Settling

\* The workers a step of w is not about.
LEMMA OthersStay ==
  ASSUME ExecTypeOK, NEW w \in Workers, NEW v \in Workers \ {w},
         Handle(w) \/ Fail(w) \/ DeadlockVictim(w) \/ \E m \in Message : Deliver(w, m)
  PROVE  /\ stage'[v] = stage[v] /\ task'[v] = task[v]
         /\ result'[v] = result[v] /\ fresh'[v] = fresh[v]
BY DEF ExecTypeOK, Handle, Deliver, Exists, Mark, Repair, Exchange, Claim, Read, LockSource,
   OpenTarget, LockTarget, Settle, Fail, DeadlockVictim, Rollback, Finish, Goto

\* A step of w that takes a free row, gives its rows back, or touches none.
LEMMA StepOfWorker ==
  ASSUME ExecInv, [ExecNext]_execVars, NEW w \in Workers,
         Handle(w) \/ Fail(w) \/ DeadlockVictim(w) \/ \E m \in Message : Deliver(w, m),
         \/ UNCHANGED lock
         \/ ReleaseLocks(w)
         \/ \E row \in Row : Free(row) /\ Acquire(w, row),
         DeliveryChecks(w)'
  PROVE  WorkersChecked'
<1>1. ASSUME NEW v \in Workers, v # w PROVE DeliveryChecks(v)'
  <2>1. /\ stage'[v] = stage[v] /\ task'[v] = task[v]
        /\ result'[v] = result[v] /\ fresh'[v] = fresh[v]
    BY <1>1, OthersStay DEF ExecInv
  <2>2. \A r \in Row : lock'[r] = v <=> lock[r] = v
    <3>1. v \in Sessions \ {w} /\ w \in Sessions
      BY <1>1, WorkersAssumption
    <3>. QED
      BY <3>1, AcquireEffect, ReleaseEffect DEF ExecInv, ExecTypeOK
  <2>3. CASE ~ Settle(v)
    BY <2>1, <2>2, <2>3, BystanderChecks
  <2>4. CASE Settle(v)
    <3>1. stage[v] = "save" /\ stage'[v] = "idle"
      BY <2>4 DEF Settle, Finish, ExecInv, ExecTypeOK
    <3>. QED
      BY <2>1, <3>1
  <2>. QED
    BY <2>3, <2>4
<1>. QED
  BY <1>1 DEF WorkersChecked

\* A step that ends the delivery.
LEMMA FinishChecks ==
  ASSUME ExecInv, [ExecNext]_execVars, NEW w \in Workers, Finish(w),
         Handle(w) \/ Fail(w) \/ DeadlockVictim(w),
         ReleaseLocks(w) \/ (stage[w] \notin Settling /\ UNCHANGED lock)
  PROVE  WorkersChecked'
<1>1. stage'[w] = "idle"
  BY DEF Finish, ExecInv, ExecTypeOK
<1>2. \A r \in Row : lock'[r] # w
  <2>1. CASE ReleaseLocks(w)
    BY <2>1, ReleaseEffect, WorkersAssumption DEF ExecInv, ExecTypeOK
  <2>2. CASE stage[w] \notin Settling /\ UNCHANGED lock
    BY <2>2 DEF ExecInv, WorkersChecked, DeliveryChecks
  <2>. QED
    BY <2>1, <2>2
<1>3. DeliveryChecks(w)'
  BY <1>1, <1>2, EndedChecks
<1>. QED
  BY <1>3, StepOfWorker

LEMMA MarkChecks ==
  ASSUME ExecInv, [ExecNext]_execVars, NEW w \in Workers, Mark(w)
  PROVE  WorkersChecked'
<1> DEFINE m == task[w]
           c == m.conversion
           status == conversion[c].status
<1>0. /\ Handle(w) /\ stage[w] = "mark" /\ UNCHANGED lock
      /\ c \in Conversions /\ \A r \in Row : lock[r] # w
  BY MessageRows DEF Handle, Mark, ExecInv, WorkersChecked, DeliveryChecks, Settling
<1>1. CASE Finish(w)
  BY <1>0, <1>1, FinishChecks DEF Settling
<1>2. ASSUME Matches(m), UNCHANGED task, stage' \in {[stage EXCEPT ![w] = "repair"], [stage EXCEPT ![w] = "exchange"]}
      PROVE  Matches(task[w])' /\ stage'[w] \in {"repair", "exchange"}
  BY <1>0, <1>2, StepAdvance DEF Advance, Matches, ExecInv, ExecTypeOK
<1>3. CASE /\ Matches(m) /\ status \in TerminalStatus /\ Goto(w, "repair")
           /\ result' = [result EXCEPT ![w] = OutcomeOf(status)] /\ UNCHANGED <<task, fresh>>
  <2>1. conversion'[c] = conversion[c]
    BY <1>0, <1>3, StepAdvance DEF Advance
  <2>2. /\ Matches(task[w])' /\ stage'[w] = "repair" /\ result'[w] = OutcomeOf(status)
        /\ conversion'[task'[w].conversion].status = status
        /\ \A r \in Row : lock'[r] # w
    BY <1>0, <1>2, <1>3, <2>1 DEF Goto, ExecInv, ExecTypeOK
  <2>3. DeliveryChecks(w)'
    BY <1>3, <2>2 DEF DeliveryChecks, Executable, Settling
  <2>. QED
    BY <1>0, <2>3, StepOfWorker
<1>4. CASE /\ Matches(m) /\ status \notin TerminalStatus /\ Goto(w, "exchange")
           /\ UNCHANGED <<task, result, fresh>>
  <2>1. conversion'[c].status \in Executable
    BY <1>0, <1>4 DEF Mark, Markable, Matches, Executable, TerminalStatus, ConversionStatus,
       ExecInv, ExecTypeOK, StoreTypeOK
  <2>2. /\ Matches(task[w])' /\ stage'[w] = "exchange"
        /\ task'[w].conversion = c
        /\ \A r \in Row : lock'[r] # w
    BY <1>0, <1>2, <1>4 DEF Goto, ExecInv, ExecTypeOK
  <2>3. DeliveryChecks(w)'
    BY <2>1, <2>2 DEF DeliveryChecks, Settling
  <2>. QED
    BY <1>0, <2>3, StepOfWorker
<1>. QED
  BY <1>1, <1>3, <1>4 DEF Mark

LEMMA StepChecks ==
  ASSUME ExecInv, [ExecNext]_execVars
  PROVE  WorkersChecked'
<1>0. ASSUME UNCHANGED <<stage, task, result, fresh, lock>>, NEW v \in Workers PROVE ~ Settle(v)
  BY <1>0 DEF Settle, Finish, ExecInv, ExecTypeOK
<1>1. ASSUME UNCHANGED <<stage, task, result, fresh, lock>> PROVE WorkersChecked'
  BY <1>0, <1>1, BystanderChecks DEF WorkersChecked
<1>2. ASSUME NEW w \in Workers, NEW m \in Published \cup Strays, Deliver(w, m) PROVE WorkersChecked'
  <2>1. m \in Message
    BY StraysAssumption DEF Published, ExecInv, ExecTypeOK, StoreTypeOK, RowsAgree, Message
  <2>2. stage'[w] = "exists" /\ UNCHANGED lock /\ \A r \in Row : lock[r] # w
    BY <1>2 DEF Deliver, ExecInv, ExecTypeOK, WorkersChecked, DeliveryChecks, Settling
  <2>3. DeliveryChecks(w)'
    BY <2>2, EndedChecks
  <2>. QED
    BY <1>2, <2>1, <2>2, <2>3, StepOfWorker
<1>3. ASSUME NEW w \in Workers, Exists(w) PROVE WorkersChecked'
  <2>1. /\ Handle(w) /\ stage[w] \notin Settling /\ UNCHANGED lock
    BY <1>3 DEF Handle, Exists, Settling
  <2>2. CASE Finish(w)
    BY <2>1, <2>2, FinishChecks
  <2>3. CASE Goto(w, "mark")
    <3>1. stage'[w] = "mark" /\ \A r \in Row : lock'[r] # w
      BY <2>1, <2>3 DEF Goto, ExecInv, ExecTypeOK, WorkersChecked, DeliveryChecks
    <3>2. DeliveryChecks(w)'
      BY <3>1, EndedChecks
    <3>. QED
      BY <2>1, <3>2, StepOfWorker
  <2>. QED
    BY <1>3, <2>2, <2>3 DEF Exists
<1>4. ASSUME NEW w \in Workers, Repair(w) PROVE WorkersChecked'
  <2>1. Handle(w) /\ stage[w] \notin Settling /\ UNCHANGED lock /\ Finish(w)
    BY <1>4 DEF Handle, Repair, Settling
  <2>. QED
    BY <2>1, FinishChecks
<1>5. ASSUME NEW w \in Workers, NEW o \in Outcome, Exchange(w, o) PROVE WorkersChecked'
  <2> DEFINE m == task[w]
  <2>1. /\ Handle(w) /\ UNCHANGED <<tables, lock, task>> /\ DeliveryChecks(w) /\ stage[w] = "exchange"
        /\ m.event \in Events
    BY <1>5, MessageRows DEF Handle, Exchange, ExecInv, WorkersChecked
  <2>2. stage'[w] = "claim" /\ result'[w] = o /\ exchange'[m.event] = o
    BY <1>5, <2>1 DEF Exchange, RecordOutcome, Goto, ExecInv, ExecTypeOK
  <2>3. DeliveryChecks(w)'
    BY <2>1, <2>2 DEF DeliveryChecks, Settling, Matches, tables
  <2>. QED
    BY <2>1, <2>3, StepOfWorker
<1>6. ASSUME NEW w \in Workers, Claim(w) PROVE WorkersChecked'
  <2> DEFINE m == task[w]
  <2>1. /\ Handle(w) /\ UNCHANGED <<tables, processed, exchange>>
        /\ DeliveryChecks(w) /\ stage[w] = "claim" /\ m.event \in Row /\ w \in Sessions
    BY <1>6, MessageRows DEF Handle, Claim, ExecInv, WorkersChecked
  <2>2. CASE Finish(w) /\ UNCHANGED lock
    BY <2>1, <2>2, FinishChecks DEF Settling
  <2>3. CASE /\ processed[m.event] = None /\ Free(m.event) /\ Acquire(w, m.event)
             /\ Goto(w, "read") /\ UNCHANGED <<task, result, fresh>>
    <3>1. stage'[w] = "read" /\ lock'[m.event] = w
      BY <2>1, <2>3, AcquireEffect DEF Goto, ExecInv, ExecTypeOK
    <3>2. DeliveryChecks(w)'
      BY <2>1, <2>3, <3>1 DEF DeliveryChecks, Settling, Matches, tables
    <3>. QED
      BY <2>1, <2>3, <3>2, StepOfWorker
  <2>. QED
    BY <1>6, <2>2, <2>3 DEF Claim
<1>7. ASSUME NEW w \in Workers, Read(w) PROVE WorkersChecked'
  <2> DEFINE m == task[w]
             status == conversion[m.conversion].status
  <2>1. /\ Handle(w) /\ UNCHANGED <<tables, lock, processed, exchange, task, result>>
        /\ DeliveryChecks(w) /\ stage[w] = "read"
    BY <1>7 DEF Handle, Read, ExecInv, WorkersChecked
  <2>2. status \in Executable
    BY <2>1 DEF DeliveryChecks, Settling
  <2>3. /\ Applicable(status, result[w]) /\ fresh'[w] = status
        /\ \/ Moves(status, result[w]) /\ stage'[w] = "source"
           \/ ~ Moves(status, result[w]) /\ stage'[w] = "save"
    BY <1>7, <2>2 DEF Read, Goto, Executable, TerminalStatus, ExecInv, ExecTypeOK
  <2>4. DeliveryChecks(w)'
    BY <2>1, <2>3 DEF DeliveryChecks, Settling, Matches, tables
  <2>. QED
    BY <2>1, <2>4, StepOfWorker
<1>8. ASSUME NEW w \in Workers, LockSource(w) \/ OpenTarget(w) \/ LockTarget(w)
      PROVE  WorkersChecked'
  <2> DEFINE m == task[w]
  <2>1. /\ Handle(w) /\ DeliveryChecks(w) /\ m.event \in Row /\ w \in Sessions
        /\ stage[w] \in {"source", "create", "target"}
        /\ UNCHANGED <<tables, processed, exchange, task, result, fresh>>
    BY <1>8, MessageRows DEF Handle, LockSource, OpenTarget, LockTarget, ExecInv, WorkersChecked
  <2>2. PICK next \in {"create", "target", "save"} : Goto(w, next)
    BY <1>8 DEF LockSource, OpenTarget, LockTarget
  <2>3. UNCHANGED lock \/ \E row \in Row : Free(row) /\ Acquire(w, row)
    <3>1. ~ (Settle(w) \/ Finish(w))
      BY <2>1, <2>2 DEF Settle, Finish, Goto, ExecInv, ExecTypeOK
    <3>. QED
      BY <2>1, <3>1, LockStep DEF Fail, DeadlockVictim, Rollback
  <2>4. stage'[w] = next /\ lock'[m.event] = w
    <3>1. stage'[w] = next /\ lock[m.event] = w
      BY <2>1, <2>2 DEF Goto, DeliveryChecks, Settling, ExecInv, ExecTypeOK
    <3>. QED
      BY <2>1, <2>3, <3>1, AcquireEffect DEF ExecInv, ExecTypeOK
  <2>5. DeliveryChecks(w)'
    BY <2>1, <2>2, <2>4 DEF DeliveryChecks, Settling, Matches, tables
  <2>. QED
    BY <2>1, <2>3, <2>5, StepOfWorker
<1>10. ASSUME NEW w \in Workers, Settle(w) \/ Fail(w) \/ DeadlockVictim(w) PROVE WorkersChecked'
  <2>1. Finish(w) /\ ReleaseLocks(w) /\ (Handle(w) \/ Fail(w) \/ DeadlockVictim(w))
    BY <1>10 DEF Settle, Handle, Fail, DeadlockVictim, Rollback
  <2>. QED
    BY <2>1, FinishChecks
<1>11. CASE (\E q \in Quotes, c \in Conversions, e \in Events : Accept(q, c, e))
           \/ (\E e \in Prunable : Prune(e)) \/ UNCHANGED execVars
  BY <1>1, <1>11 DEF Accept, Prune, execVars, work
<1>. QED
  BY <1>1, <1>2, <1>3, <1>4, <1>5, <1>6, <1>7, <1>8, <1>10, <1>11, MarkChecks
  DEF ExecNext, Handle

-----------------------------------------------------------------------------
(* Wallets stay backed. *)

LEMMA SettleBacked ==
  ASSUME ExecInv, NEW w \in Workers, Settle(w)
  PROVE  Backed'
<1> DEFINE c == task[w].conversion
           t == TermsOf(w)
<1>1. /\ c \in Conversions
      /\ \A d \in Conversions : d # c => conversion'[d] = conversion[d]
      /\ conversion'[c] = [conversion[c] EXCEPT !.status = StatusOf(result[w])]
      /\ conversion[c].status = fresh[w]
      /\ fresh[w] \in Executable
      /\ fresh[w] \in TerminalStatus => conversion' = conversion
  BY SettleRows
<1>2. conversion'[c].quote = conversion[c].quote /\ conversion'[c].status = StatusOf(result[w])
  BY <1>1 DEF ExecInv, ExecTypeOK, StoreTypeOK
<1>3. Matches(task[w]) /\ result[w] \in Outcome
  BY SettleFinds
<1>4. /\ conversion[c].quote \in Quotes /\ t = Terms[conversion[c].quote]
      /\ t.source \in Wallets /\ t.target \in Wallets /\ t.source # t.target
      /\ t.sourceAmount \in Nat /\ t.targetAmount \in Nat
  BY <1>3, MessageRows, MatchedRows, SettledTerms DEF Settle, ExecInv, TermsOf
<1>5. CASE ~ Moves(fresh[w], result[w])
  <2>1. UNCHANGED wallets
    BY <1>5 DEF Settle
  <2>2. \A d \in Conversions :
          conversion'[d].status \in HoldingStatus <=> conversion[d].status \in HoldingStatus
    BY <1>1, <1>2, <1>3, <1>5 DEF Moves, StatusOf, Outcome, HoldingStatus, Executable
  <2>3. \A d \in Conversions : conversion'[d].quote = conversion[d].quote
    BY <1>1, <1>2
  <2>4. \A x \in Wallets : Held(x)' = Held(x)
    BY <2>2, <2>3, HeldStays
  <2>. QED
    BY <2>1, <2>4 DEF ExecInv, Backed, wallets
<1>6. CASE Moves(fresh[w], result[w])
  <2>1. /\ fresh[w] = "EXECUTION_REQUESTED" /\ result[w] \in {"SUCCESS", "FAILURE"}
        /\ SourceAmount[c] = t.sourceAmount
    BY <1>6, SettleMoves
  <2>2. conversion[c].status \in HoldingStatus /\ conversion'[c].status \notin HoldingStatus
    BY <1>1, <1>2, <2>1 DEF HoldingStatus, StatusOf
  <2>3. ASSUME NEW x \in Wallets
        PROVE  Held(x)' = IF t.source = x THEN Held(x) - t.sourceAmount ELSE Held(x)
    <3>1. StoreTypeOK
      BY DEF ExecInv, ExecTypeOK
    <3>2. Held(x)' = IF Terms[conversion[c].quote].source = x THEN Held(x) - SourceAmount[c] ELSE Held(x)
      BY <1>1, <1>2, <1>4, <2>2, <3>1, HoldEnds
    <3>. QED
      BY <1>4, <2>1, <3>2
  <2>4. ASSUME NEW x \in Wallets
        PROVE  reserved'[x] = Held(x)' /\ available'[x] + reserved'[x] = balance'[x]
    <3>1. /\ reserved[x] = Held(x) /\ available[x] + reserved[x] = balance[x]
          /\ available[x] \in Nat /\ reserved[x] \in Nat /\ balance[x] \in Nat
      BY DEF ExecInv, Backed, ExecTypeOK, StoreTypeOK
    <3>0. Held(x)' = IF t.source = x THEN Held(x) - t.sourceAmount ELSE Held(x)
      BY <2>3
    <3> HIDE DEF t
    <3>2. CASE CommitAndCredit(t)
      <4>1. /\ reserved'[x] = IF x = t.source THEN reserved[x] - t.sourceAmount ELSE reserved[x]
            /\ available'[x] = IF x = t.target THEN available[x] + t.targetAmount ELSE available[x]
            /\ balance'[x] = IF x = t.source THEN balance[x] - t.sourceAmount
                             ELSE IF x = t.target THEN balance[x] + t.targetAmount ELSE balance[x]
        BY <1>4, <3>2 DEF CommitAndCredit, ExecInv, ExecTypeOK, StoreTypeOK
      <4>2. CASE x = t.source
        <5>1. /\ reserved'[x] = reserved[x] - t.sourceAmount /\ available'[x] = available[x]
              /\ balance'[x] = balance[x] - t.sourceAmount
              /\ Held(x)' = Held(x) - t.sourceAmount
          BY <1>4, <3>0, <4>1, <4>2
        <5>. QED
          BY <1>4, <3>1, <5>1
      <4>3. CASE x # t.source
        <5>1. /\ reserved'[x] = reserved[x] /\ Held(x)' = Held(x)
              /\ \/ available'[x] = available[x] /\ balance'[x] = balance[x]
                 \/ /\ available'[x] = available[x] + t.targetAmount
                    /\ balance'[x] = balance[x] + t.targetAmount
          BY <3>0, <4>1, <4>3
        <5>. QED
          BY <1>4, <3>1, <5>1
      <4>. QED
        BY <4>2, <4>3
    <3>3. CASE ReleaseHold(t)
      <4>1. /\ reserved'[x] = IF x = t.source THEN reserved[x] - t.sourceAmount ELSE reserved[x]
            /\ available'[x] = IF x = t.source THEN available[x] + t.sourceAmount ELSE available[x]
            /\ balance'[x] = balance[x]
        BY <1>4, <3>3 DEF ReleaseHold, ExecInv, ExecTypeOK, StoreTypeOK
      <4>2. CASE x = t.source
        <5>1. /\ reserved'[x] = reserved[x] - t.sourceAmount
              /\ available'[x] = available[x] + t.sourceAmount
              /\ Held(x)' = Held(x) - t.sourceAmount
          BY <3>0, <4>1, <4>2
        <5>. QED
          BY <1>4, <3>1, <4>1, <5>1
      <4>3. CASE x # t.source
        BY <3>0, <3>1, <4>1, <4>3
      <4>. QED
        BY <4>2, <4>3
    <3>. QED
      BY <1>6, <3>2, <3>3 DEF Settle, t
  <2>. QED
    BY <2>4 DEF Backed
<1>. QED
  BY <1>5, <1>6

LEMMA MarkBacked ==
  ASSUME ExecInv, NEW w \in Workers, Mark(w)
  PROVE  Backed'
<1>1. \A c \in Conversions :
        /\ conversion'[c].quote = conversion[c].quote
        /\ conversion'[c].status \in HoldingStatus <=> conversion[c].status \in HoldingStatus
  <2>1. CASE conversion' # conversion
    <3>1. PICK c \in Conversions :
             /\ conversion[c].status = "FUNDS_RESERVED"
             /\ conversion' = [conversion EXCEPT ![c].status = "EXECUTION_REQUESTED"]
      BY <2>1, MarkRows DEF ExecInv
    <3>. QED
      BY <3>1 DEF HoldingStatus, ExecInv, ExecTypeOK, StoreTypeOK
  <2>. QED
    BY <2>1
<1>2. \A x \in Wallets : Held(x)' = Held(x)
  BY <1>1, HeldStays
<1>3. UNCHANGED wallets
  BY DEF Mark
<1>. QED
  BY <1>2, <1>3 DEF ExecInv, Backed, wallets

LEMMA StepBacked ==
  ASSUME ExecInv, [ExecNext]_execVars
  PROVE  Backed'
<1>1. UNCHANGED tables => Backed'
  BY DEF ExecInv, Backed, Held, Holding, SourceAmount, tables, wallets
<1>2. ASSUME NEW q \in Quotes, NEW c \in Conversions, NEW e \in Events, Accept(q, c, e)
      PROVE  Backed'
  BY <1>2, AcceptRowsBacked DEF Accept, ExecInv, ExecTypeOK
<1>. QED
  BY <1>1, <1>2, MarkBacked, SettleBacked, TablesChange

LEMMA ExecInvariance == ExecSpec => []ExecInv
<1>1. ExecInv /\ [ExecNext]_execVars => ExecInv'
  BY StepExecType, StepBacked, StepRows, StepSettled, StepChecks DEF ExecInv
<1>. QED
  BY <1>1, InitExec, PTL DEF ExecSpec

\* Types, and with them non-negative columns: no order of deliveries, settlements
\* and failures spends funds that are not there.
THEOREM ExecTypeCorrect == ExecSpec => []ExecTypeOK
BY ExecInvariance, PTL DEF ExecInv

\* The reserved column of every wallet is the sum of the holds of unfinished
\* conversions, and available + reserved = balance, through every settlement.
THEOREM ExecWalletsBacked == ExecSpec => []Backed
BY ExecInvariance, PTL DEF ExecInv

\* Conversions, exchange orders and processed markers tell one story: what is
\* settled is what the exchange answered, and only what was requested reached it.
THEOREM TablesTellOneStory == ExecSpec => []SettledAsExecuted
BY ExecInvariance, PTL DEF ExecInv

-----------------------------------------------------------------------------
(* What a settlement has checked. *)

LEMMA CheckedSettlements == ExecInv => SettlementChecksStayTrue
<1> SUFFICES ASSUME ExecInv, NEW w \in Workers
             PROVE  /\ stage[w] \in Settling =>
                         /\ lock[task[w].event] = w
                         /\ processed[task[w].event] = None
                         /\ Matches(task[w])
                    /\ stage[w] \in {"source", "create", "target", "save"} =>
                         conversion[task[w].conversion].status = fresh[w]
                    /\ stage[w] \in {"source", "create", "target"} =>
                         reserved[TermsOf(w).source] >= TermsOf(w).sourceAmount
                    /\ stage[w] \notin Settling => \A r \in Row : lock[r] # w
  BY DEF SettlementChecksStayTrue
<1>1. DeliveryChecks(w)
  BY DEF ExecInv, WorkersChecked
<1>2. ASSUME stage[w] \in {"source", "create", "target"}
      PROVE  reserved[TermsOf(w).source] >= TermsOf(w).sourceAmount
  <2> DEFINE c == task[w].conversion
             t == TermsOf(w)
  <2>1. Matches(task[w]) /\ Moves(conversion[c].status, result[w])
    BY <1>1, <1>2 DEF DeliveryChecks, Settling
  <2>2. /\ c \in Conversions /\ conversion[c].quote \in Quotes /\ conversion[c].quote # None
        /\ t = Terms[conversion[c].quote] /\ t.source \in Wallets
    BY <1>2, <2>1, MessageRows, MatchedRows, SettledTerms, NoneAssumption DEF ExecInv, TermsOf
  <2>3. c \in Holding(t.source) /\ SourceAmount[c] = t.sourceAmount
    BY <2>1, <2>2 DEF Moves, Holding, HoldingStatus, SourceAmount
  <2>4. Held(t.source) >= SourceAmount[c]
    BY <2>2, <2>3, HeldCovers DEF ExecInv, ExecTypeOK
  <2>5. reserved[t.source] = Held(t.source)
    BY <2>2 DEF ExecInv, Backed
  <2>. QED
    BY <2>3, <2>4, <2>5
<1>. QED
  BY <1>1, <1>2 DEF DeliveryChecks, Settling

\* What a settlement has read and checked is true until it commits: its marker is
\* its own, its conversion has the status it read, the hold it spends is there.
THEOREM SettlementChecksStable == ExecSpec => []SettlementChecksStayTrue
BY ExecInvariance, CheckedSettlements, PTL

-----------------------------------------------------------------------------
(* Settled once. *)

SettlesOnceStep ==
  /\ \A c \in Conversions :
       conversion[c].status \in TerminalStatus => conversion'[c] = conversion[c]
  /\ \A e \in Events : exchange[e] # None => exchange'[e] = exchange[e]
  /\ wallets' # wallets =>
       \E c \in Conversions : conversion'[c].status # conversion[c].status

LEMMA StepSettlesOnce ==
  ASSUME ExecInv, [ExecNext]_execVars
  PROVE  SettlesOnceStep
<1>1. ASSUME NEW q \in Quotes, NEW c \in Conversions, NEW e \in Events, Accept(q, c, e)
      PROVE  conversion'[c].status # conversion[c].status
  <2>1. Inserted(q, c, e)
    BY <1>1, AcceptInserts DEF ExecInv
  <2>. QED
    BY <2>1 DEF Inserted, NoConversionRow
<1>2. ASSUME NEW w \in Workers, Settle(w), wallets' # wallets
      PROVE  \E c \in Conversions : conversion'[c].status # conversion[c].status
  <2> DEFINE c == task[w].conversion
  <2>1. Moves(fresh[w], result[w])
    BY <1>2 DEF Settle
  <2>2. fresh[w] = "EXECUTION_REQUESTED" /\ result[w] \in {"SUCCESS", "FAILURE"}
    BY <1>2, <2>1, SettleMoves
  <2>3. /\ c \in Conversions /\ conversion[c].status = fresh[w]
        /\ conversion'[c] = [conversion[c] EXCEPT !.status = StatusOf(result[w])]
    BY <1>2, SettleRows
  <2>4. conversion'[c].status = StatusOf(result[w])
    BY <2>3 DEF ExecInv, ExecTypeOK, StoreTypeOK
  <2>. QED
    BY <2>2, <2>3, <2>4 DEF StatusOf
<1>3. ASSUME UNCHANGED tables \/ \E w \in Workers : Mark(w) PROVE wallets' = wallets
  BY <1>3 DEF tables, Mark
<1>. QED
  BY <1>1, <1>2, <1>3, StepAdvance, TablesChange DEF Advance, SettlesOnceStep

\* An ended conversion and the exchange's answer never change again, and funds
\* move only as a conversion is accepted or ends, whatever is delivered twice,
\* repaired, or settled by two workers at once.
THEOREM SettledOnce == ExecSpec => SettlesOnce
<1>1. ExecInv /\ [ExecNext]_execVars => [SettlesOnceStep]_execVars
  BY StepSettlesOnce
<1>. QED
  BY <1>1, ExecInvariance, PTL DEF ExecSpec, SettlesOnce, SettlesOnceStep

-----------------------------------------------------------------------------
(* Strays. *)

\* A message that matches its conversion is the outbox's own.
LEMMA MatchedIsGenuine ==
  ASSUME ExecTypeOK, RowsAgree, NEW m \in Message, Matches(m)
  PROVE  Genuine(m)
<1>1. /\ conversion[m.conversion].event = m.event /\ outbox[m.event] = m.conversion
      /\ m.event \in Events /\ m.conversion # None
  BY MatchedRows, NoneAssumption DEF Message
<1> DEFINE p == [event |-> m.event, conversion |-> outbox[m.event],
                 quote |-> conversion[outbox[m.event]].quote]
<1>2. p \in Published
  BY <1>1 DEF Published
<1>3. Terms[p.quote] = Terms[m.quote]
  BY <1>1 DEF Matches
<1>. QED
  BY <1>1, <1>2, <1>3 DEF Genuine

StraysInertStep ==
  \A w \in Workers :
    task[w] # None /\ ~ Genuine(task[w]) /\ stage'[w] # stage[w] =>
      UNCHANGED <<wallets, exchange, processed>>

LEMMA StepStraysInert ==
  ASSUME ExecInv, [ExecNext]_execVars
  PROVE  StraysInertStep
<1> SUFFICES ASSUME NEW w \in Workers, ~ Genuine(task[w]), stage'[w] # stage[w]
             PROVE  UNCHANGED <<wallets, exchange, processed>>
  BY DEF StraysInertStep
<1>1. ASSUME NEW v \in Workers, Repair(v) \/ (\E o \in Outcome : Exchange(v, o)) \/ Settle(v)
      PROVE  FALSE
  <2>1. Handle(v) /\ stage[v] \in {"repair", "exchange", "save"}
    BY <1>1 DEF Handle, Repair, Exchange, Settle
  <2>2. v = w
    BY <2>1, OthersStay DEF ExecInv
  <2>3. task[v] \in Message /\ Matches(task[v])
    BY <2>1, MessageRows DEF ExecInv, WorkersChecked, DeliveryChecks, Settling
  <2>. QED
    BY <2>2, <2>3, MatchedIsGenuine DEF ExecInv
<1>2. ASSUME NEW v \in Workers, NEW m, Deliver(v, m) \/ Exists(v) \/ Mark(v) \/ Claim(v) \/ Read(v)
             \/ LockSource(v) \/ OpenTarget(v) \/ LockTarget(v) \/ Fail(v) \/ DeadlockVictim(v)
      PROVE  UNCHANGED <<wallets, exchange, processed>>
  BY <1>2 DEF Deliver, Exists, Mark, Claim, Read, LockSource, OpenTarget, LockTarget, Fail,
     DeadlockVictim, Rollback, tables
<1>3. CASE UNCHANGED stage
  BY <1>3
<1>. QED
  BY <1>1, <1>2, <1>3 DEF ExecNext, Handle, execVars, Accept, Prune, work

\* A message no outbox row stands for moves no money, reaches no exchange and
\* leaves no marker, however many of them there are.
THEOREM StrayMessagesInert == ExecSpec => StraysInert
<1>1. ExecInv /\ [ExecNext]_execVars => [StraysInertStep]_execVars
  BY StepStraysInert
<1>. QED
  BY <1>1, ExecInvariance, PTL DEF ExecSpec, StraysInert, StraysInertStep

-----------------------------------------------------------------------------
(* Credits and missing wallets. *)

\* What holds of a credit that has come as far as the stage of its worker.
CreditChecks(w) ==
  /\ stage[w] = "target" => HasRow(w, TermsOf(w).target)
  /\ stage[w] = "save" /\ result[w] = "SUCCESS" /\ Moves(fresh[w], result[w]) =>
       lock[TermsOf(w).target] = w

PaidOutOpen == \A c \in InStatus({"COMPLETED"}) : Terms[conversion[c].quote].target \in opened

LEMMA CreditParts ==
  CreditFindsWallet <=> PaidOutOpen /\ \A w \in Workers : CreditChecks(w)
BY DEF CreditFindsWallet, PaidOutOpen, CreditChecks

\* No wallet loses its row.
LEMMA OpenedStays ==
  ASSUME [ExecNext]_execVars
  PROVE  opened \subseteq opened'
BY DEF ExecNext, Handle, execVars, Accept, Deliver, Prune, Exists, Mark, Repair, Exchange, Claim,
   Read, LockSource, OpenTarget, LockTarget, Settle, CommitInserts, Fail, DeadlockVictim, Rollback

\* A settlement keeps the wallets it is about.
LEMMA TermsStay ==
  ASSUME ExecInv, [ExecNext]_execVars, NEW w \in Workers, stage[w] \in Settling, task'[w] = task[w]
  PROVE  /\ TermsOf(w)' = TermsOf(w)
         /\ TermsOf(w).target \in Wallets /\ TermsOf(w).target \in Row
<1>1. stage[w] # "idle" /\ Matches(task[w])
  BY DEF ExecInv, WorkersChecked, DeliveryChecks, Settling
<1>2. task[w].conversion \in Conversions /\ conversion[task[w].conversion].status # "NONE"
  BY <1>1, MessageRows DEF ExecInv, Matches
<1>3. conversion'[task[w].conversion].quote = conversion[task[w].conversion].quote
  BY <1>2, StepAdvance DEF Advance
<1>. QED
  BY <1>1, <1>3, SettledTerms DEF ExecInv, TermsOf

\* A settlement that another step leaves where it is: nobody else takes its rows,
\* and no row it has seen goes.
LEMMA CreditStays ==
  ASSUME ExecInv, [ExecNext]_execVars, NEW v \in Workers, CreditChecks(v),
         stage'[v] = stage[v], task'[v] = task[v], result'[v] = result[v], fresh'[v] = fresh[v],
         \A r \in Row : lock[r] = v => lock'[r] = v
  PROVE  CreditChecks(v)'
<1>1. CASE stage[v] \in {"target", "save"}
  <2>1. TermsOf(v)' = TermsOf(v) /\ TermsOf(v).target \in Row
    BY <1>1, TermsStay DEF Settling
  <2>. QED
    BY <2>1, OpenedStays DEF CreditChecks, HasRow, Moves
<1>2. CASE stage[v] \notin {"target", "save"}
  BY <1>2 DEF CreditChecks
<1>. QED
  BY <1>1, <1>2

\* The worker that takes the step: it reaches the credit with a row, and the
\* commit with the lock of that row.
LEMMA CreditSteps ==
  ASSUME ExecInv, [ExecNext]_execVars, NEW w \in Workers,
         Handle(w) \/ Fail(w) \/ DeadlockVictim(w) \/ \E m \in Message : Deliver(w, m)
  PROVE  CreditChecks(w)'
<1>1. stage \in [Workers -> Stage] /\ w \in Sessions /\ lock \in [Row -> Sessions \cup {None}]
  BY WorkersAssumption DEF ExecInv, ExecTypeOK, StoreTypeOK
<1>2. CASE OpenTarget(w)
  <2>1. /\ stage'[w] = "target" /\ TermsOf(w)' = TermsOf(w) /\ TermsOf(w).target \in Row
        /\ opened' = opened
    BY <1>1, <1>2, TermsStay DEF OpenTarget, Goto, Settling
  <2>2. TermsOf(w).target \in opened \/ lock'[TermsOf(w).target] = w
    BY <1>1, <1>2, <2>1 DEF OpenTarget, Conflicts, Acquire
  <2>. QED
    BY <2>1, <2>2 DEF CreditChecks, HasRow
<1>3. CASE LockTarget(w)
  <2>1. /\ stage'[w] = "save" /\ TermsOf(w)' = TermsOf(w) /\ TermsOf(w).target \in Row
    BY <1>1, <1>3, TermsStay DEF LockTarget, Goto, Settling
  <2>2. lock'[TermsOf(w).target] = w
    BY <1>1, <1>3, <2>1 DEF LockTarget, Acquire
  <2>. QED
    BY <2>1, <2>2 DEF CreditChecks
<1>4. CASE LockSource(w)
  <2>1. /\ stage'[w] = "create" \/ (stage'[w] = "save" /\ result[w] = "FAILURE")
        /\ result' = result
    BY <1>1, <1>4 DEF LockSource, Goto
  <2>. QED
    BY <2>1 DEF CreditChecks
<1>5. CASE Read(w)
  <2>1. /\ stage'[w] = "source" \/ (stage'[w] = "save" /\ ~ Moves(fresh'[w], result[w]))
        /\ result' = result
    BY <1>1, <1>5 DEF Read, Goto, ExecInv, ExecTypeOK
  <2>. QED
    BY <2>1 DEF CreditChecks
<1>6. CASE ~ (OpenTarget(w) \/ LockTarget(w) \/ LockSource(w) \/ Read(w))
  <2>1. stage'[w] \notin {"target", "save"}
    BY <1>1, <1>6 DEF Handle, Deliver, Exists, Mark, Repair, Exchange, Claim, Settle, Fail,
       DeadlockVictim, Rollback, Finish, Goto
  <2>. QED
    BY <2>1 DEF CreditChecks
<1>. QED
  BY <1>2, <1>3, <1>4, <1>5, <1>6

\* Whatever pays out leaves the paid wallet with a row.
LEMMA PaidOutStep ==
  ASSUME ExecInv, CreditFindsWallet, [ExecNext]_execVars
  PROVE  PaidOutOpen'
<1> SUFFICES ASSUME NEW c \in Conversions, conversion'[c].status = "COMPLETED"
             PROVE  Terms[conversion'[c].quote].target \in opened'
  BY DEF PaidOutOpen, InStatus
<1>1. CASE conversion[c].status = "COMPLETED"
  <2>1. conversion'[c] = conversion[c]
    BY <1>1, StepAdvance DEF Advance, TerminalStatus
  <2>. QED
    BY <1>1, <2>1, OpenedStays DEF CreditFindsWallet, InStatus
<1>2. CASE conversion[c].status # "COMPLETED"
  <2>1. PICK w \in Workers : Settle(w)
    <3>1. conversion' # conversion
      BY <1>2
    <3>2. ASSUME NEW q \in Quotes, NEW d \in Conversions, NEW e \in Events, Accept(q, d, e)
          PROVE  FALSE
      BY <1>2, <3>2 DEF Accept, AcceptRows, InsertConversion, ExecInv, ExecTypeOK, StoreTypeOK
    <3>3. ASSUME NEW w \in Workers, Mark(w) PROVE FALSE
      BY <1>2, <3>1, <3>3, MarkRows DEF ExecInv, ExecTypeOK, StoreTypeOK
    <3>. QED
      BY <3>1, <3>2, <3>3, TablesChange DEF tables
  <2>2. /\ c = task[w].conversion /\ conversion[c].status = fresh[w]
        /\ StatusOf(result[w]) = "COMPLETED" /\ fresh[w] \notin TerminalStatus
        /\ conversion'[c].quote = conversion[c].quote
    <3>1. conversion[c] \in [status : ConversionStatus, quote : Quotes \cup {None},
                             event : Events \cup {None}]
      BY DEF ExecInv, ExecTypeOK, StoreTypeOK
    <3>2. c = task[w].conversion
      BY <1>2, <2>1, SettleRows
    <3>3. conversion'[c] = [conversion[c] EXCEPT !.status = StatusOf(result[w])]
      BY <2>1, <3>2, SettleRows
    <3>4. conversion[c].status = fresh[w] /\ fresh[w] \notin TerminalStatus
      BY <1>2, <2>1, <3>2, SettleRows
    <3>. QED
      BY <3>1, <3>2, <3>3, <3>4
  <2>3. result[w] = "SUCCESS" /\ Moves(fresh[w], result[w])
    BY <2>1, <2>2, SettleFinds DEF StatusOf, Outcome, Executable, Moves
  <2>4. /\ stage[w] = "save" /\ lock[TermsOf(w).target] = w /\ TermsOf(w).target \in Wallets
    <3>1. stage[w] = "save" /\ Matches(task[w])
      BY <2>1, SettleFinds DEF Settle
    <3>. QED
      BY <2>3, <3>1, SettledTerms DEF CreditFindsWallet, ExecInv
  <2>. QED
    BY <2>1, <2>2, <2>4 DEF Settle, CommitInserts, TermsOf
<1>. QED
  BY <1>1, <1>2

LEMMA StepCredits ==
  ASSUME ExecInv, CreditFindsWallet, [ExecNext]_execVars
  PROVE  CreditFindsWallet'
<1>1. ASSUME NEW w \in Workers,
             Handle(w) \/ Fail(w) \/ DeadlockVictim(w) \/ \E m \in Message : Deliver(w, m),
             NEW v \in Workers
      PROVE  CreditChecks(v)'
  <2>1. CASE v = w
    BY <1>1, <2>1, CreditSteps
  <2>2. CASE v # w
    <3>1. /\ stage'[v] = stage[v] /\ task'[v] = task[v]
          /\ result'[v] = result[v] /\ fresh'[v] = fresh[v]
      BY <1>1, <2>2, OthersStay DEF ExecInv
    <3>2. \A r \in Row : lock[r] = v => lock'[r] = v
      <4>1. v \in Sessions \ {w} /\ w \in Sessions
        BY <2>2, WorkersAssumption
      <4>. QED
        BY <1>1, <4>1, LockStep, AcquireEffect, ReleaseEffect DEF ExecInv, ExecTypeOK
    <3>3. CreditChecks(v)
      BY CreditParts
    <3>. QED
      BY <3>1, <3>2, <3>3, CreditStays
  <2>. QED
    BY <2>1, <2>2
<1>2. ASSUME UNCHANGED <<stage, task, result, fresh, lock>>, NEW v \in Workers
      PROVE  CreditChecks(v)'
  BY <1>2, CreditParts, CreditStays
<1>3. ASSUME NEW w \in Workers, NEW m \in Published \cup Strays, Deliver(w, m) PROVE m \in Message
  BY StraysAssumption DEF Published, ExecInv, ExecTypeOK, StoreTypeOK, RowsAgree, Message
<1>4. \A v \in Workers : CreditChecks(v)'
  BY <1>1, <1>2, <1>3 DEF ExecNext, Accept, Prune, execVars, work
<1>5. PaidOutOpen'
  BY PaidOutStep
<1>. QED
  BY <1>4, <1>5 DEF CreditFindsWallet, PaidOutOpen, CreditChecks

\* A credit never meets a missing row, whichever of two settlements into one
\* missing wallet inserts it and however that one ends; the credited row is locked
\* until the commit, and what has been paid out was paid into a committed row.
THEOREM CreditsFindWallets == ExecSpec => []CreditFindsWallet
<1>1. ExecInit => CreditFindsWallet
  BY DEF ExecInit, CreditFindsWallet, InStatus, NoConversionRow
<1>2. ExecInv /\ CreditFindsWallet /\ [ExecNext]_execVars => CreditFindsWallet'
  BY StepCredits
<1>. QED
  BY <1>1, <1>2, ExecInvariance, PTL DEF ExecSpec

-----------------------------------------------------------------------------
(* Conservation. *)

\* The completed conversions of a wallet are finitely many, of natural amounts.
LEMMA CompletedFinite ==
  ASSUME StoreTypeOK, NEW w \in Wallets
  PROVE  /\ IsFiniteSet(SourcedAt(w)) /\ IsFiniteSet(TargetedAt(w))
         /\ SourcedAt(w) \subseteq Conversions /\ TargetedAt(w) \subseteq Conversions
         /\ \A c \in Conversions : SourceAmount[c] \in Nat /\ TargetAmount[c] \in Nat
         /\ SumOver(SourceAmount, SourcedAt(w)) \in Nat
         /\ SumOver(TargetAmount, TargetedAt(w)) \in Nat
<1>1. SourcedAt(w) \subseteq Conversions /\ TargetedAt(w) \subseteq Conversions
  BY DEF SourcedAt, TargetedAt, InStatus
<1>2. IsFiniteSet(SourcedAt(w)) /\ IsFiniteSet(TargetedAt(w))
  BY <1>1, FiniteAssumption, FS_Subset
<1>3. \A c \in Conversions : SourceAmount[c] \in Nat /\ TargetAmount[c] \in Nat
  BY TermsAssumption DEF SourceAmount, TargetAmount, StoreTypeOK, QuoteTerms
<1>. QED
  BY <1>1, <1>2, <1>3, SumType

\* A step that leaves the balances and the completed conversions alone.
LEMMA ConservedStays ==
  ASSUME StoreTypeOK, Conserved, UNCHANGED balance,
         \A c \in Conversions :
           /\ conversion'[c].status = "COMPLETED" <=> conversion[c].status = "COMPLETED"
           /\ conversion[c].status = "COMPLETED" => conversion'[c].quote = conversion[c].quote
  PROVE  Conserved'
<1> SUFFICES ASSUME NEW w \in Wallets
             PROVE  balance'[w] = Initial[w] - SumOver(SourceAmount', SourcedAt(w)')
                                            + SumOver(TargetAmount', TargetedAt(w)')
  BY DEF Conserved
<1>1. SourcedAt(w)' = SourcedAt(w) /\ TargetedAt(w)' = TargetedAt(w)
  BY DEF SourcedAt, TargetedAt, InStatus
<1>2. \A c \in SourcedAt(w) : SourceAmount'[c] = SourceAmount[c]
  BY DEF SourceAmount, SourcedAt, InStatus
<1>3. \A c \in TargetedAt(w) : TargetAmount'[c] = TargetAmount[c]
  BY DEF TargetAmount, TargetedAt, InStatus
<1>4. /\ SumOver(SourceAmount', SourcedAt(w)) = SumOver(SourceAmount, SourcedAt(w))
      /\ SumOver(TargetAmount', TargetedAt(w)) = SumOver(TargetAmount, TargetedAt(w))
  BY <1>2, <1>3, SumSame
<1>. QED
  BY <1>1, <1>4 DEF Conserved

\* The sums of a wallet gain the conversion that completes.
LEMMA Completes ==
  ASSUME NEW c \in Conversions, NEW x,
         \A d \in Conversions : conversion'[d].quote = conversion[d].quote,
         \A d \in Conversions : d # c => conversion'[d] = conversion[d],
         conversion[c].status # "COMPLETED", conversion'[c].status = "COMPLETED"
  PROVE  /\ c \notin SourcedAt(x) /\ c \notin TargetedAt(x)
         /\ SourcedAt(x)' = IF Terms[conversion[c].quote].source = x
                             THEN SourcedAt(x) \cup {c} ELSE SourcedAt(x)
         /\ TargetedAt(x)' = IF Terms[conversion[c].quote].target = x
                              THEN TargetedAt(x) \cup {c} ELSE TargetedAt(x)
<1>1. ASSUME NEW d \in Conversions
      PROVE  /\ conversion'[d].status = "COMPLETED" <=> conversion[d].status = "COMPLETED" \/ d = c
             /\ conversion'[d].quote = conversion[d].quote
  OBVIOUS
<1>2. \A d : d \in SourcedAt(x)' <=>
        d \in SourcedAt(x) \/ (d = c /\ Terms[conversion[c].quote].source = x)
  BY <1>1 DEF SourcedAt, InStatus
<1>3. \A d : d \in TargetedAt(x)' <=>
        d \in TargetedAt(x) \/ (d = c /\ Terms[conversion[c].quote].target = x)
  BY <1>1 DEF TargetedAt, InStatus
<1>4. c \notin SourcedAt(x) /\ c \notin TargetedAt(x)
  BY DEF SourcedAt, TargetedAt, InStatus
<1>5. SourcedAt(x)' = IF Terms[conversion[c].quote].source = x
                      THEN SourcedAt(x) \cup {c} ELSE SourcedAt(x)
  BY <1>2
<1>6. TargetedAt(x)' = IF Terms[conversion[c].quote].target = x
                       THEN TargetedAt(x) \cup {c} ELSE TargetedAt(x)
  BY <1>3
<1>. QED
  BY <1>4, <1>5, <1>6

LEMMA SettleConserves ==
  ASSUME ExecInv, Conserved, NEW w \in Workers, Settle(w)
  PROVE  Conserved'
<1> DEFINE c == task[w].conversion
           t == TermsOf(w)
<1>1. /\ c \in Conversions
      /\ \A d \in Conversions : d # c => conversion'[d] = conversion[d]
      /\ conversion'[c] = [conversion[c] EXCEPT !.status = StatusOf(result[w])]
      /\ conversion[c].status = fresh[w]
      /\ fresh[w] \in Executable
      /\ fresh[w] \in TerminalStatus => conversion' = conversion
  BY SettleRows
<1>2. conversion'[c].quote = conversion[c].quote /\ conversion'[c].status = StatusOf(result[w])
  BY <1>1 DEF ExecInv, ExecTypeOK, StoreTypeOK
<1>3. Matches(task[w]) /\ result[w] \in Outcome /\ StoreTypeOK
  BY SettleFinds DEF ExecInv, ExecTypeOK
<1>4. /\ conversion[c].quote \in Quotes /\ conversion[c].quote # None
      /\ t = Terms[conversion[c].quote]
      /\ t.source \in Wallets /\ t.target \in Wallets /\ t.source # t.target
      /\ t.sourceAmount \in Nat /\ t.targetAmount \in Nat
  BY <1>3, MessageRows, MatchedRows, SettledTerms, NoneAssumption DEF Settle, ExecInv, TermsOf
<1>5. ASSUME UNCHANGED balance, fresh[w] \in TerminalStatus \/ StatusOf(result[w]) # "COMPLETED"
      PROVE  Conserved'
  <2>1. \A d \in Conversions :
          /\ conversion'[d].status = "COMPLETED" <=> conversion[d].status = "COMPLETED"
          /\ conversion'[d].quote = conversion[d].quote
    BY <1>1, <1>2, <1>5 DEF Executable
  <2>. QED
    BY <1>3, <1>5, <2>1, ConservedStays
<1>6. CASE ~ Moves(fresh[w], result[w])
  BY <1>1, <1>3, <1>5, <1>6 DEF Settle, wallets, Moves, Executable, StatusOf, Outcome
<1>7. CASE ReleaseHold(t) /\ result[w] = "FAILURE"
  BY <1>5, <1>7 DEF ReleaseHold, StatusOf
<1>8. CASE Moves(fresh[w], result[w]) /\ result[w] = "SUCCESS" /\ CommitAndCredit(t)
  <2>1. fresh[w] = "EXECUTION_REQUESTED"
    BY <1>8, SettleMoves
  <2>2. conversion[c].status # "COMPLETED" /\ conversion'[c].status = "COMPLETED"
    BY <1>1, <1>2, <1>8, <2>1 DEF StatusOf
  <2>3. \A d \in Conversions : conversion'[d].quote = conversion[d].quote
    BY <1>1, <1>2
  <2>4. SourceAmount' = SourceAmount /\ TargetAmount' = TargetAmount
    BY <2>3, AmountsStay DEF TargetAmount
  <2>5. SourceAmount[c] = t.sourceAmount /\ TargetAmount[c] = t.targetAmount
    BY <1>1, <1>4 DEF SourceAmount, TargetAmount
  <2>6. ASSUME NEW x \in Wallets
        PROVE  balance'[x] = Initial[x] - SumOver(SourceAmount, SourcedAt(x)')
                                        + SumOver(TargetAmount, TargetedAt(x)')
    <3> DEFINE sourced == SumOver(SourceAmount, SourcedAt(x))
               targeted == SumOver(TargetAmount, TargetedAt(x))
    <3>1. /\ SourcedAt(x)' = IF t.source = x THEN SourcedAt(x) \cup {c} ELSE SourcedAt(x)
          /\ TargetedAt(x)' = IF t.target = x THEN TargetedAt(x) \cup {c} ELSE TargetedAt(x)
          /\ c \notin SourcedAt(x) /\ c \notin TargetedAt(x)
      <4>1. \A d \in Conversions : d # c => conversion'[d] = conversion[d]
        BY <1>1
      <4>2. c \in Conversions
        BY <1>1
      <4> HIDE DEF c, t
      <4>3. /\ c \notin SourcedAt(x) /\ c \notin TargetedAt(x)
            /\ SourcedAt(x)' = IF Terms[conversion[c].quote].source = x
                                THEN SourcedAt(x) \cup {c} ELSE SourcedAt(x)
            /\ TargetedAt(x)' = IF Terms[conversion[c].quote].target = x
                                 THEN TargetedAt(x) \cup {c} ELSE TargetedAt(x)
        BY <2>2, <2>3, <4>1, <4>2, Completes
      <4>. QED
        BY <1>4, <4>3
    <3>2. /\ IsFiniteSet(SourcedAt(x)) /\ IsFiniteSet(TargetedAt(x))
          /\ \A d \in SourcedAt(x) : SourceAmount[d] \in Nat
          /\ \A d \in TargetedAt(x) : TargetAmount[d] \in Nat
          /\ sourced \in Nat /\ targeted \in Nat
      BY <1>3, CompletedFinite
    <3>3. /\ SumOver(SourceAmount, SourcedAt(x) \cup {c}) = sourced + t.sourceAmount
          /\ SumOver(TargetAmount, TargetedAt(x) \cup {c}) = targeted + t.targetAmount
      <4>1. c \notin SourcedAt(x) /\ c \notin TargetedAt(x)
        BY <3>1
      <4>2. SourceAmount[c] \in Nat /\ TargetAmount[c] \in Nat
        BY <1>4, <2>5
      <4> HIDE DEF c, t
      <4>3. SumOver(SourceAmount, SourcedAt(x) \cup {c}) = sourced + SourceAmount[c]
        BY <3>2, <4>1, <4>2, SumInsert
      <4>4. SumOver(TargetAmount, TargetedAt(x) \cup {c}) = targeted + TargetAmount[c]
        BY <3>2, <4>1, <4>2, SumInsert
      <4>. QED
        BY <2>5, <4>3, <4>4
    <3>4. /\ SumOver(SourceAmount, SourcedAt(x)')
               = IF t.source = x THEN sourced + t.sourceAmount ELSE sourced
          /\ SumOver(TargetAmount, TargetedAt(x)')
               = IF t.target = x THEN targeted + t.targetAmount ELSE targeted
      BY <3>1, <3>3
    <3>5. balance'[x] = IF x = t.source THEN balance[x] - t.sourceAmount
                        ELSE IF x = t.target THEN balance[x] + t.targetAmount ELSE balance[x]
      BY <1>4, <1>8 DEF CommitAndCredit, ExecInv, ExecTypeOK, StoreTypeOK
    <3>6. balance[x] = Initial[x] - sourced + targeted /\ Initial[x] \in Nat
      BY InitialAssumption DEF Conserved
    <3> HIDE DEF sourced, targeted, t
    <3>7. balance[x] \in Nat
      BY DEF ExecInv, ExecTypeOK, StoreTypeOK
    <3>8. CASE x = t.source
      <4>1. /\ balance'[x] = balance[x] - t.sourceAmount
            /\ SumOver(SourceAmount, SourcedAt(x)') = sourced + t.sourceAmount
            /\ SumOver(TargetAmount, TargetedAt(x)') = targeted
        BY <1>4, <3>4, <3>5, <3>8
      <4>. QED
        BY <1>4, <3>2, <3>6, <3>7, <4>1
    <3>9. CASE x = t.target
      <4>1. /\ balance'[x] = balance[x] + t.targetAmount
            /\ SumOver(SourceAmount, SourcedAt(x)') = sourced
            /\ SumOver(TargetAmount, TargetedAt(x)') = targeted + t.targetAmount
        BY <1>4, <3>4, <3>5, <3>9
      <4>. QED
        BY <1>4, <3>2, <3>6, <3>7, <4>1
    <3>10. CASE x # t.source /\ x # t.target
      BY <3>2, <3>4, <3>5, <3>6, <3>7, <3>10
    <3>. QED
      BY <3>8, <3>9, <3>10
  <2>. QED
    BY <2>4, <2>6 DEF Conserved
<1>. QED
  BY <1>6, <1>7, <1>8 DEF Settle, t

LEMMA StepConserves ==
  ASSUME ExecInv, Conserved, [ExecNext]_execVars
  PROVE  Conserved'
<1>0. StoreTypeOK
  BY DEF ExecInv, ExecTypeOK
<1>1. CASE UNCHANGED tables
  BY <1>0, <1>1, ConservedStays DEF tables, wallets
<1>2. ASSUME NEW q \in Quotes, NEW c \in Conversions, NEW e \in Events, Accept(q, c, e)
      PROVE  Conserved'
  <2>1. Inserted(q, c, e)
    BY <1>2, AcceptInserts DEF ExecInv
  <2>2. UNCHANGED balance
    BY <1>2 DEF Accept, AcceptRows, ReserveFunds
  <2>. QED
    BY <1>0, <2>1, <2>2, ConservedStays DEF Inserted, NoConversionRow
<1>3. ASSUME NEW w \in Workers, Mark(w) PROVE Conserved'
  <2>1. UNCHANGED balance
    BY <1>3 DEF Mark, wallets
  <2>2. conversion' # conversion =>
          \A c \in Conversions :
            /\ conversion'[c].status = "COMPLETED" <=> conversion[c].status = "COMPLETED"
            /\ conversion'[c].quote = conversion[c].quote
    BY <1>3, MarkRows DEF ExecInv, ExecTypeOK, StoreTypeOK
  <2>. QED
    BY <1>0, <2>1, <2>2, ConservedStays
<1>. QED
  BY <1>1, <1>2, <1>3, SettleConserves, TablesChange

LEMMA InitConserved == ExecInit => Conserved
<1> SUFFICES ASSUME ExecInit, NEW w \in Wallets
             PROVE  balance[w] = Initial[w] - SumOver(SourceAmount, SourcedAt(w))
                                            + SumOver(TargetAmount, TargetedAt(w))
  BY DEF Conserved
<1>1. SourcedAt(w) = {} /\ TargetedAt(w) = {}
  BY DEF ExecInit, SourcedAt, TargetedAt, InStatus, NoConversionRow
<1>2. balance[w] = Initial[w] /\ Initial[w] \in Nat
  BY InitialAssumption DEF ExecInit
<1>. QED
  BY <1>1, <1>2, SumEmpty

\* A wallet's balance is its first one, less what its completed conversions took
\* and plus what they paid: no duplicate, failed or repaired delivery creates or
\* destroys money.
THEOREM MoneyConserved == ExecSpec => []Conserved
<1>1. ExecInv /\ Conserved /\ [ExecNext]_execVars => Conserved'
  BY StepConserves
<1>. QED
  BY <1>1, InitConserved, ExecInvariance, PTL DEF ExecSpec

-----------------------------------------------------------------------------
(* What the execution implements. *)

\* The conversion a delivery settles: its row, its terms and its status before
\* and after.
LEMMA SettledRow ==
  ASSUME ExecInv, NEW w \in Workers, Settle(w)
  PROVE  /\ task[w].conversion \in Conversions
         /\ conversion[task[w].conversion].quote \in Quotes
         /\ TermsOf(w) = Terms[conversion[task[w].conversion].quote]
         /\ conversion'[task[w].conversion].quote = conversion[task[w].conversion].quote
         /\ conversion'[task[w].conversion].status = StatusOf(result[w])
         /\ \A d \in Conversions : d # task[w].conversion => conversion'[d] = conversion[d]
<1>1. Matches(task[w]) /\ task[w] \in Message
  BY SettleFinds, MessageRows DEF Settle, ExecInv
<1>2. conversion[task[w].conversion].quote \in Quotes
  BY <1>1, MatchedRows DEF ExecInv
<1>3. /\ task[w].conversion \in Conversions
      /\ \A d \in Conversions : d # task[w].conversion => conversion'[d] = conversion[d]
      /\ conversion'[task[w].conversion]
           = [conversion[task[w].conversion] EXCEPT !.status = StatusOf(result[w])]
  BY SettleRows
<1>4. conversion[task[w].conversion] \in [status : ConversionStatus, quote : Quotes \cup {None},
                                         event : Events \cup {None}]
  BY <1>3 DEF ExecInv, ExecTypeOK, StoreTypeOK
<1>. QED
  BY <1>2, <1>3, <1>4 DEF TermsOf

\* The only conversion of its quote moves on: the quote's deal is that of the
\* new status, and no other quote's deal changes.
LEMMA DealMoves ==
  ASSUME RowsAgree, NEW c \in Conversions, conversion[c].quote \in Quotes,
         conversion'[c].quote = conversion[c].quote,
         \A d \in Conversions : d # c => conversion'[d] = conversion[d]
  PROVE  /\ Deal[conversion[c].quote] = DealOf({conversion[c].status})
         /\ Deal' = [Deal EXCEPT ![conversion[c].quote] = DealOf({conversion'[c].status})]
<1> DEFINE q == conversion[c].quote
<1>1. ConversionsOf(q) = {c}
  BY NoneAssumption DEF RowsAgree, ConversionsOf
<1>2. \A d \in Conversions : conversion'[d].quote = conversion[d].quote
  OBVIOUS
<1>3. \A p \in Quotes : ConversionsOf(p)' = ConversionsOf(p)
  BY <1>2 DEF ConversionsOf
<1>4. Deal'[q] = DealOf({conversion'[c].status})
  <2>1. {conversion'[d].status : d \in ConversionsOf(q)'} = {conversion'[c].status}
    BY <1>1, <1>3
  <2>2. Deal'[q] = DealOf({conversion'[d].status : d \in ConversionsOf(q)'})
    BY DEF Deal
  <2>. QED
    BY <2>1, <2>2
<1>5. ASSUME NEW p \in Quotes, p # q PROVE Deal'[p] = Deal[p]
  <2>1. c \notin ConversionsOf(p) /\ ConversionsOf(p) \subseteq Conversions
    BY <1>5 DEF ConversionsOf
  <2>2. \A d \in ConversionsOf(p) : conversion'[d].status = conversion[d].status
    BY <2>1
  <2>. QED
    BY <1>3, <2>2, DealSame
<1>6. Deal[q] = DealOf({conversion[c].status})
  BY <1>1, DealOfOne
<1>. QED
  BY <1>4, <1>5, <1>6, DealExcept

\* A mark leaves every deal as it is.
LEMMA MarkLedger ==
  ASSUME ExecInv, NEW w \in Workers, Mark(w)
  PROVE  UNCHANGED MoneyLedger!ledger
<1>1. UNCHANGED available
  BY DEF Mark, wallets
<1>2. CASE conversion' = conversion
  BY <1>1, <1>2 DEF MoneyLedger!ledger, Deal, ConversionsOf
<1>3. CASE conversion' # conversion
  <2>1. PICK c \in Conversions :
           /\ conversion[c].status = "FUNDS_RESERVED"
           /\ conversion' = [conversion EXCEPT ![c].status = "EXECUTION_REQUESTED"]
    BY <1>3, MarkRows DEF ExecInv
  <2>2. /\ conversion[c].quote \in Quotes /\ conversion'[c].quote = conversion[c].quote
        /\ conversion'[c].status = "EXECUTION_REQUESTED"
        /\ \A d \in Conversions : d # c => conversion'[d] = conversion[d]
    BY <2>1 DEF ExecInv, ExecTypeOK, StoreTypeOK, RowsAgree
  <2>3. /\ Deal[conversion[c].quote] = DealOf({"FUNDS_RESERVED"})
        /\ Deal' = [Deal EXCEPT ![conversion[c].quote] = DealOf({"EXECUTION_REQUESTED"})]
    <3>1. RowsAgree
      BY DEF ExecInv
    <3>. QED
      BY <2>1, <2>2, <3>1, DealMoves
  <2>4. DealOf({"FUNDS_RESERVED"}) = "held" /\ DealOf({"EXECUTION_REQUESTED"}) = "held"
    BY DEF DealOf
  <2>5. Deal' = Deal
    BY <2>2, <2>3, <2>4 DEF Deal
  <2>. QED
    BY <1>1, <2>5 DEF MoneyLedger!ledger
<1>. QED
  BY <1>2, <1>3

\* A settlement pays a held deal out, gives its funds back, or leaves it held.
LEMMA SettleLedger ==
  ASSUME ExecInv, NEW w \in Workers, Settle(w)
  PROVE  [MoneyLedger!LedgerNext]_(MoneyLedger!ledger)
<1> DEFINE c == task[w].conversion
           q == conversion[c].quote
<1>1. /\ c \in Conversions /\ q \in Quotes /\ TermsOf(w) = Terms[q]
      /\ conversion'[c].quote = q
      /\ conversion'[c].status = StatusOf(result[w])
      /\ \A d \in Conversions : d # c => conversion'[d] = conversion[d]
  BY SettledRow
<1>2. /\ conversion[c].status = fresh[w] /\ fresh[w] \in Executable
      /\ fresh[w] \in TerminalStatus => conversion' = conversion
      /\ result[w] \in Outcome
  BY SettleRows, SettleFinds
<1>3. /\ Deal[q] = DealOf({fresh[w]})
      /\ Deal' = [Deal EXCEPT ![q] = DealOf({StatusOf(result[w])})]
  <2>1. RowsAgree
    BY DEF ExecInv
  <2>. QED
    BY <1>1, <1>2, <2>1, DealMoves
<1>4. CASE ~ Moves(fresh[w], result[w])
  <2>1. UNCHANGED available
    BY <1>4 DEF Settle, wallets
  <2>2. CASE fresh[w] \in TerminalStatus
    BY <1>2, <2>1, <2>2 DEF MoneyLedger!ledger, Deal, ConversionsOf
  <2>3. CASE fresh[w] \notin TerminalStatus
    <3>1. fresh[w] = "EXECUTION_REQUESTED" /\ StatusOf(result[w]) = "REQUIRES_RECONCILIATION"
      BY <1>2, <1>4, <2>3 DEF Executable, Moves, StatusOf, Outcome
    <3>2. DealOf({"EXECUTION_REQUESTED"}) = "held" /\ DealOf({"REQUIRES_RECONCILIATION"}) = "held"
      BY DEF DealOf
    <3>3. Deal[q] = "held" /\ Deal' = [Deal EXCEPT ![q] = "held"]
      BY <1>3, <3>1, <3>2
    <3>4. Deal' = Deal
      BY <1>1, <3>3 DEF Deal
    <3>. QED
      BY <2>1, <3>4 DEF MoneyLedger!ledger
  <2>. QED
    BY <2>2, <2>3
<1>5. CASE Moves(fresh[w], result[w])
  <2>1. fresh[w] = "EXECUTION_REQUESTED" /\ Deal[q] = "held"
    BY <1>3, <1>5, SettleMoves DEF DealOf
  <2>2. CASE result[w] = "SUCCESS" /\ CommitAndCredit(Terms[q])
    <3>1. Deal' = [Deal EXCEPT ![q] = "completed"]
      BY <1>3, <2>2 DEF StatusOf, DealOf
    <3>2. MoneyLedger!PayOut(q)
      BY <2>1, <2>2, <3>1 DEF MoneyLedger!PayOut, MoneyLedger!Becomes, CommitAndCredit
    <3>. QED
      BY <1>1, <3>2 DEF MoneyLedger!LedgerNext
  <2>3. CASE result[w] = "FAILURE" /\ ReleaseHold(Terms[q])
    <3>1. Deal' = [Deal EXCEPT ![q] = "failed"]
      BY <1>3, <2>3 DEF StatusOf, DealOf
    <3>2. MoneyLedger!GiveBack(q)
      BY <2>1, <2>3, <3>1 DEF MoneyLedger!GiveBack, MoneyLedger!Becomes, ReleaseHold
    <3>. QED
      BY <1>1, <3>2 DEF MoneyLedger!LedgerNext
  <2>. QED
    BY <1>1, <1>5, <2>2, <2>3 DEF Settle
<1>. QED
  BY <1>4, <1>5

LEMMA ExecStepLedger ==
  ASSUME ExecInv, [ExecNext]_execVars
  PROVE  [MoneyLedger!LedgerNext]_(MoneyLedger!ledger)
<1>1. UNCHANGED tables => UNCHANGED MoneyLedger!ledger
  BY DEF tables, wallets, MoneyLedger!ledger, Deal, ConversionsOf
<1>2. ASSUME NEW q \in Quotes, NEW c \in Conversions, NEW e \in Events, Accept(q, c, e)
      PROVE  MoneyLedger!LedgerNext
  <2>1. StoreTypeOK /\ conversion[c].quote = None
    BY <1>2 DEF ExecInv, ExecTypeOK, RowsAgree, Accept, AcceptRows, CanInsert, NoConversionRow
  <2>2. AcceptRows(q, c, e, 0) /\ available[Terms[q].source] >= Terms[q].sourceAmount
    BY <1>2 DEF Accept, CanReserve
  <2>. QED
    BY <2>1, <2>2, AcceptRowsLedger
<1>. QED
  BY <1>1, <1>2, MarkLedger, SettleLedger, TablesChange

\* The execution of conversions implements the ledger: whatever is redelivered,
\* retried, raced or lost, a quote's deal is held once and then paid out or given
\* back, each in one piece with the funds.
THEOREM ExecutionImplementsLedger == ExecSpec => LedgerKept
<1>1. ExecInit => MoneyLedger!LedgerInit
  BY InitDeal DEF ExecInit, MoneyLedger!LedgerInit
<1>2. ExecInv /\ [ExecNext]_execVars => [MoneyLedger!LedgerNext]_(MoneyLedger!ledger)
  BY ExecStepLedger
<1>. QED
  BY <1>1, <1>2, ExecInvariance, PTL DEF ExecSpec, LedgerKept, MoneyLedger!LedgerSpec

\* A settlement's statements are one operation on each wallet they touch.
LEMMA SettleAccounts ==
  ASSUME ExecInv, NEW w \in Workers, Settle(w), Moves(fresh[w], result[w])
  PROVE  AccountStep
<1> DEFINE t == TermsOf(w)
<1>1. /\ t.source \in Wallets /\ t.target \in Wallets /\ t.source # t.target
      /\ t.sourceAmount \in Nat /\ t.targetAmount \in Nat
      /\ t.sourceAmount \in Amounts /\ t.targetAmount \in Amounts
  BY SettledRow, TermsAssumption DEF QuoteTerms, Amounts
<1>2. reserved[t.source] >= t.sourceAmount
  BY SettleMoves
<1> HIDE DEF t
<1>3. ASSUME NEW x \in Wallets
      PROVE  /\ available[x] \in Nat /\ reserved[x] \in Nat /\ balance[x] \in Nat
             /\ available[x] + reserved[x] = balance[x]
  BY DEF ExecInv, ExecTypeOK, StoreTypeOK, Backed
<1>4. CASE CommitAndCredit(t)
  <2>1. ASSUME NEW x \in Wallets
        PROVE  /\ reserved'[x] = IF x = t.source THEN reserved[x] - t.sourceAmount ELSE reserved[x]
               /\ available'[x] = IF x = t.target THEN available[x] + t.targetAmount ELSE available[x]
               /\ balance'[x] = IF x = t.source THEN balance[x] - t.sourceAmount
                                ELSE IF x = t.target THEN balance[x] + t.targetAmount ELSE balance[x]
    BY <1>1, <1>4 DEF CommitAndCredit, ExecInv, ExecTypeOK, StoreTypeOK
  <2>2. ASSUME NEW x \in Wallets, x = t.source PROVE Account(x)!AccountNext
    <3>1. /\ reserved'[x] = reserved[x] - t.sourceAmount
          /\ available'[x] = available[x]
          /\ balance'[x] = balance[x] - t.sourceAmount
      BY <1>1, <2>1, <2>2
    <3>2. available'[x] + reserved'[x] = balance'[x]
      BY <1>1, <1>3, <3>1
    <3>3. Account(x)!CommitReservation(t.sourceAmount)
      BY <1>2, <2>2, <3>1, <3>2 DEF Account!CommitReservation, Account!AssertInvariant
    <3>. QED
      BY <1>1, <3>3 DEF Account!AccountNext
  <2>3. ASSUME NEW x \in Wallets, x = t.target PROVE Account(x)!AccountNext
    <3>1. /\ reserved'[x] = reserved[x]
          /\ available'[x] = available[x] + t.targetAmount
          /\ balance'[x] = balance[x] + t.targetAmount
      BY <1>1, <2>1, <2>3
    <3>2. available'[x] + reserved'[x] = balance'[x]
      BY <1>1, <1>3, <3>1
    <3>3. Account(x)!Credit(t.targetAmount)
      BY <1>2, <2>3, <3>1, <3>2 DEF Account!Credit, Account!AssertInvariant
    <3>. QED
      BY <1>1, <3>3 DEF Account!AccountNext
  <2>4. \A x \in Wallets \ {t.source, t.target} : UNCHANGED Account(x)!account
    BY <2>1 DEF Account!account
  <2>. QED
    BY <1>1, <2>2, <2>3, <2>4 DEF AccountStep
<1>5. CASE ReleaseHold(t)
  <2>1. ASSUME NEW x \in Wallets
        PROVE  /\ reserved'[x] = IF x = t.source THEN reserved[x] - t.sourceAmount ELSE reserved[x]
               /\ available'[x] = IF x = t.source THEN available[x] + t.sourceAmount ELSE available[x]
               /\ balance'[x] = balance[x]
    BY <1>1, <1>5 DEF ReleaseHold, ExecInv, ExecTypeOK, StoreTypeOK
  <2>2. ASSUME NEW x \in Wallets, x = t.source PROVE Account(x)!AccountNext
    <3>1. /\ reserved'[x] = reserved[x] - t.sourceAmount
          /\ available'[x] = available[x] + t.sourceAmount
          /\ balance'[x] = balance[x]
      BY <1>1, <2>1, <2>2
    <3>2. available'[x] + reserved'[x] = balance'[x]
      BY <1>1, <1>3, <3>1
    <3>3. Account(x)!Release(t.sourceAmount)
      BY <1>2, <2>2, <3>1, <3>2 DEF Account!Release, Account!AssertInvariant
    <3>. QED
      BY <1>1, <3>3 DEF Account!AccountNext
  <2>3. \A x \in Wallets \ {t.source} : UNCHANGED Account(x)!account
    BY <2>1 DEF Account!account
  <2>. QED
    BY <1>1, <2>2, <2>3 DEF AccountStep
<1>. QED
  BY <1>4, <1>5 DEF Settle, t

LEMMA ExecStepAccounts ==
  ASSUME ExecInv, [ExecNext]_execVars
  PROVE  [AccountStep]_wallets
<1>1. UNCHANGED tables => UNCHANGED wallets
  BY DEF tables
<1>2. ASSUME NEW q \in Quotes, NEW c \in Conversions, NEW e \in Events, Accept(q, c, e)
      PROVE  AccountStep
  <2>1. /\ StoreTypeOK /\ Backed
        /\ AcceptRows(q, c, e, 0) /\ available[Terms[q].source] >= Terms[q].sourceAmount
    BY <1>2 DEF Accept, CanReserve, ExecInv, ExecTypeOK
  <2>. QED
    BY <2>1, AcceptRowsAccounts
<1>3. ASSUME NEW w \in Workers, Mark(w) PROVE UNCHANGED wallets
  BY <1>3 DEF Mark
<1>4. ASSUME NEW w \in Workers, Settle(w) PROVE [AccountStep]_wallets
  BY <1>4, SettleAccounts DEF Settle
<1>. QED
  BY <1>1, <1>2, <1>3, <1>4, TablesChange

\* The UPDATEs of a settlement on the source and the target wallet are one
\* commitReservation and one credit, or one release, that the aggregate's guards
\* and its closing assertion would admit.
THEOREM ExecutionKeepsAccounts == ExecSpec => AccountsKept
<1>1. ExecInit => \A w \in Wallets : Account(w)!Open
  BY InitialAssumption DEF ExecInit, Account!Open
<1>2. ExecInv /\ [ExecNext]_execVars => [AccountStep]_wallets
  BY ExecStepAccounts
<1>. QED
  BY <1>1, <1>2, ExecInvariance, PTL DEF ExecSpec, AccountsKept, AccountStep

LEMMA ExecStepLifecycle ==
  ASSUME ExecInv, [ExecNext]_execVars
  PROVE  LifecycleStep
<1>0. conversion \in [Conversions -> [status : ConversionStatus, quote : Quotes \cup {None},
                                      event : Events \cup {None}]]
  BY DEF ExecInv, ExecTypeOK, StoreTypeOK
<1>1. CASE UNCHANGED tables
  BY <1>1 DEF tables, LifecycleStep
<1>2. ASSUME NEW q \in Quotes, NEW c \in Conversions, NEW e \in Events, Accept(q, c, e)
      PROVE  LifecycleStep
  <2>1. conversion[c].quote = None /\ conversion[c].event = None
    BY <1>0, <1>2 DEF ExecInv, RowsAgree, Accept, AcceptRows, CanInsert, NoConversionRow
  <2>. QED
    BY <1>2, <2>1, AcceptRowsLifecycle DEF Accept, ExecInv, ExecTypeOK
<1>3. ASSUME NEW w \in Workers, Mark(w), conversion' # conversion
      PROVE  LifecycleStep
  <2>1. PICK c \in Conversions :
           /\ conversion[c].status = "FUNDS_RESERVED"
           /\ conversion' = [conversion EXCEPT ![c].status = "EXECUTION_REQUESTED"]
    BY <1>3, MarkRows DEF ExecInv
  <2>2. conversion[c].event \in Events
    BY <2>1 DEF ExecInv, RowsAgree
  <2>3. conversion'[c] = [conversion[c] EXCEPT !.status = "EXECUTION_REQUESTED"]
    BY <1>0, <2>1
  <2>4. Aggregate(c)!Requested
    BY <1>0, <2>1, <2>2, <2>3
    DEF Aggregate!Requested, Aggregate!CanMarkExecutionRequested, Aggregate!MarkExecutionRequested
  <2>5. \A d \in Conversions : d # c => conversion'[d] = conversion[d]
    BY <1>0, <2>1
  <2>. QED
    BY <2>4, <2>5 DEF LifecycleStep, Aggregate!AggregateNext
<1>4. ASSUME NEW w \in Workers, Settle(w) PROVE LifecycleStep
  <2> DEFINE c == task[w].conversion
  <2>1. /\ c \in Conversions
        /\ \A d \in Conversions : d # c => conversion'[d] = conversion[d]
        /\ conversion'[c] = [conversion[c] EXCEPT !.status = StatusOf(result[w])]
        /\ conversion[c].status = fresh[w]
    BY <1>4, SettleRows
  <2>2. result[w] \in Outcome /\ Applicable(fresh[w], result[w])
    BY <1>4, SettleFinds
  <2>3. ASSUME NEW d \in Conversions, d = c PROVE Aggregate(d)!Executed
    BY <2>1, <2>2, <2>3
    DEF Aggregate!Executed, Aggregate!CanApply, Aggregate!ApplyExecutionResult, Aggregate!Reached,
        Applicable, StatusOf, Outcome
  <2>. QED
    BY <2>1, <2>3 DEF LifecycleStep, Aggregate!AggregateNext
<1>. QED
  BY <1>1, <1>2, <1>3, <1>4, TablesChange DEF Mark, LifecycleStep

\* The UPDATE that marks a conversion behind the aggregate's back, and the
\* settlements on copies read before, take the stored conversion only where
\* markExecutionRequested and applyExecutionResult would.
THEOREM ExecutionKeepsLifecycle == ExecSpec => LifecycleKept
<1>1. ExecInit => \A c \in Conversions : conversion[c] = NoConversionRow
  BY DEF ExecInit
<1>2. ExecInv /\ [ExecNext]_execVars => [LifecycleStep]_conversion
  BY ExecStepLifecycle
<1>. QED
  BY <1>1, <1>2, ExecInvariance, PTL DEF ExecSpec, LifecycleKept, LifecycleStep
=============================================================================
