-------------------------- MODULE AcceptQuoteProofs -------------------------
(***************************************************************************)
(* Theorems about the accept transaction, for any number of sessions, keys, *)
(* quotes and wallets, any amounts and any clock.                           *)
(*                                                                         *)
(* TypeOK alone is not inductive: that a reservation leaves `available`     *)
(* non-negative rests on the check made two statements before the commit    *)
(* still being true there.  IInv adds what the row locks keep true.         *)
(***************************************************************************)
EXTENDS AcceptQuote, StoreTheorems

IInv == TypeOK /\ ChecksStayTrue /\ Backed

LEMMA InitIInv == Init => IInv
<1> SUFFICES ASSUME Init PROVE IInv
  OBVIOUS
<1>1. TypeOK
  <2>1. StoreTypeOK
    <3>1. quote \in [Quotes -> [status : QuoteStatus, expiresAt : Nat,
                               acceptedAt : Nat \cup {None}]]
      BY DEF Init, StoreInit, NoQuoteRow, QuoteStatus
    <3>2. conversion \in [Conversions -> [status : ConversionStatus,
                                         quote : Quotes \cup {None},
                                         event : Events \cup {None}]]
      BY DEF Init, StoreInit, NoConversionRow, ConversionStatus
    <3>. QED
      BY <3>1, <3>2, InitialAssumption DEF Init, StoreInit, StoreTypeOK
  <2>2. record \in [Keys -> [state : RecordState, quote : Quotes \cup {None},
                             conversion : Conversions \cup {None}, createdAt : Nat]]
    <3>1. PICK q \in [StuckKeys -> Quotes] :
            record = [k \in Keys |-> IF k \in StuckKeys THEN ClaimOf(q[k], 0) ELSE NoRecord]
      BY DEF Init
    <3>. QED
      BY <3>1 DEF ClaimOf, NoRecord, RecordState
  <2>. QED
    BY <2>1, <2>2 DEF Init, TypeOK, Location, NoReply, Outcomes
<1>2. ChecksStayTrue
  BY NoneAssumption DEF Init, StoreInit, ChecksStayTrue, InTransaction
<1>3. Backed
  BY InitBacked DEF Init, StoreInit
<1>. QED
  BY <1>1, <1>2, <1>3 DEF IInv

-----------------------------------------------------------------------------
(* Types. *)

\* The rows a request touches exist.
LEMMA RequestRows ==
  ASSUME TypeOK, NEW s \in Sessions
  PROVE  /\ request[s].key \in Keys /\ request[s].key \in Row
         /\ request[s].quote \in Quotes /\ request[s].quote \in Row
         /\ Terms[request[s].quote].source \in Wallets
         /\ Terms[request[s].quote].source \in Row
         /\ Terms[request[s].quote].sourceAmount \in Nat \ {0}
BY TermsAssumption DEF TypeOK, Row, QuoteTerms

LEMMA AnswerType ==
  ASSUME TypeOK, NEW s \in Sessions, NEW outcome \in Outcomes,
         NEW c \in Conversions \cup {None}, Answer(s, outcome, c)
  PROVE  /\ pc' \in [Sessions -> Location]
         /\ began' \in [Sessions -> Nat] /\ now' \in [Sessions -> Nat]
         /\ reply' \in [Sessions -> [outcome : Outcomes, conversion : Conversions \cup {None}]]
BY DEF TypeOK, Answer, Location

LEMMA AbortType ==
  ASSUME TypeOK, NEW s \in Sessions, NEW error \in Errors, Abort(s, error)
  PROVE  TypeOK'
<1>1. StoreTypeOK'
  BY ReleaseEffect DEF Abort, TypeOK, StoreTypeOK, tables, wallets
<1>2. error \in Outcomes
  BY DEF Outcomes
<1>. QED
  BY <1>1, <1>2, AnswerType DEF Abort, TypeOK

\* A step that takes one free row and moves on.
LEMMA AcquireType ==
  ASSUME TypeOK, NEW s \in Sessions, NEW row \in Row, Free(row), Acquire(s, row), UNCHANGED tables
  PROVE  StoreTypeOK'
BY AcquireEffect DEF TypeOK, StoreTypeOK, tables, wallets

LEMMA CommitType ==
  ASSUME TypeOK, ChecksStayTrue, NEW s \in Sessions, NEW c \in Conversions, NEW e \in Events,
         Commit(s, c, e)
  PROVE  TypeOK'
<1> DEFINE q == request[s].quote
           t == Terms[q]
<1>1. q \in Quotes /\ t.source \in Wallets /\ t.sourceAmount \in Nat /\ request[s].key \in Keys
  BY RequestRows
<1>2. available[t.source] >= t.sourceAmount
  BY DEF Commit, ChecksStayTrue
<1>3. StoreTypeOK'
  <2>1. lock' \in [Row -> Sessions \cup {None}]
    BY ReleaseEffect DEF Commit, TypeOK
  <2>2. now[s] \in Nat
    BY DEF TypeOK
  <2>. QED
    BY <1>1, <1>2, <2>1, <2>2, AcceptRowsType DEF Commit, TypeOK, AcceptTime
<1>4. record' \in [Keys -> [state : RecordState, quote : Quotes \cup {None},
                           conversion : Conversions \cup {None}, createdAt : Nat]]
  BY <1>1 DEF Commit, Complete, TypeOK, RecordState
<1>5. {"created", "SERVER_ERROR"} \subseteq Outcomes
  BY DEF Outcomes, Errors
<1>. QED
  BY <1>3, <1>4, <1>5, AnswerType DEF Commit, TypeOK

LEMMA StepType ==
  ASSUME TypeOK, ChecksStayTrue, [Next]_vars
  PROVE  TypeOK'
<1>1. CASE Tick
  BY <1>1 DEF Tick, TypeOK, StoreTypeOK, tables, wallets
<1>2. ASSUME NEW q \in Quotes, CreateQuote(q) PROVE TypeOK'
  <2>1. quote' \in [Quotes -> [status : QuoteStatus, expiresAt : Nat, acceptedAt : Nat \cup {None}]]
    BY <1>2, TimingAssumption DEF CreateQuote, TypeOK, StoreTypeOK, QuoteStatus
  <2>. QED
    BY <1>2, <2>1 DEF CreateQuote, TypeOK, StoreTypeOK, wallets
<1>3. ASSUME NEW s \in Sessions, NEW k \in Keys, NEW q \in Quotes, Submit(s, k, q) PROVE TypeOK'
  <2>1. /\ pc' \in [Sessions -> Location]
        /\ request' \in [Sessions -> [key : Keys, quote : Quotes]]
        /\ reply' \in [Sessions -> [outcome : Outcomes, conversion : Conversions \cup {None}]]
    BY <1>3 DEF Submit, TypeOK, Location, NoReply, Outcomes
  <2>. QED
    BY <1>3, <2>1 DEF Submit, TypeOK, StoreTypeOK, tables, wallets
<1>4. ASSUME NEW s \in Sessions, TryBegin(s) PROVE TypeOK'
  <2>1. CASE Free(request[s].key) /\ Acquire(s, request[s].key) /\ pc' = [pc EXCEPT ![s] = "read"]
                /\ now' = [now EXCEPT ![s] = clock]
    <3>1. StoreTypeOK'
      BY <1>4, <2>1, RequestRows, AcquireType DEF TryBegin
    <3>. QED
      BY <1>4, <2>1, <3>1 DEF TryBegin, TypeOK, Location
  <2>2. CASE pc' = [pc EXCEPT ![s] = "find"] /\ UNCHANGED <<lock, now>>
    BY <1>4, <2>2 DEF TryBegin, TypeOK, StoreTypeOK, tables, wallets, Location
  <2>. QED
    BY <1>4, <2>1, <2>2 DEF TryBegin
<1>5. ASSUME NEW s \in Sessions, Find(s) PROVE TypeOK'
  <2>1. /\ pc' \in [Sessions -> Location]
        /\ began' \in [Sessions -> Nat] /\ now' \in [Sessions -> Nat]
        /\ reply' \in [Sessions -> [outcome : Outcomes, conversion : Conversions \cup {None}]]
    <3>1. CASE pc' = [pc EXCEPT ![s] = "wait"] /\ UNCHANGED <<began, now, reply>>
      BY <3>1 DEF TypeOK, Location
    <3>2. CASE \E outcome \in Outcomes, c \in Conversions \cup {None} : Answer(s, outcome, c)
      BY <3>2, AnswerType
    <3>3. record[request[s].key].conversion \in Conversions \cup {None}
      BY RequestRows DEF TypeOK
    <3>4. {"IDEMPOTENCY_RACE", "IDEMPOTENCY_KEY_REUSE", "replay"} \subseteq Outcomes
      BY DEF Outcomes, Errors, Refusals
    <3>. QED
      BY <1>5, <3>1, <3>2, <3>3, <3>4 DEF Find
  <2>. QED
    BY <1>5, <2>1 DEF Find, TypeOK, StoreTypeOK, tables, wallets
<1>6. ASSUME NEW s \in Sessions, Poll(s) PROVE TypeOK'
  <2>1. record[request[s].key].conversion \in Conversions \cup {None}
    BY RequestRows DEF TypeOK
  <2>2. {"IDEMPOTENCY_IN_PROGRESS", "replay"} \subseteq Outcomes
    BY DEF Outcomes, Errors
  <2>3. \E outcome \in Outcomes, c \in Conversions \cup {None} : Answer(s, outcome, c)
    BY <1>6, <2>1, <2>2 DEF Poll
  <2>. QED
    BY <1>6, <2>3, AnswerType DEF Poll, TypeOK, StoreTypeOK, tables, wallets
<1>7. ASSUME NEW s \in Sessions, NEW error \in Errors, Abort(s, error) PROVE TypeOK'
  BY <1>7, AbortType
<1>8. ASSUME NEW s \in Sessions, NEW next \in Location, pc' = [pc EXCEPT ![s] = next],
             UNCHANGED <<tables, record, clock, request, began, now, reply>>, StoreTypeOK'
      PROVE  TypeOK'
  BY <1>8 DEF TypeOK
<1>9. ASSUME NEW s \in Sessions, ReadQuote(s) PROVE TypeOK'
  <2>1. {"QUOTE_NOT_FOUND", "QUOTE_ALREADY_ACCEPTED", "QUOTE_EXPIRED"} \subseteq Errors
    BY DEF Errors, Refusals
  <2>2. UNCHANGED <<tables, lock>> => StoreTypeOK'
    BY DEF TypeOK, StoreTypeOK, tables, wallets
  <2>3. "save" \in Location
    BY DEF Location
  <2>. QED
    BY <1>9, <2>1, <2>2, <2>3, <1>7, <1>8 DEF ReadQuote
<1>10. ASSUME NEW s \in Sessions, SaveAccepted(s) PROVE TypeOK'
  <2>1. "QUOTE_ACCEPT_CONFLICT" \in Errors /\ "reserve" \in Location
    BY DEF Errors, Refusals, Location
  <2>2. Free(request[s].quote) /\ Acquire(s, request[s].quote) /\ UNCHANGED tables => StoreTypeOK'
    BY RequestRows, AcquireType
  <2>. QED
    BY <1>10, <2>1, <2>2, <1>7, <1>8 DEF SaveAccepted
<1>11. ASSUME NEW s \in Sessions, Reserve(s) PROVE TypeOK'
  <2> DEFINE w == Terms[request[s].quote].source
  <2>1. "INSUFFICIENT_AVAILABLE_BALANCE" \in Errors /\ "commit" \in Location
    BY DEF Errors, Refusals, Location
  <2>2. Free(w) /\ Acquire(s, w) /\ UNCHANGED tables => StoreTypeOK'
    BY RequestRows, AcquireType
  <2>. QED
    BY <1>11, <2>1, <2>2, <1>7, <1>8 DEF Reserve
<1>12. ASSUME NEW s \in Sessions, TransactionFails(s) PROVE TypeOK'
  BY <1>12, <1>7 DEF TransactionFails, Errors
<1>13. CASE DeleteExpired
  <2>1. PICK batch : record' = [k \in Keys |-> IF k \in batch THEN NoRecord ELSE record[k]]
    BY <1>13 DEF DeleteExpired
  <2>2. NoRecord \in [state : RecordState, quote : Quotes \cup {None},
                     conversion : Conversions \cup {None}, createdAt : Nat]
    BY DEF NoRecord, RecordState
  <2>. QED
    BY <1>13, <2>1, <2>2 DEF DeleteExpired, TypeOK, StoreTypeOK, tables, wallets
<1>14. CASE UNCHANGED vars
  BY <1>14 DEF vars, TypeOK, StoreTypeOK, tables, wallets
<1>. QED
  BY <1>1, <1>2, <1>3, <1>4, <1>5, <1>6, <1>9, <1>10, <1>11, <1>12, <1>13, <1>14, CommitType
  DEF Next, Step

-----------------------------------------------------------------------------
(* Checks stay true. *)

\* ChecksStayTrue of one session.
Checks(s) ==
  LET k == request[s].key
      q == request[s].quote
      t == Terms[q] IN
  /\ pc[s] \in InTransaction => lock[k] = s /\ record[k].state = "missing"
  /\ pc[s] \in {"save", "reserve", "commit"} =>
       quote[q].status # "NONE" /\ now[s] <= quote[q].expiresAt
  /\ pc[s] \in {"reserve", "commit"} => lock[q] = s /\ quote[q].status = "ACTIVE"
  /\ pc[s] = "commit" => lock[t.source] = s /\ available[t.source] >= t.sourceAmount
  /\ pc[s] \notin InTransaction => \A r \in Row : lock[r] # s

\* A session whose own state and locks a step leaves alone keeps its checks when
\* the rows it has locked, and the lifetime of quotes, are left alone too.
LEMMA BystanderChecks ==
  ASSUME TypeOK, NEW u \in Sessions, Checks(u),
         pc'[u] = pc[u], request'[u] = request[u], now'[u] = now[u],
         \A r \in Row : lock'[r] = u <=> lock[r] = u,
         \A k \in Keys : lock[k] = u /\ record[k].state = "missing" => record'[k].state = "missing",
         \A q \in Quotes : quote[q].status # "NONE" =>
            quote'[q].status # "NONE" /\ quote'[q].expiresAt = quote[q].expiresAt,
         \A q \in Quotes : lock[q] = u /\ quote[q].status = "ACTIVE" => quote'[q].status = "ACTIVE",
         \A w \in Wallets : lock[w] = u => available'[w] = available[w]
  PROVE  Checks(u)'
<1> DEFINE k == request[u].key
           q == request[u].quote
           w == Terms[q].source
<1>1. k \in Keys /\ k \in Row /\ q \in Quotes /\ q \in Row /\ w \in Wallets /\ w \in Row
  BY RequestRows
<1>2. pc[u] \in InTransaction => lock'[k] = u /\ record'[k].state = "missing"
  BY <1>1 DEF Checks
<1>3. pc[u] \in {"save", "reserve", "commit"} => quote'[q].status # "NONE" /\ now[u] <= quote'[q].expiresAt
  BY <1>1 DEF Checks
<1>4. pc[u] \in {"reserve", "commit"} => lock'[q] = u /\ quote'[q].status = "ACTIVE"
  BY <1>1 DEF Checks
<1>5. pc[u] = "commit" => lock'[w] = u /\ available'[w] >= Terms[q].sourceAmount
  BY <1>1 DEF Checks
<1>6. pc[u] \notin InTransaction => \A r \in Row : lock'[r] # u
  BY DEF Checks
<1>. QED
  BY <1>2, <1>3, <1>4, <1>5, <1>6 DEF Checks

\* Answering and releasing: the session is idle and holds nothing.
LEMMA AnsweredChecks ==
  ASSUME TypeOK, NEW s \in Sessions, pc'[s] = "idle", \A r \in Row : lock'[r] # s
  PROVE  Checks(s)'
BY DEF Checks, InTransaction

LEMMA AbortChecks ==
  ASSUME TypeOK, ChecksStayTrue, NEW s \in Sessions, NEW error, Abort(s, error)
  PROVE  ChecksStayTrue'
<1>1. StoreTypeOK /\ s \in DOMAIN pc
  BY DEF TypeOK
<1>2. Checks(s)'
  BY <1>1, ReleaseEffect, AnsweredChecks DEF Abort, Answer
<1>3. ASSUME NEW u \in Sessions, u # s PROVE Checks(u)'
  <2>1. pc'[u] = pc[u] /\ now'[u] = now[u]
    BY <1>3 DEF Abort, Answer, TypeOK
  <2>2. Checks(u)
    BY DEF ChecksStayTrue, Checks
  <2>3. \A r \in Row : lock'[r] = u <=> lock[r] = u
    BY <1>1, <1>3, ReleaseEffect DEF Abort
  <2>. QED
    BY <2>1, <2>2, <2>3, BystanderChecks DEF Abort, tables, wallets
<1>. QED
  BY <1>2, <1>3 DEF ChecksStayTrue, Checks

\* A step that locks a free row, or none, and moves s on.
LEMMA MoveChecks ==
  ASSUME TypeOK, ChecksStayTrue, NEW s \in Sessions, UNCHANGED <<tables, record, request>>,
         \A u \in Sessions \ {s} : pc'[u] = pc[u] /\ now'[u] = now[u],
         UNCHANGED lock \/ \E r \in Row : Free(r) /\ Acquire(s, r),
         Checks(s)'
  PROVE  ChecksStayTrue'
<1>1. ASSUME NEW u \in Sessions, u # s PROVE Checks(u)'
  <2>1. Checks(u)
    BY DEF ChecksStayTrue, Checks
  <2>2. \A r \in Row : lock'[r] = u <=> lock[r] = u
    BY <1>1, AcquireEffect DEF TypeOK
  <2>. QED
    BY <1>1, <2>1, <2>2, BystanderChecks DEF tables, wallets
<1>. QED
  BY <1>1 DEF ChecksStayTrue, Checks

LEMMA CommitChecks ==
  ASSUME TypeOK, ChecksStayTrue, NEW s \in Sessions, NEW c \in Conversions, NEW e \in Events,
         Commit(s, c, e)
  PROVE  ChecksStayTrue'
<1> DEFINE q == request[s].quote
           t == Terms[q]
           k == request[s].key
<1>1. /\ q \in Quotes /\ t.source \in Wallets /\ k \in Keys
      /\ q \in Row /\ t.source \in Row /\ k \in Row
  BY RequestRows
<1>2. pc[s] = "commit" /\ lock[k] = s /\ lock[q] = s /\ lock[t.source] = s
  BY DEF Commit, ChecksStayTrue, InTransaction
<1>3. Checks(s)'
  BY ReleaseEffect, AnsweredChecks DEF Commit, Answer, TypeOK
<1>4. ASSUME NEW u \in Sessions, u # s PROVE Checks(u)'
  <2>1. pc'[u] = pc[u] /\ now'[u] = now[u] /\ request'[u] = request[u]
    BY <1>4 DEF Commit, Answer, TypeOK
  <2>2. Checks(u)
    BY DEF ChecksStayTrue, Checks
  <2>3. \A r \in Row : lock'[r] = u <=> lock[r] = u
    BY <1>4, ReleaseEffect DEF Commit, TypeOK
  <2>4. \A l \in Keys : lock[l] = u => record'[l] = record[l]
    BY <1>1, <1>2, <1>4 DEF Commit, Complete, TypeOK
  <2>5. \A p \in Quotes : /\ quote'[p].expiresAt = quote[p].expiresAt
                          /\ quote[p].status # "NONE" => quote'[p].status # "NONE"
                          /\ lock[p] = u => quote'[p] = quote[p]
    BY <1>1, <1>2, <1>4 DEF Commit, AcceptRows, MarkAccepted, TypeOK, StoreTypeOK
  <2>6. \A w \in Wallets : lock[w] = u => available'[w] = available[w]
    BY <1>1, <1>2, <1>4 DEF Commit, AcceptRows, ReserveFunds, TypeOK, StoreTypeOK
  <2>. QED
    BY <2>1, <2>2, <2>3, <2>4, <2>5, <2>6, BystanderChecks
<1>. QED
  BY <1>3, <1>4 DEF ChecksStayTrue, Checks

LEMMA StepChecks ==
  ASSUME TypeOK, ChecksStayTrue, [Next]_vars
  PROVE  ChecksStayTrue'
<1>1. CASE Tick
  BY <1>1 DEF Tick, ChecksStayTrue, tables, wallets
<1>2. ASSUME NEW q \in Quotes, CreateQuote(q) PROVE ChecksStayTrue'
  <2>1. ASSUME NEW u \in Sessions PROVE Checks(u)'
    <3>1. \A p \in Quotes : quote[p].status # "NONE" => quote'[p] = quote[p]
      BY <1>2 DEF CreateQuote, TypeOK, StoreTypeOK
    <3>2. Checks(u)
      BY DEF ChecksStayTrue, Checks
    <3>. QED
      BY <1>2, <3>1, <3>2, BystanderChecks DEF CreateQuote, wallets
  <2>. QED
    BY <2>1 DEF ChecksStayTrue, Checks
<1>3. ASSUME NEW s \in Sessions, NEW k \in Keys, NEW q \in Quotes, Submit(s, k, q)
      PROVE ChecksStayTrue'
  <2>1. Checks(s)'
    BY <1>3 DEF Submit, Checks, ChecksStayTrue, TypeOK, InTransaction
  <2>2. ASSUME NEW u \in Sessions, u # s PROVE Checks(u)'
    <3>1. Checks(u) /\ pc'[u] = pc[u] /\ request'[u] = request[u]
      BY <1>3, <2>2 DEF Submit, ChecksStayTrue, Checks, TypeOK
    <3>. QED
      BY <1>3, <3>1, BystanderChecks DEF Submit, tables, wallets
  <2>. QED
    BY <2>1, <2>2 DEF ChecksStayTrue, Checks
<1>4. ASSUME NEW s \in Sessions, TryBegin(s) PROVE ChecksStayTrue'
  <2> DEFINE k == request[s].key
  <2>1. CASE /\ Unclaimed(k) /\ Free(k) /\ Acquire(s, k)
             /\ pc' = [pc EXCEPT ![s] = "read"] /\ now' = [now EXCEPT ![s] = clock]
    <3>1. k \in Row /\ lock'[k] = s
      BY <2>1, RequestRows, AcquireEffect DEF TypeOK
    <3>2. Checks(s)'
      BY <1>4, <2>1, <3>1 DEF TryBegin, Checks, Unclaimed, InTransaction, TypeOK
    <3>3. \A u \in Sessions \ {s} : pc'[u] = pc[u] /\ now'[u] = now[u]
      BY <2>1 DEF TypeOK
    <3>. QED
      BY <1>4, <2>1, <3>1, <3>2, <3>3, MoveChecks DEF TryBegin
  <2>2. CASE pc' = [pc EXCEPT ![s] = "find"] /\ UNCHANGED <<lock, now>>
    <3>1. Checks(s)'
      BY <1>4, <2>2 DEF TryBegin, Checks, ChecksStayTrue, InTransaction, TypeOK
    <3>. QED
      BY <1>4, <2>2, <3>1, MoveChecks DEF TryBegin, TypeOK
  <2>. QED
    BY <1>4, <2>1, <2>2 DEF TryBegin
<1>5. ASSUME NEW s \in Sessions, Find(s) \/ Poll(s) PROVE ChecksStayTrue'
  <2>1. /\ pc[s] \notin InTransaction
        /\ pc' \in {[pc EXCEPT ![s] = "wait"], [pc EXCEPT ![s] = "idle"]}
        /\ \A u \in Sessions \ {s} : now'[u] = now[u]
        /\ UNCHANGED <<tables, lock, record, clock, request>>
    BY <1>5 DEF Find, Poll, Answer, InTransaction, TypeOK
  <2>2. \A r \in Row : lock[r] # s
    BY <2>1 DEF ChecksStayTrue
  <2>3. Checks(s)'
    BY <2>1, <2>2 DEF Checks, InTransaction, TypeOK
  <2>. QED
    BY <2>1, <2>3, MoveChecks DEF TypeOK
<1>6. ASSUME NEW s \in Sessions, ReadQuote(s) PROVE ChecksStayTrue'
  <2>1. CASE /\ pc' = [pc EXCEPT ![s] = "save"]
             /\ quote[request[s].quote].status = "ACTIVE"
             /\ now[s] <= quote[request[s].quote].expiresAt
             /\ UNCHANGED <<tables, lock, record, clock, request, now, reply>>
    <3>1. Checks(s)'
      BY <1>6, <2>1 DEF ReadQuote, Checks, ChecksStayTrue, InTransaction, TypeOK, tables, wallets
    <3>. QED
      BY <2>1, <3>1, MoveChecks DEF TypeOK
  <2>. QED
    BY <1>6, <2>1, AbortChecks DEF ReadQuote
<1>7. ASSUME NEW s \in Sessions, SaveAccepted(s) PROVE ChecksStayTrue'
  <2> DEFINE q == request[s].quote
  <2>1. CASE /\ Acceptable(q, now[s]) /\ Free(q) /\ Acquire(s, q)
             /\ pc' = [pc EXCEPT ![s] = "reserve"]
             /\ UNCHANGED <<tables, record, clock, request, began, now, reply>>
    <3>1. q \in Row /\ lock'[q] = s /\ request[s].key \in Row /\ \A r \in Row : lock[r] = s => lock'[r] = s
      BY <2>1, RequestRows, AcquireEffect DEF TypeOK
    <3>2. Checks(s)'
      BY <1>7, <2>1, <3>1 DEF SaveAccepted, Checks, ChecksStayTrue, Acceptable, InTransaction,
         TypeOK, tables, wallets
    <3>. QED
      BY <2>1, <3>1, <3>2, MoveChecks DEF TypeOK
  <2>. QED
    BY <1>7, <2>1, AbortChecks DEF SaveAccepted
<1>8. ASSUME NEW s \in Sessions, Reserve(s) PROVE ChecksStayTrue'
  <2> DEFINE q == request[s].quote
             t == Terms[q]
  <2>1. CASE /\ CanReserve(t.source, t.sourceAmount) /\ Free(t.source) /\ Acquire(s, t.source)
             /\ pc' = [pc EXCEPT ![s] = "commit"]
             /\ UNCHANGED <<tables, record, clock, request, began, now, reply>>
    <3>1. /\ t.source \in Row /\ lock'[t.source] = s /\ q \in Row /\ request[s].key \in Row
          /\ \A r \in Row : lock[r] = s => lock'[r] = s
      BY <2>1, RequestRows, AcquireEffect DEF TypeOK
    <3>2. Checks(s)'
      <4>1. /\ pc[s] = "reserve" /\ pc'[s] = "commit" /\ available[t.source] >= t.sourceAmount
            /\ UNCHANGED <<quote, available, record, request, now>>
        BY <1>8, <2>1 DEF Reserve, CanReserve, TypeOK, tables, wallets
      <4>2. /\ lock[request[s].key] = s /\ record[request[s].key].state = "missing"
            /\ quote[q].status = "ACTIVE" /\ now[s] <= quote[q].expiresAt /\ lock[q] = s
        BY <4>1 DEF ChecksStayTrue, InTransaction
      <4>. QED
        BY <3>1, <4>1, <4>2 DEF Checks, InTransaction
    <3>. QED
      BY <2>1, <3>1, <3>2, MoveChecks DEF TypeOK
  <2>. QED
    BY <1>8, <2>1, AbortChecks DEF Reserve
<1>9. ASSUME NEW s \in Sessions, TransactionFails(s) PROVE ChecksStayTrue'
  BY <1>9, AbortChecks DEF TransactionFails
<1>10. CASE DeleteExpired
  <2>1. ASSUME NEW u \in Sessions PROVE Checks(u)'
    <3>1. \A k \in Keys : record[k].state = "missing" => record'[k].state = "missing"
      BY <1>10 DEF DeleteExpired, NoRecord
    <3>2. Checks(u)
      BY DEF ChecksStayTrue, Checks
    <3>. QED
      BY <1>10, <3>1, <3>2, BystanderChecks DEF DeleteExpired, tables, wallets
  <2>. QED
    BY <2>1 DEF ChecksStayTrue, Checks
<1>11. CASE UNCHANGED vars
  BY <1>11 DEF vars, ChecksStayTrue, tables, wallets
<1>. QED
  BY <1>1, <1>2, <1>3, <1>4, <1>5, <1>6, <1>7, <1>8, <1>9, <1>10, <1>11, CommitChecks
  DEF Next, Step

-----------------------------------------------------------------------------
(* Only the commit and quote creation change the tables. *)

LEMMA TablesChange ==
  ASSUME [Next]_vars
  PROVE  \/ UNCHANGED tables
         \/ \E q \in Quotes : CreateQuote(q)
         \/ \E s \in Sessions, c \in Conversions, e \in Events : Commit(s, c, e)
BY DEF Next, Step, vars, Tick, Submit, TryBegin, Find, Poll, ReadQuote, SaveAccepted, Reserve,
   TransactionFails, Abort, DeleteExpired

LEMMA StepBacked ==
  ASSUME IInv, [Next]_vars
  PROVE  Backed'
<1>1. UNCHANGED <<conversion, wallets>> => Backed'
  BY DEF IInv, Backed, Held, Holding, SourceAmount, wallets
<1>2. ASSUME NEW s \in Sessions, NEW c \in Conversions, NEW e \in Events, Commit(s, c, e)
      PROVE  Backed'
  BY <1>2, RequestRows, AcceptRowsBacked DEF Commit, IInv, TypeOK
<1>. QED
  BY <1>1, <1>2, TablesChange DEF CreateQuote, tables

LEMMA Invariance == Spec => []IInv
<1>1. IInv /\ [Next]_vars => IInv'
  BY StepType, StepChecks, StepBacked DEF IInv
<1>. QED
  BY <1>1, InitIInv, PTL DEF Spec

\* Types, and with them non-negative columns: no interleaving of accepts drives
\* `available` below zero.
THEOREM TypeCorrect == Spec => []TypeOK
BY Invariance, PTL DEF IInv

\* Whatever a transaction has read under its locks is still true at its commit.
THEOREM ChecksStable == Spec => []ChecksStayTrue
BY Invariance, PTL DEF IInv

\* The reserved column of every wallet is the sum of the holds on it, and
\* available + reserved = balance.
THEOREM WalletsBacked == Spec => []Backed
BY Invariance, PTL DEF IInv

-----------------------------------------------------------------------------
(* One conversion per accepted quote. *)

\* Unused ids leave no reference behind, and events refer to conversions.
RowsConsistent ==
  /\ \A c \in Conversions : conversion[c].status = "NONE" =>
       conversion[c].quote = None /\ conversion[c].event = None
  /\ \A e \in Events : outbox[e] # None => conversion[outbox[e]].status # "NONE"

OnceInv == AcceptedOnce /\ AcceptedInTime /\ RowsConsistent

LEMMA InitOnce == Init => OnceInv
BY NoneAssumption
DEF Init, StoreInit, OnceInv, AcceptedOnce, AcceptedInTime, RowsConsistent, ConversionsOf,
    NoQuoteRow, NoConversionRow

LEMMA CreateOnce ==
  ASSUME TypeOK, OnceInv, NEW q \in Quotes, CreateQuote(q)
  PROVE  OnceInv'
<1>1. UNCHANGED <<conversion, outbox>>
  BY DEF CreateQuote
<1>2. /\ quote[q].status # "ACCEPTED" /\ quote'[q].status # "ACCEPTED"
      /\ \A p \in Quotes : p # q => quote'[p] = quote[p]
  BY DEF CreateQuote, TypeOK, StoreTypeOK
<1>3. RowsConsistent' /\ AcceptedInTime'
  BY <1>1, <1>2 DEF OnceInv, RowsConsistent, AcceptedInTime
<1>4. \A p \in Quotes : quote'[p].status = "ACCEPTED" <=> quote[p].status = "ACCEPTED"
  BY <1>2
<1>5. AcceptedOnce'
  BY <1>1, <1>4 DEF OnceInv, AcceptedOnce, ConversionsOf
<1>. QED
  BY <1>3, <1>5 DEF OnceInv

LEMMA CommitOnce ==
  ASSUME IInv, OnceInv, NEW s \in Sessions, NEW c \in Conversions, NEW e \in Events, Commit(s, c, e)
  PROVE  OnceInv'
<1>0. PICK q : q = request[s].quote /\ request'[s].quote = q
  BY DEF Commit
<1>1. q \in Quotes /\ q # None /\ c # None
  BY <1>0, RequestRows, NoneAssumption DEF IInv
<1>2. pc[s] = "commit" /\ quote[q].status = "ACTIVE" /\ now[s] <= quote[q].expiresAt
  BY <1>0 DEF Commit, IInv, ChecksStayTrue
<1>3. /\ quote'[q].status = "ACCEPTED" /\ quote'[q].acceptedAt = now[s]
      /\ quote'[q].expiresAt = quote[q].expiresAt
      /\ \A p \in Quotes : p # q => quote'[p] = quote[p]
  BY <1>0, <1>1 DEF Commit, AcceptRows, MarkAccepted, AcceptTime, IInv, TypeOK, StoreTypeOK
<1>4. /\ conversion[c].quote = None
      /\ conversion'[c].quote = q /\ conversion'[c].event = e /\ conversion'[c].status # "NONE"
      /\ \A d \in Conversions : d # c => conversion'[d] = conversion[d]
  BY <1>0 DEF Commit, AcceptRows, CanInsert, InsertConversion, OnceInv, RowsConsistent, IInv, TypeOK, StoreTypeOK
<1>5. /\ outbox[e] = None /\ outbox'[e] = c
      /\ \A f \in Events : f # e => outbox'[f] = outbox[f]
      /\ \A f \in Events : outbox[f] # c
  BY <1>1 DEF Commit, AcceptRows, CanInsert, EnqueueEvent, OnceInv, RowsConsistent, IInv, TypeOK, StoreTypeOK
<1>6. /\ ConversionsOf(q)' = {c}
      /\ \A p \in Quotes : p # q => ConversionsOf(p)' = ConversionsOf(p) /\ c \notin ConversionsOf(p)
  <2>1. ConversionsOf(q) = {}
    BY <1>1, <1>2 DEF OnceInv, AcceptedOnce
  <2>2. ConversionsOf(q)' = {c}
    BY <1>4, <2>1 DEF ConversionsOf
  <2>3. ASSUME NEW p \in Quotes, p # q
        PROVE ConversionsOf(p)' = ConversionsOf(p) /\ c \notin ConversionsOf(p)
    BY <1>4, <2>3, NoneAssumption DEF ConversionsOf
  <2>. QED
    BY <2>2, <2>3
<1>7. AcceptedOnce'
  <2>1. ASSUME NEW p \in Quotes, quote'[p].status = "ACCEPTED"
        PROVE \E d \in ConversionsOf(p)', f \in Events :
                /\ ConversionsOf(p)' = {d}
                /\ conversion'[d].event = f
                /\ {g \in Events : outbox'[g] = d} = {f}
    <3>1. CASE p = q
      <4>1. {g \in Events : outbox'[g] = c} = {e}
        BY <1>5
      <4>2. c \in ConversionsOf(p)' /\ ConversionsOf(p)' = {c}
        BY <1>6, <3>1
      <4>. QED
        BY <1>4, <4>1, <4>2
    <3>2. CASE p # q
      <4>1. PICK d \in ConversionsOf(p), f \in Events :
               /\ ConversionsOf(p) = {d}
               /\ conversion[d].event = f
               /\ {g \in Events : outbox[g] = d} = {f}
        BY <1>3, <2>1, <3>2 DEF OnceInv, AcceptedOnce
      <4>2. d # c /\ d \in Conversions /\ d # None
        BY <1>6, <3>2, NoneAssumption DEF ConversionsOf
      <4>3. {g \in Events : outbox'[g] = d} = {f} /\ conversion'[d].event = f
        BY <1>4, <1>5, <4>1, <4>2
      <4>. QED
        BY <1>6, <3>2, <4>1, <4>3
    <3>. QED
      BY <3>1, <3>2
  <2>2. ASSUME NEW p \in Quotes, quote'[p].status # "ACCEPTED" PROVE ConversionsOf(p)' = {}
    <3>1. p # q
      BY <1>3, <2>2
    <3>. QED
      BY <1>3, <1>6, <2>2, <3>1 DEF OnceInv, AcceptedOnce
  <2>. QED
    BY <2>1, <2>2 DEF AcceptedOnce
<1>8. AcceptedInTime'
  <2> SUFFICES ASSUME NEW p \in Quotes, quote'[p].status = "ACCEPTED"
               PROVE  quote'[p].acceptedAt <= quote'[p].expiresAt
    BY DEF AcceptedInTime
  <2>1. CASE p = q
    BY <1>2, <1>3, <2>1
  <2>2. CASE p # q
    BY <1>3, <2>2 DEF OnceInv, AcceptedInTime
  <2>. QED
    BY <2>1, <2>2
<1>9. RowsConsistent'
  <2>1. ASSUME NEW d \in Conversions, conversion'[d].status = "NONE"
        PROVE  conversion'[d].quote = None /\ conversion'[d].event = None
    BY <1>4, <2>1 DEF OnceInv, RowsConsistent
  <2>2. ASSUME NEW f \in Events, outbox'[f] # None PROVE conversion'[outbox'[f]].status # "NONE"
    <3>1. CASE f = e
      BY <1>4, <1>5, <3>1
    <3>2. CASE f # e
      <4>1. outbox'[f] = outbox[f] /\ outbox[f] \in Conversions /\ outbox[f] # c
        BY <1>5, <2>2, <3>2 DEF IInv, TypeOK, StoreTypeOK
      <4>. QED
        BY <1>4, <2>2, <4>1 DEF OnceInv, RowsConsistent
    <3>. QED
      BY <3>1, <3>2
  <2>. QED
    BY <2>1, <2>2 DEF RowsConsistent
<1>. QED
  BY <1>7, <1>8, <1>9 DEF OnceInv

LEMMA OnceInvariance == Spec => []OnceInv
<1>1. ASSUME IInv, OnceInv, [Next]_vars PROVE OnceInv'
  <2>1. UNCHANGED tables => OnceInv'
    BY <1>1 DEF OnceInv, AcceptedOnce, AcceptedInTime, RowsConsistent, ConversionsOf, tables
  <2>. QED
    BY <1>1, <2>1, TablesChange, CreateOnce, CommitOnce DEF IInv
<1>. QED
  BY <1>1, InitOnce, Invariance, PTL DEF Spec

\* Every accepted quote has exactly one conversion bound to exactly one event,
\* whatever requests, retries and failures there were; others have none.
THEOREM QuoteAcceptedOnce == Spec => []AcceptedOnce
BY OnceInvariance, PTL DEF OnceInv

\* accepted_at never lies after expires_at.
THEOREM QuoteAcceptedInTime == Spec => []AcceptedInTime
BY OnceInvariance, PTL DEF OnceInv

-----------------------------------------------------------------------------
(* Answers. *)

\* A stored response is about a quote: what AnswersTruthful says of records is
\* not inductive without it, for an unused conversion has no quote either.
StoredTruthful ==
  \A k \in Keys : record[k].state = "completed" =>
    /\ record[k].quote \in Quotes
    /\ record[k].conversion \in Conversions
    /\ conversion[record[k].conversion].quote = record[k].quote

RepliedTruthful ==
  \A s \in Sessions : reply[s].outcome \in {"created", "replay"} =>
    /\ reply[s].conversion \in Conversions
    /\ conversion[reply[s].conversion].quote = request[s].quote

AnswersInv == StoredTruthful /\ RepliedTruthful /\ ClaimsPrivate

LEMMA InitAnswers == Init => AnswersInv
<1> SUFFICES ASSUME Init PROVE AnswersInv
  OBVIOUS
<1>1. PICK q \in [StuckKeys -> Quotes] :
        record = [k \in Keys |-> IF k \in StuckKeys THEN ClaimOf(q[k], 0) ELSE NoRecord]
  BY DEF Init
<1>2. \A k \in Keys : /\ record[k].state # "completed"
                      /\ record[k].state = "in-progress" => k \in StuckKeys
  BY <1>1 DEF ClaimOf, NoRecord
<1>3. \A s \in Sessions : pc[s] # "wait" /\ reply[s].outcome = "none"
  BY DEF Init, NoReply
<1>. QED
  BY <1>2, <1>3 DEF AnswersInv, StoredTruthful, RepliedTruthful, ClaimsPrivate

\* Steps that write neither records nor conversions.
LEMMA QuietAnswers ==
  ASSUME TypeOK, AnswersInv, NEW s \in Sessions, UNCHANGED <<conversion, record>>,
         \A u \in Sessions \ {s} :
            pc'[u] = pc[u] /\ reply'[u] = reply[u] /\ request'[u] = request[u],
         pc'[s] = "wait" => request'[s].key \in StuckKeys,
         reply'[s].outcome \in {"created", "replay"} =>
            /\ reply'[s].conversion \in Conversions
            /\ conversion[reply'[s].conversion].quote = request'[s].quote
  PROVE  AnswersInv'
<1>1. StoredTruthful'
  BY DEF AnswersInv, StoredTruthful
<1>2. RepliedTruthful'
  BY DEF AnswersInv, RepliedTruthful
<1>3. ClaimsPrivate'
  BY DEF AnswersInv, ClaimsPrivate
<1>. QED
  BY <1>1, <1>2, <1>3 DEF AnswersInv

LEMMA AbortAnswers ==
  ASSUME TypeOK, AnswersInv, NEW s \in Sessions, NEW error \in Errors, Abort(s, error)
  PROVE  AnswersInv'
<1>1. reply'[s].outcome \notin {"created", "replay"} /\ pc'[s] = "idle"
  BY DEF Abort, Answer, Errors, Refusals, TypeOK
<1>2. \A u \in Sessions \ {s} :
        pc'[u] = pc[u] /\ reply'[u] = reply[u] /\ request'[u] = request[u]
  BY DEF Abort, Answer, TypeOK
<1>. QED
  BY <1>1, <1>2, QuietAnswers DEF Abort, tables

\* Steps that answer nobody.
LEMMA MoveAnswers ==
  ASSUME TypeOK, AnswersInv, NEW s \in Sessions, NEW next \in Location \ {"wait"},
         pc' = [pc EXCEPT ![s] = next],
         UNCHANGED <<tables, record, request, reply>>
  PROVE  AnswersInv'
<1>1. pc'[s] # "wait" /\ \A u \in Sessions \ {s} : pc'[u] = pc[u]
  BY DEF TypeOK
<1>2. reply[s].outcome \in {"created", "replay"} =>
            /\ reply[s].conversion \in Conversions
            /\ conversion[reply[s].conversion].quote = request[s].quote
  BY DEF AnswersInv, RepliedTruthful
<1>. QED
  BY <1>1, <1>2, QuietAnswers DEF tables

\* The commit stores and answers with the conversion it inserts; the id was
\* unused, so no other answer names it.
LEMMA CommitAnswers ==
  ASSUME IInv, OnceInv, AnswersInv, NEW s \in Sessions, NEW c \in Conversions, NEW e \in Events,
         Commit(s, c, e)
  PROVE  AnswersInv'
<1>0. PICK q, k : q = request[s].quote /\ k = request[s].key
  OBVIOUS
<1>1. q \in Quotes /\ q # None /\ k \in Keys
  BY <1>0, RequestRows, NoneAssumption DEF IInv
<1>2. /\ conversion[c].quote = None /\ conversion'[c].quote = q
      /\ \A d \in Conversions : d # c => conversion'[d] = conversion[d]
  BY <1>0 DEF Commit, AcceptRows, CanInsert, InsertConversion, OnceInv, RowsConsistent, IInv,
     TypeOK, StoreTypeOK
<1>3. /\ record'[k].state = "completed" /\ record'[k].quote = q /\ record'[k].conversion = c
      /\ \A l \in Keys : l # k => record'[l] = record[l]
  BY <1>0, <1>1 DEF Commit, Complete, IInv, TypeOK
<1>4. /\ pc'[s] = "idle" /\ request'[s].quote = q
      /\ reply'[s].outcome \in {"created", "replay"} => reply'[s].conversion = c
      /\ \A u \in Sessions \ {s} :
           pc'[u] = pc[u] /\ reply'[u] = reply[u] /\ request'[u] = request[u]
  BY <1>0 DEF Commit, Answer, IInv, TypeOK
<1>5. StoredTruthful'
  <2> SUFFICES ASSUME NEW l \in Keys, record'[l].state = "completed"
               PROVE  /\ record'[l].quote \in Quotes
                      /\ record'[l].conversion \in Conversions
                      /\ conversion'[record'[l].conversion].quote = record'[l].quote
    BY DEF StoredTruthful
  <2>1. CASE l = k
    BY <1>1, <1>2, <1>3, <2>1
  <2>2. CASE l # k
    <3>1. /\ record[l].quote \in Quotes /\ record[l].conversion \in Conversions
          /\ conversion[record[l].conversion].quote = record[l].quote
      BY <1>3, <2>2 DEF AnswersInv, StoredTruthful
    <3>2. record[l].conversion # c
      BY <1>2, <3>1, NoneAssumption
    <3>. QED
      BY <1>2, <1>3, <2>2, <3>1, <3>2
  <2>. QED
    BY <2>1, <2>2
<1>6. RepliedTruthful'
  <2> SUFFICES ASSUME NEW u \in Sessions, reply'[u].outcome \in {"created", "replay"}
               PROVE  /\ reply'[u].conversion \in Conversions
                      /\ conversion'[reply'[u].conversion].quote = request'[u].quote
    BY DEF RepliedTruthful
  <2>1. CASE u = s
    BY <1>2, <1>4, <2>1
  <2>2. CASE u # s
    <3>1. /\ reply[u].conversion \in Conversions
          /\ conversion[reply[u].conversion].quote = request[u].quote
      BY <1>4, <2>2 DEF AnswersInv, RepliedTruthful
    <3>2. request[u].quote # None
      BY RequestRows, NoneAssumption DEF IInv
    <3>. QED
      BY <1>2, <1>4, <2>2, <3>1, <3>2
  <2>. QED
    BY <2>1, <2>2
<1>7. ClaimsPrivate'
  BY <1>3, <1>4 DEF AnswersInv, ClaimsPrivate
<1>. QED
  BY <1>5, <1>6, <1>7 DEF AnswersInv

LEMMA StepAnswers ==
  ASSUME IInv, OnceInv, AnswersInv, [Next]_vars
  PROVE  AnswersInv'
<1>0. TypeOK /\ TypeOK'
  BY StepType DEF IInv
<1>1. UNCHANGED <<conversion, record, pc, request, reply>> => AnswersInv'
  BY DEF AnswersInv, StoredTruthful, RepliedTruthful, ClaimsPrivate
<1>2. CASE Tick \/ UNCHANGED vars \/ \E q \in Quotes : CreateQuote(q)
  BY <1>1, <1>2 DEF Tick, vars, CreateQuote, tables
<1>3. ASSUME NEW s \in Sessions, NEW k \in Keys, NEW q \in Quotes, Submit(s, k, q)
      PROVE  AnswersInv'
  <2>1. /\ pc'[s] # "wait" /\ reply'[s].outcome = "none"
        /\ \A u \in Sessions \ {s} :
             pc'[u] = pc[u] /\ reply'[u] = reply[u] /\ request'[u] = request[u]
    BY <1>0, <1>3 DEF Submit, NoReply, TypeOK
  <2>. QED
    BY <1>0, <1>3, <2>1, QuietAnswers DEF Submit, tables
<1>4. ASSUME NEW s \in Sessions, NEW error \in Errors, Abort(s, error) PROVE AnswersInv'
  BY <1>0, <1>4, AbortAnswers
<1>5. ASSUME NEW s \in Sessions, NEW next \in Location \ {"wait"}, pc' = [pc EXCEPT ![s] = next],
             UNCHANGED <<tables, record, request, reply>>
      PROVE  AnswersInv'
  BY <1>0, <1>5, MoveAnswers
<1>6. ASSUME NEW s \in Sessions, TryBegin(s) PROVE AnswersInv'
  <2>1. {"read", "find"} \subseteq Location \ {"wait"}
    BY DEF Location
  <2>2. PICK next \in {"read", "find"} : pc' = [pc EXCEPT ![s] = next]
    BY <1>6 DEF TryBegin
  <2>. QED
    BY <1>5, <1>6, <2>1, <2>2 DEF TryBegin
<1>7. ASSUME NEW s \in Sessions, Find(s) \/ Poll(s) PROVE AnswersInv'
  <2> DEFINE k == request[s].key
  <2>1. k \in Keys
    BY <1>0, RequestRows
  <2>2. /\ UNCHANGED <<tables, record, request>>
        /\ \A u \in Sessions \ {s} :
             pc'[u] = pc[u] /\ reply'[u] = reply[u] /\ request'[u] = request[u]
    BY <1>0, <1>7 DEF Find, Poll, Answer, TypeOK
  <2>3. pc'[s] = "wait" => k \in StuckKeys
    BY <1>0, <1>7, <2>1 DEF Find, Poll, Answer, TypeOK, AnswersInv, ClaimsPrivate
  <2>4. reply'[s].outcome \in {"created", "replay"} =>
            \/ reply'[s] = reply[s]
            \/ /\ record[k].state = "completed" /\ record[k].quote = request[s].quote
               /\ reply'[s].conversion = record[k].conversion
    BY <1>0, <1>7 DEF Find, Poll, Answer, SameRequest, TypeOK
  <2>5. reply'[s].outcome \in {"created", "replay"} =>
            /\ reply'[s].conversion \in Conversions
            /\ conversion[reply'[s].conversion].quote = request[s].quote
    BY <2>1, <2>4 DEF AnswersInv, StoredTruthful, RepliedTruthful
  <2>. QED
    BY <1>0, <2>2, <2>3, <2>5, QuietAnswers DEF tables
<1>8. ASSUME NEW s \in Sessions, ReadQuote(s) \/ SaveAccepted(s) \/ Reserve(s) \/ TransactionFails(s)
      PROVE  AnswersInv'
  <2>1. /\ {"save", "reserve", "commit"} \subseteq Location \ {"wait"}
        /\ {"QUOTE_NOT_FOUND", "QUOTE_ALREADY_ACCEPTED", "QUOTE_EXPIRED", "QUOTE_ACCEPT_CONFLICT",
            "INSUFFICIENT_AVAILABLE_BALANCE", "SERVER_ERROR"} \subseteq Errors
    BY DEF Location, Errors, Refusals
  <2>. QED
    BY <1>4, <1>5, <1>8, <2>1 DEF ReadQuote, SaveAccepted, Reserve, TransactionFails
<1>9. CASE DeleteExpired
  <2>1. /\ UNCHANGED <<tables, pc, request, reply>>
        /\ \A k \in Keys : record'[k] \in {record[k], NoRecord}
    BY <1>9 DEF DeleteExpired
  <2>2. \A k \in Keys : record'[k].state # "missing" => record'[k] = record[k]
    BY <2>1 DEF NoRecord
  <2>. QED
    BY <2>1, <2>2 DEF AnswersInv, StoredTruthful, RepliedTruthful, ClaimsPrivate, tables
<1>. QED
  BY <1>2, <1>3, <1>6, <1>7, <1>8, <1>9, CommitAnswers DEF Next, Step

LEMMA AnswersInvariance == Spec => []AnswersInv
<1>1. IInv /\ OnceInv /\ AnswersInv /\ [Next]_vars => AnswersInv'
  BY StepAnswers
<1>. QED
  BY <1>1, InitAnswers, Invariance, OnceInvariance, PTL DEF Spec

\* Whatever is stored, replayed or sent as a 201 names a committed conversion of
\* the quote the request was about.
THEOREM AnswersAreTruthful == Spec => []AnswersTruthful
<1>1. AnswersInv => AnswersTruthful
  BY DEF AnswersInv, AnswersTruthful, StoredTruthful, RepliedTruthful
<1>. QED
  BY <1>1, AnswersInvariance, PTL

\* No request ever sees a claim of this program half done, so only keys that
\* were stuck before it started make a request poll.
THEOREM ClaimsArePrivate == Spec => []ClaimsPrivate
BY AnswersInvariance, PTL DEF AnswersInv

-----------------------------------------------------------------------------
(* What a step may not do.  In a transaction the key has no record            *)
(* (ChecksStayTrue), so only requests outside one can meet a stored response. *)

\* How a request may be answered.
AnswerKinds(s) ==
  LET k == request[s].key IN
  /\ \A r \in Row : lock'[r] # s
  /\ \/ /\ UNCHANGED <<tables, record>>
        /\ reply'[s].outcome \in Refusals /\ record[k].state = "completed" =>
             record[k].quote # request[s].quote
     \/ /\ reply'[s].outcome \in {"created", "SERVER_ERROR"}
        /\ record'[k].state = "completed"

LEMMA AbortKinds ==
  ASSUME TypeOK, ChecksStayTrue, NEW s \in Sessions, NEW error \in Errors, Abort(s, error),
         pc[s] \in InTransaction \/ error = "SERVER_ERROR"
  PROVE  AnswerKinds(s)
<1>1. \A r \in Row : lock'[r] # s
  BY ReleaseEffect DEF Abort, TypeOK
<1>2. pc[s] \in InTransaction => record[request[s].key].state = "missing"
  BY DEF ChecksStayTrue
<1>3. error = "SERVER_ERROR" => reply'[s].outcome \notin Refusals
  BY DEF Abort, Answer, Refusals, TypeOK
<1>. QED
  BY <1>1, <1>2, <1>3 DEF AnswerKinds, Abort

LEMMA StepAnswerKinds ==
  ASSUME IInv, [Next]_vars, NEW s \in Sessions, Answers(s)
  PROVE  AnswerKinds(s)
<1>0. TypeOK /\ ChecksStayTrue
  BY DEF IInv
<1>1. CASE Tick \/ UNCHANGED vars \/ (\E q \in Quotes : CreateQuote(q)) \/ DeleteExpired
  BY <1>1 DEF Answers, Tick, vars, CreateQuote, DeleteExpired
<1>2. ASSUME NEW u \in Sessions, NEW k \in Keys, NEW q \in Quotes, Submit(u, k, q)
      PROVE  AnswerKinds(s)
  BY <1>0, <1>2 DEF Answers, Submit, TypeOK
<1>3. ASSUME NEW u \in Sessions, Step(u) \/ TransactionFails(u) PROVE u = s
  <2>1. pc' = pc \/ \E next : pc' = [pc EXCEPT ![u] = next]
    BY <1>3 DEF Step, TryBegin, Find, Poll, ReadQuote, SaveAccepted, Reserve, Commit,
       TransactionFails, Abort, Answer
  <2>. QED
    BY <1>0, <2>1 DEF Answers, TypeOK
<1>4. ASSUME NEW error \in Errors, Abort(s, error), pc[s] \in InTransaction \/ error = "SERVER_ERROR"
      PROVE  AnswerKinds(s)
  BY <1>0, <1>4, AbortKinds
<1>5. CASE TryBegin(s)
  BY <1>0, <1>5 DEF TryBegin, Answers, TypeOK
<1>6. CASE Find(s) \/ Poll(s)
  <2>1. \A r \in Row : lock'[r] # s
    BY <1>0, <1>6 DEF Find, Poll, ChecksStayTrue, InTransaction
  <2>2. UNCHANGED <<tables, record>>
    BY <1>6 DEF Find, Poll
  <2>3. reply'[s].outcome \in Refusals /\ record[request[s].key].state = "completed" =>
          record[request[s].key].quote # request[s].quote
    BY <1>0, <1>6 DEF Find, Poll, Answer, Answers, SameRequest, Refusals, TypeOK
  <2>. QED
    BY <2>1, <2>2, <2>3 DEF AnswerKinds
<1>7. CASE ReadQuote(s) \/ SaveAccepted(s) \/ Reserve(s) \/ TransactionFails(s)
  <2>1. {"QUOTE_NOT_FOUND", "QUOTE_ALREADY_ACCEPTED", "QUOTE_EXPIRED", "QUOTE_ACCEPT_CONFLICT",
         "INSUFFICIENT_AVAILABLE_BALANCE", "SERVER_ERROR"} \subseteq Errors
    BY DEF Errors, Refusals
  <2>. QED
    BY <1>0, <1>4, <1>7, <2>1
    DEF ReadQuote, SaveAccepted, Reserve, TransactionFails, Answers, InTransaction, TypeOK
<1>8. ASSUME NEW c \in Conversions, NEW e \in Events, Commit(s, c, e) PROVE AnswerKinds(s)
  <2>1. \A r \in Row : lock'[r] # s
    BY <1>0, <1>8, ReleaseEffect DEF Commit, TypeOK
  <2>2. record'[request[s].key].state = "completed"
    BY <1>0, <1>8, RequestRows DEF Commit, Complete, TypeOK
  <2>3. reply'[s].outcome \in {"created", "SERVER_ERROR"}
    BY <1>0, <1>8 DEF Commit, Answer, TypeOK
  <2>. QED
    BY <2>1, <2>2, <2>3 DEF AnswerKinds
<1>. QED
  BY <1>1, <1>2, <1>3, <1>5, <1>6, <1>7, <1>8 DEF Next, Step

\* A refusal means nothing was done, no claim is left on the key and no lock; a
\* server error, that nothing was done or the retry will get the answer.
THEOREM RefusalsLeaveNoTrace == Spec => RefusalLeavesNoTrace
<1>1. IInv /\ [Next]_vars =>
        [\A s \in Sessions : Answers(s) =>
           /\ reply'[s].outcome \in Errors \ {"SERVER_ERROR"} => UNCHANGED <<tables, record>>
           /\ reply'[s].outcome = "SERVER_ERROR" =>
                UNCHANGED <<tables, record>> \/ record'[request[s].key].state = "completed"
           /\ \A r \in Row : lock'[r] # s]_vars
  BY StepAnswerKinds DEF AnswerKinds, Errors, Refusals
<1>. QED
  BY <1>1, Invariance, PTL DEF Spec, RefusalLeavesNoTrace

\* A retry under the key of a stored response is never refused.
THEOREM CompletedAreReplayed == Spec => CompletedReplays
<1>1. IInv /\ [Next]_vars =>
        [\A s \in Sessions :
           LET r == record[request[s].key] IN
           Answers(s) /\ r.state = "completed" /\ r.quote = request[s].quote =>
             reply'[s].outcome \notin Refusals]_vars
  BY StepAnswerKinds DEF AnswerKinds, Errors, Refusals
<1>. QED
  BY <1>1, Invariance, PTL DEF Spec, CompletedReplays

LEMMA StepRetained ==
  ASSUME IInv, [Next]_vars, NEW k \in Keys, record[k].state = "completed", record'[k] # record[k]
  PROVE  record'[k] = NoRecord /\ record[k].createdAt + Retention < clock
<1>1. DeleteExpired \/ \E s \in Sessions, c \in Conversions, e \in Events : Commit(s, c, e)
  BY DEF Next, Step, vars, Tick, CreateQuote, Submit, TryBegin, Find, Poll, ReadQuote,
     SaveAccepted, Reserve, TransactionFails, Abort
<1>2. ASSUME NEW s \in Sessions, NEW c \in Conversions, NEW e \in Events, Commit(s, c, e)
      PROVE  FALSE
  <2>1. record[request[s].key].state = "missing" /\ request[s].key \in Keys
    BY <1>2, RequestRows DEF Commit, IInv, ChecksStayTrue, InTransaction
  <2>. QED
    BY <1>2, <2>1 DEF Commit, Complete, IInv, TypeOK
<1>3. CASE DeleteExpired
  <2>1. record'[k] = NoRecord /\ k \in Expired
    BY <1>3 DEF DeleteExpired
  <2>2. record[k].createdAt \in Nat /\ clock \in Nat /\ Retention \in Nat
    BY TimingAssumption DEF IInv, TypeOK
  <2>. QED
    BY <2>1, <2>2 DEF Expired
<1>. QED
  BY <1>1, <1>2, <1>3

\* The cleanup job never deletes, and nothing ever changes, a stored response
\* that is not older than the retention.
THEOREM ResponsesRetained == Spec => RetainedForWindow
<1>1. IInv /\ [Next]_vars =>
        [\A k \in Keys : record[k].state = "completed" /\ record'[k] # record[k] =>
           record'[k] = NoRecord /\ record[k].createdAt + Retention < clock]_vars
  BY StepRetained
<1>. QED
  BY <1>1, Invariance, PTL DEF Spec, RetainedForWindow

-----------------------------------------------------------------------------
(* The accept implements the ledger and keeps to both aggregates: its        *)
(* commit is one Hold of the ledger and one Reserve of the source wallet,    *)
(* every other step of a request changes nothing either can see.  The hold's *)
(* guard is the check made when the wallet was locked, by ChecksStayTrue.     *)

LEMMA StepLedger ==
  ASSUME IInv, OnceInv, [Next]_vars
  PROVE  [MoneyLedger!LedgerNext]_(MoneyLedger!ledger)
<1>1. UNCHANGED <<conversion, available>> => UNCHANGED MoneyLedger!ledger
  BY DEF MoneyLedger!ledger, Deal, ConversionsOf
<1>2. ASSUME NEW s \in Sessions, NEW c \in Conversions, NEW e \in Events, Commit(s, c, e)
      PROVE  MoneyLedger!LedgerNext
  <2> DEFINE q == request[s].quote
  <2>1. q \in Quotes /\ available[Terms[q].source] >= Terms[q].sourceAmount
    BY <1>2, RequestRows DEF Commit, IInv, ChecksStayTrue
  <2>2. conversion[c].quote = None /\ AcceptRows(q, c, e, AcceptTime(s))
    BY <1>2 DEF Commit, AcceptRows, CanInsert, OnceInv, RowsConsistent
  <2>. QED
    BY <2>1, <2>2, AcceptRowsLedger DEF IInv, TypeOK
<1>. QED
  BY <1>1, <1>2, TablesChange DEF CreateQuote, tables, wallets

\* The accept transaction implements the ledger: however requests interleave, are
\* repeated and fail, a quote's funds are held at most once, and only if they
\* are there.
THEOREM AcceptImplementsLedger == Spec => LedgerKept
<1>1. Init => MoneyLedger!LedgerInit
  BY InitDeal DEF Init, StoreInit, MoneyLedger!LedgerInit
<1>2. IInv /\ OnceInv /\ [Next]_vars => [MoneyLedger!LedgerNext]_(MoneyLedger!ledger)
  BY StepLedger
<1>. QED
  BY <1>1, <1>2, Invariance, OnceInvariance, PTL DEF Spec, LedgerKept, MoneyLedger!LedgerSpec

LEMMA StepAccounts ==
  ASSUME IInv, [Next]_vars
  PROVE  [AccountStep]_wallets
<1>1. UNCHANGED tables => UNCHANGED wallets
  BY DEF tables
<1>2. ASSUME NEW s \in Sessions, NEW c \in Conversions, NEW e \in Events, Commit(s, c, e)
      PROVE  AccountStep
  <2>1. available[Terms[request[s].quote].source] >= Terms[request[s].quote].sourceAmount
    BY <1>2 DEF Commit, IInv, ChecksStayTrue
  <2>. QED
    BY <1>2, <2>1, RequestRows, AcceptRowsAccounts DEF Commit, IInv, TypeOK
<1>. QED
  BY <1>1, <1>2, TablesChange DEF CreateQuote

\* The statements on wallet rows amount to operations of the aggregate: each
\* commit is one `reserve` that its guard admits, and leaves the invariant
\* available + reserved = balance that the aggregate asserts.
THEOREM AcceptKeepsAccounts == Spec => AccountsKept
<1>1. Init => \A w \in Wallets : Account(w)!Open
  BY InitialAssumption DEF Init, StoreInit, Account!Open
<1>2. IInv /\ [Next]_vars => [AccountStep]_wallets
  BY StepAccounts
<1>. QED
  BY <1>1, <1>2, Invariance, PTL DEF Spec, AccountsKept, AccountStep

LEMMA StepLifecycle ==
  ASSUME IInv, OnceInv, [Next]_vars
  PROVE  [LifecycleStep]_conversion
<1>1. ASSUME NEW s \in Sessions, NEW c \in Conversions, NEW e \in Events, Commit(s, c, e)
      PROVE  LifecycleStep
  <2>1. request[s].quote \in Quotes /\ AcceptRows(request[s].quote, c, e, AcceptTime(s))
    BY <1>1, RequestRows DEF Commit, IInv
  <2>2. conversion[c].quote = None /\ conversion[c].event = None
    BY <2>1 DEF AcceptRows, CanInsert, OnceInv, RowsConsistent
  <2>. QED
    BY <2>1, <2>2, AcceptRowsLifecycle DEF IInv, TypeOK
<1>. QED
  BY <1>1, TablesChange DEF CreateQuote, tables

\* The accept keeps to the conversion aggregate: a row appears only as create,
\* markFundsReserved and bindExecutionEvent leave it, and no accept touches one
\* that is there.
THEOREM AcceptKeepsLifecycle == Spec => LifecycleKept
<1>1. Init => \A c \in Conversions : conversion[c] = NoConversionRow
  BY DEF Init, StoreInit
<1>2. IInv /\ OnceInv /\ [Next]_vars => [LifecycleStep]_conversion
  BY StepLifecycle
<1>. QED
  BY <1>1, <1>2, Invariance, OnceInvariance, PTL DEF Spec, LifecycleKept, LifecycleStep
=============================================================================
