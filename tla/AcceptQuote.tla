---------------------------- MODULE AcceptQuote -----------------------------
(***************************************************************************)
(* POST /quotes/{id}/accept: the accept transaction, run concurrently by    *)
(* Sessions, together with quote creation, the idempotency cleanup job and  *)
(* the clock.                                                               *)
(*                                                                         *)
(* One request of a session runs through                                    *)
(*   idle -> begin -> read -> save -> reserve -> commit -> idle             *)
(* with begin -> find (-> wait) -> idle when its key is already taken.      *)
(* Each step is one SQL statement of the transaction, except that statements *)
(* on rows only this transaction can see are merged into the commit.        *)
(***************************************************************************)
EXTENDS Store

CONSTANTS
  TTL,         \* QUOTE_TTL_SECONDS, in clock ticks
  Retention,   \* IDEMPOTENCY_RETENTION_HOURS, in clock ticks
  BatchSize,   \* IDEMPOTENCY_CLEANUP_BATCH_SIZE
  MaxTime,     \* bound on the clock
  StuckKeys    \* keys claimed by a record that never got its response

ASSUME TimingAssumption ==
  /\ TTL \in Nat \ {0}
  /\ Retention \in Nat \ {0}
  /\ BatchSize \in Nat \ {0}
  /\ MaxTime \in Nat
ASSUME StuckAssumption == StuckKeys \subseteq Keys

VARIABLES
  record,   \* table idempotency_records
  clock,    \* the Clock port and the database's NOW()
  pc,       \* where each session's request stands
  request,  \* the request: [key, quote]
  began,    \* when the transaction began: its NOW()
  now,      \* `now` as the transaction captured it
  reply     \* what the last request was answered

vars == <<tables, lock, record, clock, pc, request, began, now, reply>>

RecordState == {"missing", "in-progress", "completed"}
NoRecord == [state |-> "missing", quote |-> None, conversion |-> None, createdAt |-> 0]
ClaimOf(q, at) == [state |-> "in-progress", quote |-> q, conversion |-> None, createdAt |-> at]

\* Refusals that tell the client its request has not been and will not be done.
Refusals == {"QUOTE_NOT_FOUND", "QUOTE_EXPIRED", "QUOTE_ALREADY_ACCEPTED",
             "QUOTE_ACCEPT_CONFLICT", "INSUFFICIENT_AVAILABLE_BALANCE",
             "IDEMPOTENCY_KEY_REUSE"}
Errors == Refusals \cup {"IDEMPOTENCY_RACE", "IDEMPOTENCY_IN_PROGRESS", "SERVER_ERROR"}
Outcomes == {"none", "created", "replay"} \cup Errors

Location == {"idle", "begin", "find", "wait", "read", "save", "reserve", "commit"}
NoReply == [outcome |-> "none", conversion |-> None]

TypeOK ==
  /\ StoreTypeOK
  /\ record \in [Keys -> [state : RecordState, quote : Quotes \cup {None},
                          conversion : Conversions \cup {None}, createdAt : Nat]]
  /\ clock \in Nat
  /\ pc \in [Sessions -> Location]
  /\ request \in [Sessions -> [key : Keys, quote : Quotes]]
  /\ began \in [Sessions -> Nat]
  /\ now \in [Sessions -> Nat]
  /\ reply \in [Sessions -> [outcome : Outcomes, conversion : Conversions \cup {None}]]

Init ==
  /\ StoreInit
  /\ \E q \in [StuckKeys -> Quotes] :
       record = [k \in Keys |-> IF k \in StuckKeys
                                THEN ClaimOf(q[k], 0) ELSE NoRecord]
  /\ clock = 0
  /\ pc = [s \in Sessions |-> "idle"]
  /\ request \in [Sessions -> [key : Keys, quote : Quotes]]
  /\ began = [s \in Sessions |-> 0]
  /\ now = [s \in Sessions |-> 0]
  /\ reply = [s \in Sessions |-> NoReply]

-----------------------------------------------------------------------------
(* Environment. *)

\* The accept transaction and the jobs read one clock.
Tick ==
  /\ clock < MaxTime
  /\ clock' = clock + 1
  /\ UNCHANGED <<tables, lock, record, pc, request, began, now, reply>>

\* POST /quotes: an ACTIVE row that expires TTL later.
CreateQuote(q) ==
  /\ quote[q].status = "NONE"
  /\ quote' = [quote EXCEPT ![q] = [status |-> "ACTIVE", expiresAt |-> clock + TTL,
                                    acceptedAt |-> None]]
  /\ UNCHANGED <<conversion, outbox, wallets, lock, record, clock, pc, request, began, now,
                 reply>>

\* A client sends a request, new or repeated, under any key; BEGIN.
Submit(s, k, q) ==
  /\ pc[s] = "idle"
  /\ pc' = [pc EXCEPT ![s] = "begin"]
  /\ request' = [request EXCEPT ![s] = [key |-> k, quote |-> q]]
  /\ began' = [began EXCEPT ![s] = clock]
  /\ reply' = [reply EXCEPT ![s] = NoReply]
  /\ UNCHANGED <<tables, lock, record, clock, now>>

-----------------------------------------------------------------------------
(* Answers. *)

Answer(s, outcome, c) ==
  /\ began' = [began EXCEPT ![s] = 0]
  /\ now' = [now EXCEPT ![s] = 0]
  /\ pc' = [pc EXCEPT ![s] = "idle"]
  /\ reply' = [reply EXCEPT ![s] = [outcome |-> outcome, conversion |-> c]]

\* Variant of Abort: the claim was committed by itself.
AbortKeepingClaim(s, error) ==
  /\ Answer(s, error, None)
  /\ ReleaseLocks(s)
  /\ record' = [record EXCEPT ![request[s].key] = ClaimOf(request[s].quote, began[s])]
  /\ UNCHANGED <<tables, clock, request>>

\* AcceptAbortedError: the rollback undoes the claim on the key as well.
Abort(s, error) ==
  /\ Answer(s, error, None)
  /\ ReleaseLocks(s)
  /\ UNCHANGED <<tables, record, clock, request>>

-----------------------------------------------------------------------------
(* The statements of the transaction. *)

\* Variant of Unclaimed: the index is not consulted.
UnclaimedUnchecked(k) == k \in Keys
\* The unique index on idempotency_key has no committed entry for the key.
Unclaimed(k) == record[k].state = "missing"

\* Variant of SameRequest: the fingerprint is not compared.
SameRequestUnchecked(s) == s \in Sessions
\* The fingerprint of a request is its quote id.
SameRequest(s) == record[request[s].key].quote = request[s].quote

\* INSERT ... ON CONFLICT DO NOTHING waits for a transaction that has inserted
\* the key and not ended; it conflicts only with a committed record.
TryBegin(s) ==
  LET k == request[s].key IN
  /\ pc[s] = "begin"
  /\ \/ /\ Unclaimed(k)
        /\ Free(k)
        /\ Acquire(s, k)
        /\ now' = [now EXCEPT ![s] = clock]
        /\ pc' = [pc EXCEPT ![s] = "read"]
     \/ /\ record[k].state # "missing"
        /\ pc' = [pc EXCEPT ![s] = "find"]
        /\ UNCHANGED <<lock, now>>
  /\ UNCHANGED <<tables, record, clock, request, began, reply>>

\* The loser looks the record up in a later statement, and so a later snapshot.
Find(s) ==
  LET r == record[request[s].key] IN
  /\ pc[s] = "find"
  /\ \/ r.state = "missing" /\ Answer(s, "IDEMPOTENCY_RACE", None)
     \/ /\ r.state # "missing"
        /\ ~ SameRequest(s)
        /\ Answer(s, "IDEMPOTENCY_KEY_REUSE", None)
     \/ /\ r.state = "in-progress"
        /\ SameRequest(s)
        /\ pc' = [pc EXCEPT ![s] = "wait"]
        /\ UNCHANGED <<began, now, reply>>
     \/ /\ r.state = "completed"
        /\ SameRequest(s)
        /\ Answer(s, "replay", r.conversion)
  /\ UNCHANGED <<tables, lock, record, clock, request>>

\* waitForIdempotentCompletion: poll until the record is completed, gone, or
\* the deadline has passed; the deadline can pass between any two polls.
Poll(s) ==
  LET r == record[request[s].key] IN
  /\ pc[s] = "wait"
  /\ \/ /\ r.state = "completed"
        /\ SameRequest(s)
        /\ Answer(s, "replay", r.conversion)
     \/ Answer(s, "IDEMPOTENCY_IN_PROGRESS", None)
  /\ UNCHANGED <<tables, lock, record, clock, request>>

\* findById, then quote.accept(now) in memory.
ReadQuote(s) ==
  LET row == quote[request[s].quote] IN
  /\ pc[s] = "read"
  /\ \/ row.status = "NONE" /\ Abort(s, "QUOTE_NOT_FOUND")
     \/ row.status = "ACCEPTED" /\ Abort(s, "QUOTE_ALREADY_ACCEPTED")
     \/ /\ row.status = "ACTIVE"
        /\ now[s] > row.expiresAt
        /\ Abort(s, "QUOTE_EXPIRED")
     \/ /\ row.status = "ACTIVE"
        /\ now[s] <= row.expiresAt
        /\ pc' = [pc EXCEPT ![s] = "save"]
        /\ UNCHANGED <<tables, lock, record, clock, request, began, now, reply>>

\* The WHERE clause of saveAccepted.
Acceptable(q, at) == quote[q].status = "ACTIVE" /\ quote[q].expiresAt >= at

\* UPDATE quotes ... WHERE: no row at once, or one row when its lock is free.
SaveAccepted(s) ==
  LET q == request[s].quote IN
  /\ pc[s] = "save"
  /\ \/ ~ Acceptable(q, now[s]) /\ Abort(s, "QUOTE_ACCEPT_CONFLICT")
     \/ /\ Acceptable(q, now[s])
        /\ Free(q)
        /\ Acquire(s, q)
        /\ pc' = [pc EXCEPT ![s] = "reserve"]
        /\ UNCHANGED <<tables, record, clock, request, began, now, reply>>

Reserve(s) ==
  LET t == Terms[request[s].quote] IN
  /\ pc[s] = "reserve"
  /\ \/ /\ ~ CanReserve(t.source, t.sourceAmount)
        /\ Abort(s, "INSUFFICIENT_AVAILABLE_BALANCE")
     \/ /\ CanReserve(t.source, t.sourceAmount)
        /\ Free(t.source)
        /\ Acquire(s, t.source)
        /\ pc' = [pc EXCEPT ![s] = "commit"]
        /\ UNCHANGED <<tables, record, clock, request, began, now, reply>>

\* idempotency.complete: the stored response names the conversion; created_at
\* is the claim's, the beginning of the transaction.
Complete(k, q, c, at) ==
  record' = [record EXCEPT ![k] = [state |-> "completed", quote |-> q,
                                   conversion |-> c, createdAt |-> at]]

\* Variant of AcceptTime: the clock is read again.
AcceptTimeAtCommit(s) == clock
\* accepted_at is the `now` the expiry check used.
AcceptTime(s) == now[s]

\* The conversion, its event and the stored response become visible together
\* with the accepted quote and the reservation.  When the acknowledgement of the
\* commit or the response is lost, the client sees a server error all the same.
Commit(s, c, e) ==
  LET q == request[s].quote IN
  /\ pc[s] = "commit"
  /\ AcceptRows(q, c, e, AcceptTime(s))
  /\ Complete(request[s].key, q, c, began[s])
  /\ Answer(s, "created", c) \/ Answer(s, "SERVER_ERROR", None)
  /\ ReleaseLocks(s)
  /\ UNCHANGED <<clock, request>>

\* A failing statement, the transaction timeout, a lost connection or a crash
\* of the process: the database rolls back, the client sees a 500 or nothing.
TransactionFails(s) ==
  /\ pc[s] # "idle"
  /\ Abort(s, "SERVER_ERROR")

-----------------------------------------------------------------------------
(* The idempotency cleanup job. *)

\* Variant of Expired: the boundary is included.
ExpiredEarly == {k \in Keys : record[k].state # "missing" /\ record[k].createdAt <= clock - Retention}

\* WHERE created_at < cutoff: completed or not.
Expired == {k \in Keys : record[k].state # "missing" /\ record[k].createdAt < clock - Retention}

\* DELETE ... ORDER BY created_at LIMIT n FOR UPDATE SKIP LOCKED
DeleteExpired ==
  LET candidates == {k \in Expired : Free(k)} IN
  /\ \E batch \in (SUBSET candidates) \ {{}} :
       /\ \/ batch = candidates /\ Cardinality(batch) <= BatchSize
          \/ Cardinality(batch) = BatchSize
       /\ \A k \in batch, l \in candidates \ batch : record[k].createdAt <= record[l].createdAt
       /\ record' = [k \in Keys |-> IF k \in batch THEN NoRecord ELSE record[k]]
  /\ UNCHANGED <<tables, lock, clock, pc, request, began, now, reply>>

-----------------------------------------------------------------------------

Step(s) ==
  \/ TryBegin(s) \/ Find(s) \/ Poll(s) \/ ReadQuote(s) \/ SaveAccepted(s) \/ Reserve(s)
  \/ \E c \in Conversions, e \in Events : Commit(s, c, e)

Next ==
  \/ Tick
  \/ \E q \in Quotes : CreateQuote(q)
  \/ \E s \in Sessions, k \in Keys, q \in Quotes : Submit(s, k, q)
  \/ \E s \in Sessions : Step(s) \/ TransactionFails(s)
  \/ DeleteExpired

Spec == Init /\ [][Next]_vars

\* A row lock is granted to its waiters in turn and a transaction runs on by
\* itself; neither the clock, nor clients, nor failures, nor the job must act.
FairSpec == Spec /\ \A s \in Sessions : SF_vars(Step(s))

-----------------------------------------------------------------------------
(* Properties. *)

InTransaction == {"read", "save", "reserve", "commit"}

\* What a transaction has read or checked under a row lock stays true until it
\* ends, whatever other transactions, the job and the clock do meanwhile: the
\* unclaimed key, the quote that may still be accepted, the funds.  A session
\* outside a transaction holds no lock.
ChecksStayTrue ==
  \A s \in Sessions :
    LET k == request[s].key
        q == request[s].quote
        t == Terms[q] IN
    /\ pc[s] \in InTransaction => lock[k] = s /\ record[k].state = "missing"
    /\ pc[s] \in {"save", "reserve", "commit"} =>
         quote[q].status # "NONE" /\ now[s] <= quote[q].expiresAt
    /\ pc[s] \in {"reserve", "commit"} => lock[q] = s /\ quote[q].status = "ACTIVE"
    /\ pc[s] = "commit" => lock[t.source] = s /\ available[t.source] >= t.sourceAmount
    /\ pc[s] \notin InTransaction => \A r \in Row : lock[r] # s

\* However long the transaction waited for its locks, accepted_at lies within
\* the quote's lifetime.
AcceptedInTime ==
  \A q \in Quotes : quote[q].status = "ACCEPTED" => quote[q].acceptedAt <= quote[q].expiresAt

\* A stored response, and every 201 sent or replayed, names a committed
\* conversion of the very quote the request was about.
AnswersTruthful ==
  /\ \A k \in Keys : record[k].state = "completed" =>
       /\ record[k].conversion \in Conversions
       /\ conversion[record[k].conversion].quote = record[k].quote
  /\ \A s \in Sessions : reply[s].outcome \in {"created", "replay"} =>
       /\ reply[s].conversion \in Conversions
       /\ conversion[reply[s].conversion].quote = request[s].quote

\* Claim and completion share a transaction, so no other request ever sees a
\* claim of this program half done, and only a key that was stuck to begin
\* with makes a request wait.
ClaimsPrivate ==
  /\ \A k \in Keys : record[k].state = "in-progress" => k \in StuckKeys
  /\ \A s \in Sessions : pc[s] = "wait" => request[s].key \in StuckKeys

Answers(s) == pc[s] # "idle" /\ pc'[s] = "idle"

\* A refused accept, or one that loses its key to the cleanup job or waits for it
\* in vain, leaves neither rows, nor a claim on its key, nor a lock behind; one
\* that ends in a server error has either done nothing or stored the response its
\* retry will get.
RefusalLeavesNoTrace ==
  [][\A s \in Sessions : Answers(s) =>
       /\ reply'[s].outcome \in Errors \ {"SERVER_ERROR"} => UNCHANGED <<tables, record>>
       /\ reply'[s].outcome = "SERVER_ERROR" =>
            UNCHANGED <<tables, record>> \/ record'[request[s].key].state = "completed"
       /\ \A r \in Row : lock'[r] # s]_vars

\* While the response of an accept is stored, repeating the request under the
\* same key is never refused, whatever has become of the quote since.
CompletedReplays ==
  [][\A s \in Sessions :
       LET r == record[request[s].key] IN
       Answers(s) /\ r.state = "completed" /\ r.quote = request[s].quote =>
         reply'[s].outcome \notin Refusals]_vars

\* A stored response does not change, and it is not deleted before it is older
\* than the retention.
RetainedForWindow ==
  [][\A k \in Keys : record[k].state = "completed" /\ record'[k] # record[k] =>
       record'[k] = NoRecord /\ record[k].createdAt + Retention < clock]_vars

\* The documentation's "in-progress records are retained" by the cleanup job.
InProgressRetained ==
  [][\A k \in Keys : record[k].state = "in-progress" => record'[k].state # "missing"]_vars

\* Every request is answered: lock waits form no cycle and polling ends.
Answered == \A s \in Sessions : pc[s] # "idle" ~> pc[s] = "idle"
=============================================================================
