------------------------------- MODULE Store --------------------------------
(***************************************************************************)
(* The PostgreSQL tables the conversion flow writes, and the row locks of   *)
(* its READ COMMITTED transactions.                                         *)
(*                                                                         *)
(* A transaction's writes become visible when it commits; until then the    *)
(* rows it has written or inserted are locked.  A locked row cannot change  *)
(* under its holder, so a model may apply all the writes at the commit and  *)
(* still decide every conditional UPDATE when its statement runs.           *)
(*                                                                         *)
(* A wallet stands for one (user_id, asset) row of wallet_accounts; a quote *)
(* names the wallet it debits and the wallet it credits.                    *)
(***************************************************************************)
EXTENDS Sums

CONSTANTS
  Quotes,       \* quote ids
  Conversions,  \* conversion ids the id generator can return
  Events,       \* execution event ids the id generator can return
  Wallets,      \* (user, asset) pairs
  Keys,         \* idempotency keys
  Sessions,     \* processes that open transactions
  Terms,        \* Terms[q]: the wallets and amounts quote q was created with
  Initial,      \* Initial[w]: balance of wallet w before the first request
  None          \* SQL NULL

VARIABLES
  quote,        \* table quotes
  conversion,   \* table conversions
  outbox,       \* table outbox_messages: the conversion each event is about
  available,    \* table wallet_accounts, column available
  reserved,     \* table wallet_accounts, column reserved
  balance,      \* table wallet_accounts, column balance
  lock          \* the session holding each row, or None

wallets == <<available, reserved, balance>>
tables == <<quote, conversion, outbox, wallets>>

Row == Keys \cup Quotes \cup Wallets \cup Events

QuoteTerms == [source : Wallets, target : Wallets,
               sourceAmount : Nat \ {0}, targetAmount : Nat \ {0}]

\* Money, asset and quote construction (Quote.create, the Conversion
\* constructor) admit only positive amounts between two different assets.
ASSUME TermsAssumption ==
  /\ Terms \in [Quotes -> QuoteTerms]
  /\ \A q \in Quotes : Terms[q].source # Terms[q].target
ASSUME InitialAssumption == Initial \in [Wallets -> Nat]
ASSUME RowsAssumption ==
  /\ Keys \cap (Quotes \cup Wallets \cup Events) = {}
  /\ Quotes \cap (Wallets \cup Events) = {}
  /\ Wallets \cap Events = {}
ASSUME NoneAssumption ==
  None \notin Quotes \cup Conversions \cup Events \cup Sessions \cup Nat
ASSUME FiniteAssumption == IsFiniteSet(Conversions)

QuoteStatus == {"NONE", "ACTIVE", "ACCEPTED"}
ConversionStatus == {"NONE", "FUNDS_RESERVED", "EXECUTION_REQUESTED",
                     "COMPLETED", "FAILED", "REQUIRES_RECONCILIATION"}

\* Statuses in which the source amount is still reserved: UNKNOWN outcomes
\* keep the hold until an operator reconciles them.
HoldingStatus == {"FUNDS_RESERVED", "EXECUTION_REQUESTED", "REQUIRES_RECONCILIATION"}

NoQuoteRow == [status |-> "NONE", expiresAt |-> 0, acceptedAt |-> None]
NoConversionRow == [status |-> "NONE", quote |-> None, event |-> None]

StoreTypeOK ==
  /\ quote \in [Quotes -> [status : QuoteStatus, expiresAt : Nat,
                           acceptedAt : Nat \cup {None}]]
  /\ conversion \in [Conversions -> [status : ConversionStatus,
                                     quote : Quotes \cup {None},
                                     event : Events \cup {None}]]
  /\ outbox \in [Events -> Conversions \cup {None}]
  /\ available \in [Wallets -> Nat]
  /\ reserved \in [Wallets -> Nat]
  /\ balance \in [Wallets -> Nat]
  /\ lock \in [Row -> Sessions \cup {None}]

StoreInit ==
  /\ quote = [q \in Quotes |-> NoQuoteRow]
  /\ conversion = [c \in Conversions |-> NoConversionRow]
  /\ outbox = [e \in Events |-> None]
  /\ available = Initial
  /\ reserved = [w \in Wallets |-> 0]
  /\ balance = Initial
  /\ lock = [r \in Row |-> None]

-----------------------------------------------------------------------------
(* Row locks. *)

Free(row) == lock[row] = None
\* Variant of Acquire: a plain SELECT.
ReadWithoutLock(s, row) == s \in Sessions /\ row \in Row /\ UNCHANGED lock
Acquire(s, row) == lock' = [lock EXCEPT ![row] = s]

\* COMMIT and ROLLBACK release every lock of the session; the variant leaks them.
KeepLocks(s) == UNCHANGED lock
ReleaseLocks(s) == lock' = [r \in Row |-> IF lock[r] = s THEN None ELSE lock[r]]

-----------------------------------------------------------------------------
(* Conditional statements of the wallet repository. *)

\* UPDATE ... SET available = available - n, reserved = reserved + n
\* WHERE ... AND available >= n
CanReserveUnchecked(w, n) == w \in Wallets   \* variant: no WHERE
CanReserve(w, n) == available[w] >= n
\* Variant of ReserveFunds: the amount is spent at once.
DebitFunds(w, n) ==
  /\ available' = [available EXCEPT ![w] = @ - n]
  /\ balance' = [balance EXCEPT ![w] = @ - n]
  /\ UNCHANGED reserved
ReserveFunds(w, n) ==
  /\ available' = [available EXCEPT ![w] = @ - n]
  /\ reserved' = [reserved EXCEPT ![w] = @ + n]
  /\ UNCHANGED balance

-----------------------------------------------------------------------------
(* The rows an accepted quote leaves behind. *)

\* UPDATE quotes SET status = 'ACCEPTED', accepted_at = at
MarkAccepted(q, at) ==
  quote' = [quote EXCEPT ![q].status = "ACCEPTED", ![q].acceptedAt = at]

\* A freshly generated id collides with no row; conversions.quote_id is unique.
CanInsert(q, c, e) ==
  /\ conversion[c].status = "NONE"
  /\ outbox[e] = None
  /\ \A d \in Conversions : conversion[d].quote # q

\* The conversion as its last save leaves it: CREATED is overwritten by
\* markFundsReserved and bindExecutionEvent inside the same transaction.
InsertConversion(q, c, e) ==
  conversion' = [conversion EXCEPT ![c] =
                   [status |-> "FUNDS_RESERVED", quote |-> q, event |-> e]]

\* Variant of EnqueueEvent: the event bypasses the outbox.
PublishWithoutOutbox(c, e) == UNCHANGED outbox
EnqueueEvent(c, e) == outbox' = [outbox EXCEPT ![e] = c]

\* Everything the accept transaction changes in these tables, in one piece.
AcceptRows(q, c, e, at) ==
  /\ CanInsert(q, c, e)
  /\ MarkAccepted(q, at)
  /\ InsertConversion(q, c, e)
  /\ EnqueueEvent(c, e)
  /\ ReserveFunds(Terms[q].source, Terms[q].sourceAmount)

-----------------------------------------------------------------------------
(* Holds. *)

SourceAmount ==
  [c \in Conversions |-> IF conversion[c].quote = None THEN 0
                         ELSE Terms[conversion[c].quote].sourceAmount]

Holding(w) == {c \in Conversions : /\ conversion[c].status \in HoldingStatus
                                   /\ conversion[c].quote # None
                                   /\ Terms[conversion[c].quote].source = w}

Held(w) == SumOver(SourceAmount, Holding(w))

ConversionsOf(q) == {c \in Conversions : conversion[c].quote = q}

-----------------------------------------------------------------------------
(* What the tables implement. *)

\* What has become of a quote, by the statuses of the conversions it has.
DealOf(statuses) ==
  CASE statuses = {} -> "open"
    [] "COMPLETED" \in statuses -> "completed"
    [] "FAILED" \in statuses -> "failed"
    [] OTHER -> "held"
Deal == [q \in Quotes |-> DealOf({conversion[c].status : c \in ConversionsOf(q)})]

MoneyLedger == INSTANCE Ledger WITH free <- available, deal <- Deal

Amounts == {Terms[q].sourceAmount : q \in Quotes} \cup {Terms[q].targetAmount : q \in Quotes}

Account(w) == INSTANCE WalletAccount
              WITH Opening <- Initial[w],
                   available <- available[w], reserved <- reserved[w], balance <- balance[w]

Aggregate(c) == INSTANCE ConversionAggregate
                WITH Outcomes <- {"SUCCESS", "FAILURE", "UNKNOWN"},
                     NoRow <- NoConversionRow, NoEvent <- None, row <- conversion[c]

-----------------------------------------------------------------------------
(* Properties. *)

\* Every reserved unit of a wallet belongs to a conversion that still holds it,
\* and the three columns of the wallet agree: a hold is neither lost nor doubled
\* by concurrent, failing or repeated accepts and settlements.
Backed ==
  \A w \in Wallets : /\ reserved[w] = Held(w)
                     /\ available[w] + reserved[w] = balance[w]

\* An accepted quote has exactly one conversion and that conversion exactly one
\* outbox event, the one it is bound to; any other quote has none.
AcceptedOnce ==
  \A q \in Quotes :
    IF quote[q].status = "ACCEPTED"
    THEN \E c \in ConversionsOf(q), e \in Events :
           /\ ConversionsOf(q) = {c}
           /\ conversion[c].event = e
           /\ {f \in Events : outbox[f] = c} = {e}
    ELSE ConversionsOf(q) = {}

\* Whatever happens to requests, messages and processes, the client's funds move
\* only as a quote's one deal moves: held once, then paid out or given back.
LedgerKept == MoneyLedger!LedgerSpec

\* The conditional UPDATEs on a wallet row, and all that happens around them,
\* amount to one operation of the WalletAccount aggregate at a time.
AccountsKept ==
  /\ \A w \in Wallets : Account(w)!Open
  /\ [][\A w \in Wallets : UNCHANGED Account(w)!account \/ Account(w)!AccountNext]_wallets

\* The UPDATE that bypasses the Conversion aggregate, and the copies of it that
\* workers settle with, only ever take a stored conversion where its methods
\* would.
LifecycleKept ==
  /\ \A c \in Conversions : conversion[c] = NoConversionRow
  /\ [][\A c \in Conversions : UNCHANGED conversion[c] \/ Aggregate(c)!AggregateNext]_conversion
=============================================================================
