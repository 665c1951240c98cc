--------------------------- MODULE StoreTheorems ----------------------------
(***************************************************************************)
(* What the statements of module Store do to row locks, to the holds on a   *)
(* wallet, to a quote's deal and to the wallet aggregate: the facts that    *)
(* the proofs about the accept and about the execution share.               *)
(***************************************************************************)
EXTENDS Store, SumTheorems

\* Taking a free row or releasing one's own rows is invisible to other sessions.
LEMMA AcquireEffect ==
  ASSUME StoreTypeOK, NEW s \in Sessions, NEW row \in Row, Free(row), Acquire(s, row)
  PROVE  /\ lock' \in [Row -> Sessions \cup {None}]
         /\ lock'[row] = s
         /\ \A u \in Sessions \ {s}, r \in Row : lock'[r] = u <=> lock[r] = u
         /\ \A r \in Row : lock[r] = s => lock'[r] = s
BY NoneAssumption DEF StoreTypeOK, Free, Acquire

LEMMA ReleaseEffect ==
  ASSUME StoreTypeOK, NEW s \in Sessions, ReleaseLocks(s)
  PROVE  /\ lock' \in [Row -> Sessions \cup {None}]
         /\ \A r \in Row : lock'[r] # s
         /\ \A u \in Sessions \ {s}, r \in Row : lock'[r] = u <=> lock[r] = u
BY NoneAssumption DEF StoreTypeOK, ReleaseLocks

-----------------------------------------------------------------------------
(* Holds. *)

\* The hold on a wallet is a sum over finitely many conversions.
LEMMA HoldingFinite ==
  ASSUME StoreTypeOK, NEW w \in Wallets
  PROVE  /\ IsFiniteSet(Holding(w))
         /\ \A c \in Conversions : SourceAmount[c] \in Nat
BY FiniteAssumption, FS_Subset, TermsAssumption DEF Holding, SourceAmount, StoreTypeOK, QuoteTerms

\* No held conversion asks for more than its wallet has reserved.
LEMMA HeldCovers ==
  ASSUME StoreTypeOK, NEW w \in Wallets, NEW c \in Holding(w)
  PROVE  Held(w) >= SourceAmount[c]
<1>1. IsFiniteSet(Holding(w)) /\ \A d \in Holding(w) : SourceAmount[d] \in Nat
  BY HoldingFinite DEF Holding
<1>2. SumOver(SourceAmount, Holding(w) \ {c}) = Held(w) - SourceAmount[c]
  BY <1>1, SumRemove DEF Held
<1>3. IsFiniteSet(Holding(w) \ {c})
  BY <1>1, FS_RemoveElement
<1>4. SumOver(SourceAmount, Holding(w) \ {c}) \in Nat /\ Held(w) \in Nat
  BY <1>1, <1>3, SumType DEF Held
<1>. QED
  BY <1>1, <1>2, <1>4

\* Amounts stay while conversions keep their quotes.
LEMMA AmountsStay ==
  ASSUME \A c \in Conversions : conversion'[c].quote = conversion[c].quote
  PROVE  UNCHANGED SourceAmount
BY DEF SourceAmount

\* A step after which the same conversions hold.
LEMMA HeldStays ==
  ASSUME NEW w \in Wallets,
         \A c \in Conversions :
           /\ conversion'[c].quote = conversion[c].quote
           /\ conversion'[c].status \in HoldingStatus <=> conversion[c].status \in HoldingStatus
  PROVE  Held(w)' = Held(w)
<1>1. UNCHANGED SourceAmount
  BY AmountsStay
<1>2. Holding(w)' = Holding(w)
  BY DEF Holding
<1>. QED
  BY <1>1, <1>2 DEF Held

\* A conversion that lets go of its hold takes its source amount off the hold on
\* its source wallet, and nothing off any other.
LEMMA HoldEnds ==
  ASSUME StoreTypeOK, NEW w \in Wallets, NEW c \in Conversions,
         \A d \in Conversions : d # c => conversion'[d] = conversion[d],
         conversion'[c].quote = conversion[c].quote,
         conversion[c].quote \in Quotes, conversion[c].status \in HoldingStatus,
         conversion'[c].status \notin HoldingStatus
  PROVE  Held(w)' = IF Terms[conversion[c].quote].source = w THEN Held(w) - SourceAmount[c] ELSE Held(w)
<1>1. UNCHANGED SourceAmount
  BY AmountsStay
<1>2. IsFiniteSet(Holding(w)) /\ \A d \in Holding(w) : SourceAmount[d] \in Nat
  BY HoldingFinite DEF Holding
<1>3. Holding(w)' = Holding(w) \ {c}
  BY DEF Holding
<1>4. c \in Holding(w) <=> Terms[conversion[c].quote].source = w
  BY NoneAssumption DEF Holding
<1>5. CASE c \in Holding(w)
  BY <1>1, <1>2, <1>3, <1>4, <1>5, SumRemove DEF Held
<1>6. CASE c \notin Holding(w)
  <2>1. Holding(w) \ {c} = Holding(w)
    BY <1>6
  <2>. QED
    BY <1>1, <1>3, <1>4, <1>6, <2>1 DEF Held
<1>. QED
  BY <1>5, <1>6

\* The empty store is backed.
LEMMA InitBacked ==
  ASSUME conversion = [c \in Conversions |-> NoConversionRow],
         available = Initial, balance = Initial, reserved = [w \in Wallets |-> 0]
  PROVE  Backed
<1> SUFFICES ASSUME NEW w \in Wallets
             PROVE  reserved[w] = Held(w) /\ available[w] + reserved[w] = balance[w]
  BY DEF Backed
<1>1. Holding(w) = {}
  BY DEF Holding, NoConversionRow, HoldingStatus
<1>2. Held(w) = 0
  BY <1>1, SumEmpty DEF Held
<1>3. available[w] = balance[w] /\ available[w] \in Nat /\ reserved[w] = 0
  BY InitialAssumption
<1>. QED
  BY <1>2, <1>3

-----------------------------------------------------------------------------
(* The rows of an accepted quote. *)

LEMMA AcceptRowsType ==
  ASSUME StoreTypeOK, NEW q \in Quotes, NEW c \in Conversions, NEW e \in Events, NEW at \in Nat,
         available[Terms[q].source] >= Terms[q].sourceAmount, AcceptRows(q, c, e, at),
         lock' \in [Row -> Sessions \cup {None}]
  PROVE  StoreTypeOK'
<1>1. Terms[q].source \in Wallets /\ Terms[q].sourceAmount \in Nat
  BY TermsAssumption DEF QuoteTerms
<1>2. quote' \in [Quotes -> [status : QuoteStatus, expiresAt : Nat, acceptedAt : Nat \cup {None}]]
  <2>1. /\ quote[q] \in [status : QuoteStatus, expiresAt : Nat, acceptedAt : Nat \cup {None}]
        /\ quote' = [quote EXCEPT ![q].status = "ACCEPTED", ![q].acceptedAt = at]
    BY DEF AcceptRows, MarkAccepted, StoreTypeOK
  <2>2. [quote[q] EXCEPT !.status = "ACCEPTED", !.acceptedAt = at]
          \in [status : QuoteStatus, expiresAt : Nat, acceptedAt : Nat \cup {None}]
    BY <2>1 DEF QuoteStatus
  <2>3. quote' = [quote EXCEPT ![q] = [quote[q] EXCEPT !.status = "ACCEPTED", !.acceptedAt = at]]
    BY <2>1 DEF StoreTypeOK
  <2>. QED
    BY <2>2, <2>3 DEF StoreTypeOK
<1>3. conversion' \in [Conversions -> [status : ConversionStatus, quote : Quotes \cup {None},
                                      event : Events \cup {None}]]
  BY DEF AcceptRows, InsertConversion, StoreTypeOK, ConversionStatus
<1>4. outbox' \in [Events -> Conversions \cup {None}]
  BY DEF AcceptRows, EnqueueEvent, StoreTypeOK
<1>5. available' \in [Wallets -> Nat] /\ reserved' \in [Wallets -> Nat] /\ balance' \in [Wallets -> Nat]
  BY <1>1 DEF AcceptRows, ReserveFunds, StoreTypeOK
<1>. QED
  BY <1>2, <1>3, <1>4, <1>5 DEF StoreTypeOK

\* The conversion it inserts adds its source amount to the hold on its source
\* wallet, and nothing to any other.
LEMMA AcceptRowsHeld ==
  ASSUME StoreTypeOK, NEW q \in Quotes, NEW c \in Conversions, NEW e \in Events, NEW at,
         AcceptRows(q, c, e, at), NEW w \in Wallets
  PROVE  Held(w)' = IF Terms[q].source = w THEN Held(w) + Terms[q].sourceAmount ELSE Held(w)
<1> DEFINE t == Terms[q]
<1>1. q # None /\ t.sourceAmount \in Nat
  BY NoneAssumption, TermsAssumption DEF QuoteTerms
<1>2. /\ conversion'[c] = [status |-> "FUNDS_RESERVED", quote |-> q, event |-> e]
      /\ \A d \in Conversions : d # c => conversion'[d] = conversion[d]
      /\ c \notin Holding(w)
  BY DEF AcceptRows, InsertConversion, CanInsert, StoreTypeOK, Holding, HoldingStatus
<1>3. \A d \in Conversions : SourceAmount'[d] = IF d = c THEN t.sourceAmount ELSE SourceAmount[d]
  BY <1>1, <1>2 DEF SourceAmount
<1>4. Holding(w)' = IF t.source = w THEN Holding(w) \cup {c} ELSE Holding(w)
  BY <1>1, <1>2 DEF Holding, HoldingStatus
<1>5. /\ IsFiniteSet(Holding(w)) /\ Holding(w) \subseteq Conversions
      /\ \A d \in Conversions : SourceAmount[d] \in Nat
  BY HoldingFinite DEF Holding
<1>6. SumOver(SourceAmount', Holding(w)) = SumOver(SourceAmount, Holding(w))
  BY <1>2, <1>3, <1>5, SumSame
<1>7. CASE t.source = w
  <2>1. SumOver(SourceAmount', Holding(w) \cup {c}) = SumOver(SourceAmount', Holding(w)) + SourceAmount'[c]
    BY <1>1, <1>2, <1>3, <1>5, SumInsert
  <2>. QED
    BY <1>3, <1>4, <1>6, <1>7, <2>1 DEF Held
<1>8. CASE t.source # w
  BY <1>4, <1>6, <1>8 DEF Held
<1>. QED
  BY <1>7, <1>8

LEMMA AcceptRowsBacked ==
  ASSUME StoreTypeOK, Backed, NEW q \in Quotes, NEW c \in Conversions, NEW e \in Events, NEW at,
         AcceptRows(q, c, e, at)
  PROVE  Backed'
<1> DEFINE t == Terms[q]
<1> SUFFICES ASSUME NEW w \in Wallets
             PROVE  reserved'[w] = Held(w)' /\ available'[w] + reserved'[w] = balance'[w]
  BY DEF Backed
<1>1. t.source \in Wallets /\ t.sourceAmount \in Nat
  BY TermsAssumption DEF QuoteTerms
<1>2. reserved[w] = Held(w) /\ available[w] + reserved[w] = balance[w]
  BY DEF Backed
<1>3. available[w] \in Nat /\ reserved[w] \in Nat /\ balance[w] \in Nat
  BY DEF StoreTypeOK
<1>4. /\ balance'[w] = balance[w]
      /\ reserved'[w] = IF t.source = w THEN reserved[w] + t.sourceAmount ELSE reserved[w]
      /\ available'[w] = IF t.source = w THEN available[w] - t.sourceAmount ELSE available[w]
  BY <1>1 DEF AcceptRows, ReserveFunds, StoreTypeOK
<1>5. Held(w)' = IF t.source = w THEN Held(w) + t.sourceAmount ELSE Held(w)
  BY AcceptRowsHeld
<1>. QED
  BY <1>1, <1>2, <1>3, <1>4, <1>5

-----------------------------------------------------------------------------
(* Deals. *)

\* A quote without a conversion is open.
LEMMA DealOpen ==
  ASSUME NEW q \in Quotes, ConversionsOf(q) = {}
  PROVE  Deal[q] = "open"
BY DEF Deal, DealOf

LEMMA InitDeal ==
  ASSUME conversion = [c \in Conversions |-> NoConversionRow]
  PROVE  Deal = [q \in Quotes |-> "open"]
<1>1. ASSUME NEW q \in Quotes PROVE Deal[q] = "open"
  <2>1. ConversionsOf(q) = {}
    BY NoneAssumption DEF ConversionsOf, NoConversionRow
  <2>. QED
    BY <2>1, DealOpen
<1>2. Deal = [q \in Quotes |-> Deal[q]]
  BY DEF Deal
<1>. QED
  BY <1>1, <1>2

\* A quote whose conversions and their statuses stay has the deal it had.
LEMMA DealSame ==
  ASSUME NEW q \in Quotes, ConversionsOf(q)' = ConversionsOf(q),
         \A c \in ConversionsOf(q) : conversion'[c].status = conversion[c].status
  PROVE  Deal'[q] = Deal[q]
<1>1. {conversion'[c].status : c \in ConversionsOf(q)'} = {conversion[c].status : c \in ConversionsOf(q)}
  OBVIOUS
<1>2. Deal'[q] = DealOf({conversion'[c].status : c \in ConversionsOf(q)'})
  BY DEF Deal
<1>3. Deal[q] = DealOf({conversion[c].status : c \in ConversionsOf(q)})
  BY DEF Deal
<1>. QED
  BY <1>1, <1>2, <1>3

\* A quote with one conversion has the deal of its status.
LEMMA DealOfOne ==
  ASSUME NEW q \in Quotes, NEW c \in Conversions, ConversionsOf(q) = {c}
  PROVE  Deal[q] = DealOf({conversion[c].status})
<1>1. {conversion[d].status : d \in ConversionsOf(q)} = {conversion[c].status}
  OBVIOUS
<1>. QED
  BY <1>1 DEF Deal

\* Where only one quote's deal changes.
LEMMA DealExcept ==
  ASSUME NEW q \in Quotes, NEW deal, Deal'[q] = deal,
         \A p \in Quotes : p # q => Deal'[p] = Deal[p]
  PROVE  Deal' = [Deal EXCEPT ![q] = deal]
<1>1. Deal' = [p \in Quotes |-> Deal'[p]] /\ Deal = [p \in Quotes |-> Deal[p]]
  BY DEF Deal
<1>2. \A p \in Quotes : Deal'[p] = [Deal EXCEPT ![q] = deal][p]
  BY <1>1
<1>. QED
  BY <1>1, <1>2

\* Accepting a quote opens its deal into a hold, which is what the ledger does.
LEMMA AcceptRowsLedger ==
  ASSUME StoreTypeOK, NEW q \in Quotes, NEW c \in Conversions, NEW e \in Events, NEW at,
         AcceptRows(q, c, e, at), conversion[c].quote = None,
         available[Terms[q].source] >= Terms[q].sourceAmount
  PROVE  MoneyLedger!LedgerNext
<1>1. q # None
  BY NoneAssumption
<1>2. ConversionsOf(q) = {}
  BY DEF AcceptRows, CanInsert, ConversionsOf
<1>3. /\ conversion'[c] = [status |-> "FUNDS_RESERVED", quote |-> q, event |-> e]
      /\ \A d \in Conversions : d # c => conversion'[d] = conversion[d]
  BY DEF AcceptRows, InsertConversion, StoreTypeOK
<1>4. Deal'[q] = "held"
  <2>1. ConversionsOf(q)' = {c}
    BY <1>2, <1>3 DEF ConversionsOf
  <2>2. {conversion'[d].status : d \in ConversionsOf(q)'} = {"FUNDS_RESERVED"}
    BY <1>3, <2>1
  <2>3. Deal'[q] = DealOf({"FUNDS_RESERVED"})
    BY <2>2 DEF Deal
  <2>. QED
    BY <2>3 DEF DealOf
<1>5. ASSUME NEW p \in Quotes, p # q PROVE Deal'[p] = Deal[p]
  <2>1. ConversionsOf(p)' = ConversionsOf(p) /\ c \notin ConversionsOf(p)
    BY <1>3, <1>5, NoneAssumption DEF ConversionsOf
  <2>2. \A d \in ConversionsOf(p) : conversion'[d].status = conversion[d].status
    BY <1>3, <2>1 DEF ConversionsOf
  <2>. QED
    BY <2>1, <2>2, DealSame
<1>6. Deal' = [Deal EXCEPT ![q] = "held"]
  BY <1>4, <1>5, DealExcept
<1>7. available' = [available EXCEPT ![Terms[q].source] = @ - Terms[q].sourceAmount]
  BY DEF AcceptRows, ReserveFunds
<1>8. MoneyLedger!Hold(q)
  BY <1>2, <1>6, <1>7, DealOpen DEF MoneyLedger!Hold, MoneyLedger!Becomes
<1>. QED
  BY <1>8 DEF MoneyLedger!LedgerNext

-----------------------------------------------------------------------------
(* Accounts. *)

\* One operation on each wallet, or none.
AccountStep == \A w \in Wallets : UNCHANGED Account(w)!account \/ Account(w)!AccountNext

\* Accepting a quote is one `reserve` on its source wallet.
LEMMA AcceptRowsAccounts ==
  ASSUME StoreTypeOK, Backed, NEW q \in Quotes, NEW c \in Conversions, NEW e \in Events, NEW at,
         AcceptRows(q, c, e, at), available[Terms[q].source] >= Terms[q].sourceAmount
  PROVE  AccountStep
<1> DEFINE t == Terms[q]
<1>1. t.source \in Wallets /\ t.sourceAmount \in Nat /\ t.sourceAmount \in Amounts
  BY TermsAssumption DEF QuoteTerms, Amounts
<1>2. /\ available' = [available EXCEPT ![t.source] = @ - t.sourceAmount]
      /\ reserved' = [reserved EXCEPT ![t.source] = @ + t.sourceAmount]
      /\ balance' = balance
  BY DEF AcceptRows, ReserveFunds
<1>3. ASSUME NEW w \in Wallets, w = t.source PROVE Account(w)!AccountNext
  <2>1. /\ available[w] \in Nat /\ reserved[w] \in Nat /\ balance[w] \in Nat
        /\ available[w] + reserved[w] = balance[w]
    BY DEF StoreTypeOK, Backed
  <2>2. /\ available'[w] = available[w] - t.sourceAmount
        /\ reserved'[w] = reserved[w] + t.sourceAmount
        /\ balance'[w] = balance[w]
    BY <1>1, <1>2, <1>3 DEF StoreTypeOK
  <2>3. available'[w] + reserved'[w] = balance'[w]
    BY <1>1, <2>1, <2>2
  <2>4. Account(w)!Reserve(t.sourceAmount)
    BY <1>3, <2>2, <2>3 DEF Account!Reserve, Account!AssertInvariant
  <2>. QED
    BY <1>1, <2>4 DEF Account!AccountNext
<1>4. ASSUME NEW w \in Wallets, w # t.source PROVE UNCHANGED Account(w)!account
  BY <1>1, <1>2, <1>4 DEF Account!account, StoreTypeOK
<1>. QED
  BY <1>3, <1>4 DEF AccountStep

-----------------------------------------------------------------------------
(* Lifecycles. *)

\* Every stored conversion goes through its aggregate's methods, or stays.
LifecycleStep == \A c \in Conversions : UNCHANGED conversion[c] \/ Aggregate(c)!AggregateNext

\* Accepting a quote creates, reserves and binds one conversion.
LEMMA AcceptRowsLifecycle ==
  ASSUME StoreTypeOK, NEW q \in Quotes, NEW c \in Conversions, NEW e \in Events, NEW at,
         AcceptRows(q, c, e, at), conversion[c].quote = None, conversion[c].event = None
  PROVE  LifecycleStep
<1>1. /\ conversion[c] = NoConversionRow
      /\ conversion'[c] = [status |-> "FUNDS_RESERVED", quote |-> q, event |-> e]
      /\ \A d \in Conversions : d # c => conversion'[d] = conversion[d]
  BY DEF StoreTypeOK, AcceptRows, CanInsert, InsertConversion, NoConversionRow
<1>2. Aggregate(c)!Accepted
  <2>1. [Aggregate(c)!Created(q) EXCEPT !.status = "FUNDS_RESERVED"]
          = [status |-> "FUNDS_RESERVED", quote |-> q, event |-> None]
    BY DEF Aggregate!Created
  <2>2. [[status |-> "FUNDS_RESERVED", quote |-> q, event |-> None] EXCEPT !.event = e]
          = [status |-> "FUNDS_RESERVED", quote |-> q, event |-> e]
    OBVIOUS
  <2>3. Aggregate(c)!BindExecutionEvent(Aggregate(c)!MarkFundsReserved(Aggregate(c)!Created(q)), e)
          = [status |-> "FUNDS_RESERVED", quote |-> q, event |-> e]
    BY <2>1, <2>2 DEF Aggregate!MarkFundsReserved, Aggregate!BindExecutionEvent
  <2>. QED
    BY <1>1, <2>3 DEF Aggregate!Accepted, Aggregate!Created, Aggregate!CanMarkFundsReserved,
       Aggregate!MarkFundsReserved, Aggregate!CanBind, Aggregate!BindExecutionEvent
<1>. QED
  BY <1>1, <1>2 DEF LifecycleStep, Aggregate!AggregateNext
=============================================================================
