------------------------ MODULE ConversionAggregate -------------------------
(***************************************************************************)
(* The Conversion aggregate: the life of one conversion as its methods      *)
(* allow it.  The accept transaction goes through the methods, the consumer *)
(* marks conversions with an UPDATE of its own and settles through          *)
(* applyExecutionResult on a copy it has read before; this module is what   *)
(* the stored row must look like to an observer all the same.               *)
(*                                                                         *)
(* A method is an operator from the row it finds to the row it leaves, with *)
(* a guard that is false where the method throws.                           *)
(***************************************************************************)

CONSTANTS
  Quotes, Events, Outcomes,
  NoRow,      \* the row is not there
  NoEvent     \* exchangeExecutionId is null

VARIABLE row  \* [status, quote, event]

Created(q) == [status |-> "CREATED", quote |-> q, event |-> NoEvent]

CanMarkFundsReserved(r) == r.status = "CREATED"
MarkFundsReserved(r) == [r EXCEPT !.status = "FUNDS_RESERVED"]

CanBind(r, e) == r.status = "FUNDS_RESERVED" /\ r.event \in {NoEvent, e}
BindExecutionEvent(r, e) == [r EXCEPT !.event = e]

CanMarkExecutionRequested(r, e) == r.status = "FUNDS_RESERVED" /\ r.event \in {NoEvent, e}
MarkExecutionRequested(r, e) == [r EXCEPT !.status = "EXECUTION_REQUESTED", !.event = e]

Reached == [SUCCESS |-> "COMPLETED", FAILURE |-> "FAILED", UNKNOWN |-> "REQUIRES_RECONCILIATION"]

\* Neither a conflicting result nor one nobody asked for is applied; an
\* identical one changes nothing.
CanApply(r, o) ==
  \/ r.status \in {"EXECUTION_REQUESTED", "REQUIRES_RECONCILIATION"}
  \/ r.status = Reached[o]
ApplyExecutionResult(r, o) == [r EXCEPT !.status = Reached[o]]

\* create, markFundsReserved and bindExecutionEvent share a transaction.
Accepted ==
  /\ row = NoRow
  /\ \E q \in Quotes, e \in Events :
       LET held == MarkFundsReserved(Created(q)) IN
       /\ CanMarkFundsReserved(Created(q))
       /\ CanBind(held, e)
       /\ row' = BindExecutionEvent(held, e)

Requested ==
  \E e \in Events :
    /\ CanMarkExecutionRequested(row, e)
    /\ row' = MarkExecutionRequested(row, e)

Executed ==
  \E o \in Outcomes :
    /\ CanApply(row, o)
    /\ row' = ApplyExecutionResult(row, o)

AggregateNext == Accepted \/ Requested \/ Executed

AggregateSpec == row = NoRow /\ [][AggregateNext]_row
=============================================================================
