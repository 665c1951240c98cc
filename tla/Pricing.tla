------------------------------ MODULE Pricing -------------------------------
(***************************************************************************)
(* What a conversion pays: Money.convert, Quote.create and the deployed rate *)
(* table, and what a user's holdings do under any sequence of conversions.   *)
(*                                                                         *)
(* An amount is its number of smallest units, 10^-scale of the asset; a rate *)
(* is RateUnits / RateOne.  Decimal's multiplication keeps so many           *)
(* significant digits, rounding half to even, before convert rounds down to  *)
(* the scale of the target.  When a quote is accepted, expires or fails is   *)
(* in modules AcceptQuote and Execution: here it settles or is forgotten.    *)
(***************************************************************************)
EXTENDS Sums

CONSTANTS
  Assets,
  One,          \* units in one whole of each asset, 10^scale
  Pairs,        \* pairs <<source, target>> with a rate
  RateUnits, RateOne,  \* each pair's rate is RateUnits / RateOne
  Whole,        \* wholes an amount stays below, 10^20: column and request
  Significand,  \* 10^precision: longer products are rounded
  Steps,        \* the steps 1, 10, 100 ... products are rounded to
  Price,        \* a worth for one unit of each asset
  Endowments,   \* what a user may start with
  MaxQuotes     \* bound: quotes waiting at a time

VARIABLES
  holding,      \* the user's balance of each asset
  quoted        \* quotes that may still settle

pricingVars == <<holding, quoted>>

Source(p) == p[1]
Target(p) == p[2]

\* The worth of a unit never grows by conversion, for prices s and t.
Fair(units, rateOne, oneS, oneT, priceS, priceT) ==
  units * oneT * priceT <= rateOne * oneS * priceS

\* A product with more digits than Decimal keeps is beyond the column.
Precise(whole, rateOne, oneS, significand) == whole * oneS * rateOne <= significand

ASSUME AssetsAssumption ==
  /\ IsFiniteSet(Assets)
  /\ One \in [Assets -> Nat \ {0}]
  /\ Price \in [Assets -> Nat]
  /\ Endowments \subseteq [Assets -> Nat]
ASSUME RatesAssumption ==
  /\ Pairs \subseteq {p \in Assets \X Assets : Source(p) # Target(p)}
  /\ RateUnits \in [Pairs -> Nat \ {0}]
  /\ RateOne \in [Pairs -> Nat \ {0}]
ASSUME PrecisionAssumption ==
  /\ Whole \in Nat
  /\ Significand \in Nat \ {0} /\ Significand % 10 = 0
  /\ Steps \subseteq {1} \cup {u \in Nat : u >= 10}
ASSUME FairAssumption == \A p \in Pairs :
  Fair(RateUnits[p], RateOne[p], One[Source(p)], One[Target(p)], Price[Source(p)], Price[Target(p)])
ASSUME PreciseAssumption == \A p \in Pairs :
  Precise(Whole, RateOne[p], One[Source(p)], Significand)

Quote == [pair : Pairs, source : Nat, target : Nat]

PricingTypeOK ==
  /\ holding \in [Assets -> Nat]
  /\ quoted \subseteq Quote

-----------------------------------------------------------------------------
\* The step a product is rounded to: it has at most so many digits then.
StepOf(n, u) == u \in Steps /\ n < Significand * u /\ (u = 1 \/ Significand * u <= 10 * n)

\* amount.times(rate): half to even at the last digit kept.
Product(n, u) ==
  LET below == n \div u
      rest == n % u
      up == 2 * rest > u \/ (2 * rest = u /\ below % 2 = 1)
  IN  u * (IF up THEN below + 1 ELSE below)

\* Variant for a mutant: the default rounding of Decimal instead of ROUND_DOWN.
RoundedToNearest(p, n) ==
  Product(n * One[Target(p)], One[Source(p)] * RateOne[p]) \div (One[Source(p)] * RateOne[p])

\* toDecimalPlaces(scale, ROUND_DOWN) of a product n, in units of the target.
RoundedDown(p, n) == (n * One[Target(p)]) \div (One[Source(p)] * RateOne[p])

\* Variant for a mutant: an unbounded NUMERIC column.
FitsUnbounded(a, x) == TRUE

\* The amount fits a Decimal(38, 18) column.
Fits(a, x) == x < Whole * One[a]

\* Quote.create and save: refused when the target is zero or does not fit.
CreateQuote(p, source) ==
  /\ Cardinality(quoted) < MaxQuotes
  /\ source > 0 /\ source < Whole * One[Source(p)]
  /\ \E u \in Steps :
       LET product == source * RateUnits[p]
           target == RoundedDown(p, Product(product, u))
       IN  /\ StepOf(product, u)
           /\ target > 0
           /\ Fits(Target(p), target)
           /\ quoted' = quoted \cup {[pair |-> p, source |-> source, target |-> target]}
  /\ UNCHANGED holding

\* Variant for a mutant: the available balance is not checked.
SettleUnchecked(q) ==
  /\ q \in quoted
  /\ holding' = [holding EXCEPT ![Source(q.pair)] = @ - q.source,
                                ![Target(q.pair)] = @ + q.target]
  /\ quoted' = quoted \ {q}

\* The conversion of the quote is executed.
Settle(q) ==
  /\ q \in quoted
  /\ holding[Source(q.pair)] >= q.source
  /\ Fits(Target(q.pair), holding[Target(q.pair)] + q.target)
  /\ holding' = [holding EXCEPT ![Source(q.pair)] = @ - q.source,
                                ![Target(q.pair)] = @ + q.target]
  /\ quoted' = quoted \ {q}

\* The quote expires or its conversion fails.
Forget(q) == q \in quoted /\ quoted' = quoted \ {q} /\ UNCHANGED holding

PricingInit == holding \in Endowments /\ quoted = {}

PricingNext ==
  \/ \E p \in Pairs : \E source \in 1 .. Whole * One[Source(p)] : CreateQuote(p, source)
  \/ \E q \in quoted : Settle(q) \/ Forget(q)

PricingSpec == PricingInit /\ [][PricingNext]_pricingVars

-----------------------------------------------------------------------------
(* Properties *)

\* Rounding twice, first to the significant digits and then down, never shows:
\* the target of a stored quote is the exact product rounded down, because a
\* product that loses digits is too large for the column.
QuotesExact ==
  \A q \in quoted :
    LET p == q.pair
        exact == q.source * RateUnits[p] * One[Target(p)]
        unit == One[Source(p)] * RateOne[p]
    IN  q.target * unit <= exact /\ exact < (q.target + 1) * unit

\* What the user's holdings are worth at the given prices.
Worth == SumOver([a \in Assets |-> holding[a] * Price[a]], Assets)

\* A conversion fabricates no value: no step of any sequence of conversions,
\* there and back through any pairs, makes the holdings worth more.
NoFreeMoney == [][Worth' <= Worth]_pricingVars
=============================================================================
