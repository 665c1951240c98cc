--------------------------- MODULE PricingProofs ----------------------------
(***************************************************************************)
(* Quotes are exact and conversions fabricate no value, for every rate      *)
(* table that satisfies the assumptions of module Pricing; the deployed one  *)
(* does.                                                                   *)
(***************************************************************************)
EXTENDS Pricing, SumTheorems

-----------------------------------------------------------------------------
(* Arithmetic *)

\* Division rounds down.
LEMMA DivBounds ==
  ASSUME NEW m \in Nat, NEW d \in Nat \ {0}
  PROVE  /\ m \div d \in Nat
         /\ d * (m \div d) <= m
         /\ m < d * (m \div d) + d
OBVIOUS

\* Multiplying keeps an order, dividing by a positive factor keeps it too.
LEMMA TimesOrder ==
  ASSUME NEW a \in Nat, NEW b \in Nat, a <= b, NEW c \in Nat
  PROVE  a * c <= b * c
OBVIOUS

LEMMA CancelOrder ==
  ASSUME NEW a \in Nat, NEW b \in Nat, NEW c \in Nat \ {0}, a * c <= b * c
  PROVE  a <= b
<1>1. SUFFICES ASSUME b + 1 <= a PROVE FALSE
  OBVIOUS
<1>2. (b + 1) * c <= a * c
  BY <1>1, TimesOrder
<1>3. (b + 1) * c = b * c + c
  OBVIOUS
<1>. QED
  BY <1>2, <1>3

-----------------------------------------------------------------------------
(* Decimal's multiplication *)

\* Rounding to the first step changes nothing.
LEMMA ProductExact ==
  ASSUME NEW n \in Nat
  PROVE  Product(n, 1) = n
<1>1. n \div 1 = n /\ n % 1 = 0
  OBVIOUS
<1>. QED
  BY <1>1 DEF Product

\* A rounded product is not below the next lower multiple of its step.
LEMMA ProductBelow ==
  ASSUME NEW n \in Nat, NEW u \in Nat \ {0}
  PROVE  Product(n, u) \in Nat /\ u * (n \div u) <= Product(n, u)
<1>1. n \div u \in Nat
  BY DivBounds
<1>2. u * (n \div u) \in Nat /\ u * (n \div u + 1) \in Nat
  BY <1>1
<1>3. u * (n \div u) <= u * (n \div u + 1)
  BY <1>1
<1>. QED
  BY <1>2, <1>3 DEF Product

\* A product that is rounded has all its significant digits: it stays at or
\* above the power of ten where rounding begins.
LEMMA ProductLarge ==
  ASSUME NEW n \in Nat, NEW u \in Steps, u # 1, StepOf(n, u)
  PROVE  Product(n, u) \in Nat /\ Significand <= Product(n, u)
<1>1. u \in Nat /\ u >= 10 /\ Significand * u <= 10 * n
  BY PrecisionAssumption DEF StepOf
<1>2. PICK tenth \in Nat : Significand = 10 * tenth
  <2>1. Significand \div 10 \in Nat /\ Significand = 10 * (Significand \div 10)
    BY PrecisionAssumption
  <2>. QED
    BY <2>1
<1>3. tenth * u <= n
  BY <1>1, <1>2
<1>4. tenth <= n \div u
  <2>1. n < u * (n \div u) + u /\ n \div u \in Nat
    BY <1>1, DivBounds
  <2>2. u * (n \div u) + u = (n \div u + 1) * u
    BY <1>1, <2>1
  <2>3. tenth * u < (n \div u + 1) * u
    BY <1>1, <1>3, <2>1, <2>2
  <2>4. SUFFICES ASSUME n \div u + 1 <= tenth PROVE FALSE
    BY <2>1
  <2>5. (n \div u + 1) * u <= tenth * u
    BY <1>1, <2>1, <2>4, TimesOrder
  <2>. QED
    BY <1>1, <2>1, <2>3, <2>5
<1>5. tenth * 10 <= u * (n \div u)
  <2>1. n \div u \in Nat
    BY <1>1, DivBounds
  <2>2. tenth * 10 <= (n \div u) * 10
    BY <1>4, <2>1
  <2>3. 10 * (n \div u) <= u * (n \div u)
    BY <1>1, <2>1, TimesOrder
  <2>. QED
    BY <1>1, <2>1, <2>2, <2>3
<1>. QED
  BY <1>1, <1>2, <1>5, ProductBelow

-----------------------------------------------------------------------------
(* One quote *)

Unit(p) == One[Source(p)] * RateOne[p]

LEMMA PairFacts ==
  ASSUME NEW p \in Pairs
  PROVE  /\ Source(p) \in Assets /\ Target(p) \in Assets /\ Source(p) # Target(p)
         /\ One[Source(p)] \in Nat \ {0} /\ One[Target(p)] \in Nat \ {0}
         /\ RateUnits[p] \in Nat \ {0} /\ RateOne[p] \in Nat \ {0}
         /\ Unit(p) \in Nat \ {0}
<1>1. Source(p) \in Assets /\ Target(p) \in Assets /\ Source(p) # Target(p)
  BY RatesAssumption DEF Source, Target
<1>2. /\ One[Source(p)] \in Nat \ {0} /\ One[Target(p)] \in Nat \ {0}
      /\ RateUnits[p] \in Nat \ {0} /\ RateOne[p] \in Nat \ {0}
  BY <1>1, RatesAssumption, AssetsAssumption
<1>. QED
  BY <1>1, <1>2 DEF Unit

\* A product at or above the significant digits does not fit the column.
LEMMA LargeDoesNotFit ==
  ASSUME NEW p \in Pairs, NEW n \in Nat, Significand <= n
  PROVE  ~ Fits(Target(p), RoundedDown(p, n))
<1> DEFINE t == One[Target(p)]
           limit == Whole * t
<1>1. /\ t \in Nat \ {0} /\ Unit(p) \in Nat \ {0} /\ Whole \in Nat
      /\ limit \in Nat /\ n * t \in Nat
  BY PairFacts, PrecisionAssumption
<1>2. Whole * Unit(p) <= n
  <2>1. Whole * One[Source(p)] * RateOne[p] <= Significand
    BY PreciseAssumption DEF Precise
  <2>2. Whole * One[Source(p)] * RateOne[p] = Whole * Unit(p)
    BY PairFacts, <1>1 DEF Unit
  <2>. QED
    BY <2>1, <2>2, <1>1, PrecisionAssumption
<1>3. limit * Unit(p) <= n * t
  <2>1. (Whole * Unit(p)) * t <= n * t
    BY <1>1, <1>2, TimesOrder
  <2>2. (Whole * Unit(p)) * t = limit * Unit(p)
    BY <1>1
  <2>. QED
    BY <2>1, <2>2
<1>4. limit <= (n * t) \div Unit(p)
  <2> DEFINE d == (n * t) \div Unit(p)
  <2>1. d \in Nat /\ n * t < Unit(p) * d + Unit(p)
    BY <1>1, DivBounds
  <2>2. SUFFICES ASSUME d + 1 <= limit PROVE FALSE
    BY <1>1, <2>1
  <2>3. (d + 1) * Unit(p) <= limit * Unit(p)
    BY <1>1, <2>1, <2>2, TimesOrder
  <2> HIDE DEF d, limit
  <2>. QED
    BY <1>1, <1>3, <2>1, <2>3
<1>. QED
  BY <1>1, <1>4, DivBounds DEF Fits, RoundedDown, Unit

\* The exact product of a quote, rounded down.
ExactQuote(q) ==
  /\ q.target * Unit(q.pair) <= q.source * RateUnits[q.pair] * One[Target(q.pair)]
  /\ q.source * RateUnits[q.pair] * One[Target(q.pair)] < (q.target + 1) * Unit(q.pair)

\* Every quote that is created is exact.
LEMMA CreatedExact ==
  ASSUME NEW p \in Pairs, NEW source \in Nat, NEW u \in Steps,
         StepOf(source * RateUnits[p], u),
         Fits(Target(p), RoundedDown(p, Product(source * RateUnits[p], u)))
  PROVE  /\ RoundedDown(p, Product(source * RateUnits[p], u)) \in Nat
         /\ ExactQuote([pair |-> p, source |-> source,
                        target |-> RoundedDown(p, Product(source * RateUnits[p], u))])
<1> DEFINE n == source * RateUnits[p]
           t == One[Target(p)]
<1>1. n \in Nat /\ t \in Nat \ {0} /\ Unit(p) \in Nat \ {0} /\ n * t \in Nat
  BY PairFacts
<1>2. u = 1
  BY <1>1, ProductLarge, LargeDoesNotFit
<1>3. Product(n, u) = n
  BY <1>1, <1>2, ProductExact
<1>4. RoundedDown(p, Product(n, u)) = (n * t) \div Unit(p)
  BY <1>3 DEF RoundedDown, Unit
<1> DEFINE d == (n * t) \div Unit(p)
<1>5. d \in Nat /\ Unit(p) * d <= n * t /\ n * t < Unit(p) * d + Unit(p)
  BY <1>1, DivBounds
<1>6. d * Unit(p) <= n * t /\ n * t < (d + 1) * Unit(p)
  <2> HIDE DEF d
  <2>. QED
    BY <1>1, <1>5
<1>. QED
  BY <1>4, <1>5, <1>6 DEF ExactQuote

\* A quote's target is not worth more than its source.
LEMMA QuoteIsFair ==
  ASSUME NEW q \in Quote, ExactQuote(q)
  PROVE  q.target * Price[Target(q.pair)] <= q.source * Price[Source(q.pair)]
<1> DEFINE p == q.pair
           s == One[Source(p)]
           t == One[Target(p)]
           ps == Price[Source(p)]
           pt == Price[Target(p)]
           r == RateUnits[p]
           o == RateOne[p]
<1>1. p \in Pairs /\ q.source \in Nat /\ q.target \in Nat
  BY DEF Quote
<1>2. /\ s \in Nat \ {0} /\ t \in Nat \ {0} /\ ps \in Nat /\ pt \in Nat
      /\ r \in Nat \ {0} /\ o \in Nat \ {0} /\ Unit(p) = s * o /\ Unit(p) \in Nat \ {0}
  BY <1>1, PairFacts, AssetsAssumption DEF Unit
<1>3. r * t * pt <= o * s * ps
  BY <1>1, FairAssumption DEF Fair
<1>4. q.target * Unit(p) <= q.source * r * t
  BY DEF ExactQuote
<1>. HIDE DEF s, t, ps, pt, r, o, p
<1>5. (q.target * Unit(p)) * pt <= (q.source * r * t) * pt
  <2>1. q.target * Unit(p) \in Nat /\ q.source * r * t \in Nat
    BY <1>1, <1>2
  <2>. QED
    BY <1>2, <1>4, <2>1, TimesOrder
<1>6. (r * t * pt) * q.source <= (o * s * ps) * q.source
  <2>1. r * t * pt \in Nat /\ o * s * ps \in Nat
    BY <1>2
  <2>. QED
    BY <1>1, <1>3, <2>1, TimesOrder
<1>7. (q.source * r * t) * pt = (r * t * pt) * q.source
  BY <1>1, <1>2
<1>8. (o * s * ps) * q.source = (q.source * ps) * Unit(p)
  BY <1>1, <1>2
<1>9. (q.target * Unit(p)) * pt = (q.target * pt) * Unit(p)
  BY <1>1, <1>2
<1>10. q.target * pt \in Nat /\ q.source * ps \in Nat
  BY <1>1, <1>2
<1>11. (q.target * pt) * Unit(p) <= (q.source * ps) * Unit(p)
  <2>1. (r * t * pt) * q.source \in Nat /\ (q.source * ps) * Unit(p) \in Nat
        /\ (q.target * pt) * Unit(p) \in Nat
    BY <1>1, <1>2, <1>10
  <2>. QED
    BY <1>5, <1>6, <1>7, <1>8, <1>9, <2>1
<1>12. q.target * pt <= q.source * ps
  BY <1>2, <1>10, <1>11, CancelOrder
<1>. QED
  BY <1>12 DEF p, ps, pt

-----------------------------------------------------------------------------
(* The specification *)

PricingInv == PricingTypeOK /\ QuotesExact

LEMMA QuotesExactEach ==
  QuotesExact <=> \A q \in quoted : ExactQuote(q)
BY DEF QuotesExact, ExactQuote, Unit

LEMMA PricingInvStep ==
  ASSUME PricingInv, [PricingNext]_pricingVars
  PROVE  PricingInv'
<1> USE DEF PricingInv
<1>1. \A q \in quoted : ExactQuote(q)
  BY QuotesExactEach
<1>2. SUFFICES PricingTypeOK' /\ \A q \in quoted' : ExactQuote(q)
  BY DEF QuotesExact, ExactQuote, Unit
<1>3. ASSUME NEW p \in Pairs, NEW source \in 1 .. Whole * One[Source(p)], CreateQuote(p, source)
      PROVE  PricingTypeOK' /\ \A q \in quoted' : ExactQuote(q)
  <2>1. source \in Nat
    BY PairFacts, PrecisionAssumption
  <2>2. PICK u \in Steps :
          LET product == source * RateUnits[p]
              target == RoundedDown(p, Product(product, u))
          IN  /\ StepOf(product, u)
              /\ Fits(Target(p), target)
              /\ quoted' = quoted \cup {[pair |-> p, source |-> source, target |-> target]}
    BY <1>3 DEF CreateQuote
  <2> DEFINE new == [pair |-> p, source |-> source,
                     target |-> RoundedDown(p, Product(source * RateUnits[p], u))]
  <2>3. RoundedDown(p, Product(source * RateUnits[p], u)) \in Nat /\ ExactQuote(new)
    BY <2>1, <2>2, CreatedExact
  <2>4. new \in Quote
    BY <2>1, <2>3 DEF Quote
  <2>5. quoted' = quoted \cup {new} /\ holding' = holding
    BY <1>3, <2>2 DEF CreateQuote
  <2>. QED
    BY <1>1, <2>3, <2>4, <2>5 DEF PricingTypeOK
<1>4. ASSUME NEW q \in quoted, Settle(q)
      PROVE  PricingTypeOK' /\ \A r \in quoted' : ExactQuote(r)
  <2>1. q \in Quote /\ holding \in [Assets -> Nat]
    BY DEF PricingTypeOK
  <2>2. q.source \in Nat /\ q.target \in Nat /\ q.pair \in Pairs
    BY <2>1 DEF Quote
  <2>3. Source(q.pair) \in Assets /\ Target(q.pair) \in Assets
    BY <2>2, PairFacts
  <2>4. holding' \in [Assets -> Nat]
    BY <1>4, <2>1, <2>2, <2>3 DEF Settle
  <2>. QED
    BY <1>1, <1>4, <2>4 DEF Settle, PricingTypeOK
<1>5. ASSUME NEW q \in quoted, Forget(q)
      PROVE  PricingTypeOK' /\ \A r \in quoted' : ExactQuote(r)
  BY <1>1, <1>5 DEF Forget, PricingTypeOK
<1>6. CASE UNCHANGED pricingVars
  BY <1>1, <1>6 DEF pricingVars, PricingTypeOK
<1>. QED
  BY <1>3, <1>4, <1>5, <1>6 DEF PricingNext

\* Holdings and quotes keep their types, for every rate table.
THEOREM PricingTypes == PricingSpec => []PricingTypeOK
<1>1. PricingInit => PricingInv
  BY AssetsAssumption DEF PricingInit, PricingInv, PricingTypeOK, QuotesExact
<1>2. PricingInv /\ [PricingNext]_pricingVars => PricingInv'
  BY PricingInvStep
<1>3. PricingInv => PricingTypeOK
  BY DEF PricingInv
<1>. QED
  BY <1>1, <1>2, <1>3, PTL DEF PricingSpec

\* The target of every stored quote is the exact product rounded down
\* (Money.convert, money.ts:102), although Decimal rounds the product first.
THEOREM QuotesAreExact == PricingSpec => []QuotesExact
<1>1. PricingInit => PricingInv
  BY AssetsAssumption DEF PricingInit, PricingInv, PricingTypeOK, QuotesExact
<1>2. PricingInv /\ [PricingNext]_pricingVars => PricingInv'
  BY PricingInvStep
<1>3. PricingInv => QuotesExact
  BY DEF PricingInv
<1>. QED
  BY <1>1, <1>2, <1>3, PTL DEF PricingSpec

\* No step makes the holdings worth more: the settled quote takes at least
\* the worth it gives, and nothing else moves.
LEMMA WorthStep ==
  ASSUME PricingInv, [PricingNext]_pricingVars
  PROVE  Worth' <= Worth
<1> DEFINE w == [a \in Assets |-> holding[a] * Price[a]]
           v == [a \in Assets |-> holding'[a] * Price[a]]
<1>1. holding \in [Assets -> Nat] /\ holding' \in [Assets -> Nat]
  BY PricingInvStep DEF PricingInv, PricingTypeOK
<1>2. (\A a \in Assets : w[a] \in Nat) /\ (\A a \in Assets : v[a] \in Nat)
  BY <1>1, AssetsAssumption
<1>3. Worth = SumOver(w, Assets) /\ Worth' = SumOver(v, Assets)
  BY DEF Worth
<1>4. CASE holding' = holding
  <2>1. v = w
    BY <1>4
  <2>. QED
    BY <1>2, <1>3, <2>1, SumType, AssetsAssumption
<1>5. ASSUME NEW q \in quoted, Settle(q) PROVE Worth' <= Worth
  <2> DEFINE s == Source(q.pair)
             t == Target(q.pair)
             rest == (Assets \ {s}) \ {t}
  <2>1. q \in Quote /\ ExactQuote(q)
    BY QuotesExactEach DEF PricingInv, PricingTypeOK
  <2>2. q.pair \in Pairs /\ q.source \in Nat /\ q.target \in Nat
    BY <2>1 DEF Quote
  <2>3. s \in Assets /\ t \in Assets /\ s # t /\ t \in Assets \ {s}
    BY <2>2, PairFacts
  <2>4. q.target * Price[t] <= q.source * Price[s]
    BY <2>1, QuoteIsFair
  <2>5. /\ holding'[s] = holding[s] - q.source /\ holding[s] >= q.source
        /\ holding'[t] = holding[t] + q.target
        /\ \A a \in rest : holding'[a] = holding[a]
    BY <1>1, <1>5, <2>3 DEF Settle
  <2> HIDE DEF s, t
  <2>6. IsFiniteSet(Assets \ {s}) /\ IsFiniteSet(rest)
    BY AssetsAssumption, FS_RemoveElement
  <2>7. /\ \A a \in Assets \ {s} : w[a] \in Nat
        /\ \A a \in rest : w[a] \in Nat
        /\ \A a \in Assets \ {s} : v[a] \in Nat
        /\ \A a \in rest : v[a] \in Nat
    BY <1>2
  <2>8. SumOver(w, Assets \ {s}) = SumOver(w, Assets) - w[s]
    BY <1>2, <2>3, AssetsAssumption, SumRemove
  <2>9. SumOver(w, rest) = SumOver(w, Assets \ {s}) - w[t]
    BY <2>3, <2>6, <2>7, SumRemove
  <2>10. SumOver(v, Assets \ {s}) = SumOver(v, Assets) - v[s]
    BY <1>2, <2>3, AssetsAssumption, SumRemove
  <2>11. SumOver(v, rest) = SumOver(v, Assets \ {s}) - v[t]
    BY <2>3, <2>6, <2>7, SumRemove
  <2>12. SumOver(w, rest) = SumOver(v, rest)
    <3>1. \A a \in rest : w[a] = v[a]
      BY <2>5
    <3>. QED
      BY <3>1, SumSame
  <2>13. /\ SumOver(w, Assets) \in Nat /\ SumOver(v, Assets) \in Nat
         /\ SumOver(w, Assets \ {s}) \in Nat /\ SumOver(v, Assets \ {s}) \in Nat
    BY <1>2, <2>6, <2>7, AssetsAssumption, SumType
  <2>14. v[s] + v[t] <= w[s] + w[t]
    <3>1. /\ w[s] = holding[s] * Price[s] /\ w[t] = holding[t] * Price[t]
          /\ v[s] = (holding[s] - q.source) * Price[s]
          /\ v[t] = (holding[t] + q.target) * Price[t]
      BY <2>3, <2>5
    <3>2. Price[s] \in Nat /\ Price[t] \in Nat /\ holding[s] \in Nat /\ holding[t] \in Nat
      BY <1>1, <2>3, AssetsAssumption
    <3> DEFINE hs == holding[s]
               ht == holding[t]
               ps == Price[s]
               pt == Price[t]
               x == q.source
               y == q.target
    <3>3. x \in Nat /\ y \in Nat /\ y * pt <= x * ps
      BY <2>2, <2>4
    <3>4. hs \in Nat /\ ht \in Nat /\ ps \in Nat /\ pt \in Nat
      BY <3>2
    <3>5. w[s] = hs * ps /\ w[t] = ht * pt /\ v[s] = (hs - x) * ps /\ v[t] = (ht + y) * pt
      BY <3>1
    <3> HIDE DEF hs, ht, ps, pt, x, y, w, v
    <3>6. (hs - x) * ps = hs * ps - x * ps /\ (ht + y) * pt = ht * pt + y * pt
      BY <3>3, <3>4
    <3>7. hs * ps \in Nat /\ ht * pt \in Nat /\ x * ps \in Nat /\ y * pt \in Nat
      BY <3>3, <3>4
    <3>. QED
      BY <3>3, <3>5, <3>6, <3>7
  <2>15. w[s] \in Nat /\ w[t] \in Nat /\ v[s] \in Nat /\ v[t] \in Nat
    BY <1>2, <2>3
  <2> HIDE DEF w, v, rest
  <2>. QED
    BY <1>3, <2>8, <2>9, <2>10, <2>11, <2>12, <2>13, <2>14, <2>15
<1>. QED
  BY <1>4, <1>5 DEF PricingNext, CreateQuote, Forget, pricingVars

\* A conversion fabricates no value (money.ts:100): no sequence of conversions
\* makes the holdings worth more, for every rate table that is fair.
THEOREM ConversionsGainNothing == PricingSpec => NoFreeMoney
<1>1. PricingInit => PricingInv
  BY AssetsAssumption DEF PricingInit, PricingInv, PricingTypeOK, QuotesExact
<1>2. PricingInv /\ [PricingNext]_pricingVars => PricingInv'
  BY PricingInvStep
<1>3. PricingInv /\ [PricingNext]_pricingVars => [Worth' <= Worth]_pricingVars
  BY WorthStep
<1>. QED
  BY <1>1, <1>2, <1>3, PTL DEF PricingSpec, NoFreeMoney

-----------------------------------------------------------------------------
(* The deployed rate table *)

\* The rates of FakePricingProvider, 0.0000161 from USDT (scale 6) to BTC
\* (scale 8) and 62111.801242236 back, satisfy both assumptions on rates with
\* 161 and 100000 as the worth of a unit, 40 digits and 20 whole digits: what
\* is proved above holds of the deployed table.
THEOREM DeployedRates ==
  /\ Fair(161, 10000000, 1000000, 100000000, 161, 100000)
  /\ Fair(62111801242236, 1000000000, 100000000, 1000000, 100000, 161)
  /\ Precise(100000000000000000000, 10000000, 1000000,
             10000000000000000000000000000000000000000)
  /\ Precise(100000000000000000000, 1000000000, 100000000,
             10000000000000000000000000000000000000000)
BY SMT DEF Fair, Precise
=============================================================================
