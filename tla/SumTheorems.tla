---------------------------- MODULE SumTheorems -----------------------------
(***************************************************************************)
(* What the sums of module Sums do when a row enters or leaves the set.     *)
(***************************************************************************)
EXTENDS Sums, FiniteSetTheorems, TLAPS

\* A finite set of rows has finitely many units.
LEMMA UnitsFinite ==
  ASSUME NEW S, IsFiniteSet(S), NEW amount, \A x \in S : amount[x] \in Nat
  PROVE  IsFiniteSet(Units(amount, S))
<1> DEFINE Block(x) == {x} \X (1 .. amount[x])
           blocks == {Block(x) : x \in S}
           f == [x \in S |-> Block(x)]
<1>1. IsFiniteSet(blocks)
  <2>1. f \in Surjection(S, blocks)
    BY DEF Surjection
  <2>. QED
    BY <2>1, FS_Surjection
<1>2. ASSUME NEW T \in blocks PROVE IsFiniteSet(T)
  <2>1. PICK x \in S : T = Block(x)
    OBVIOUS
  <2>2. IsFiniteSet({x})
    BY FS_Singleton
  <2>3. IsFiniteSet(1 .. amount[x])
    BY FS_Interval
  <2>. QED
    BY <2>1, <2>2, <2>3, FS_Product
<1>. QED
  BY <1>1, <1>2, FS_UNION DEF Units

\* A sum is a natural number, and nothing sums to 0.
LEMMA SumType ==
  ASSUME NEW S, IsFiniteSet(S), NEW amount, \A x \in S : amount[x] \in Nat
  PROVE  SumOver(amount, S) \in Nat
BY UnitsFinite, FS_CardinalityType DEF SumOver

LEMMA SumEmpty ==
  ASSUME NEW amount
  PROVE  SumOver(amount, {}) = 0
<1>1. Units(amount, {}) = {}
  BY DEF Units
<1>. QED
  BY <1>1, FS_EmptySet DEF SumOver

\* A row that enters the set adds its amount.
LEMMA SumInsert ==
  ASSUME NEW S, IsFiniteSet(S), NEW amount, \A x \in S : amount[x] \in Nat,
         NEW y, y \notin S, amount[y] \in Nat
  PROVE  SumOver(amount, S \cup {y}) = SumOver(amount, S) + amount[y]
<1> DEFINE own == {y} \X (1 .. amount[y])
<1>1. IsFiniteSet(own) /\ Cardinality(own) = amount[y]
  <2>1. IsFiniteSet({y}) /\ Cardinality({y}) = 1
    BY FS_Singleton
  <2>2. IsFiniteSet(1 .. amount[y]) /\ Cardinality(1 .. amount[y]) = amount[y]
    BY SMTT(30), FS_Interval
  <2>3. IsFiniteSet(own) /\ Cardinality(own) = Cardinality({y}) * Cardinality(1 .. amount[y])
    BY <2>1, <2>2, FS_Product
  <2>. QED
    BY <2>1, <2>2, <2>3
<1>2. Units(amount, S \cup {y}) = Units(amount, S) \cup own
  BY DEF Units
<1>3. Units(amount, S) \cap own = {}
  BY DEF Units
<1>4. IsFiniteSet(Units(amount, S)) /\ Cardinality(Units(amount, S)) \in Nat
  BY UnitsFinite, FS_CardinalityType
<1>5. Cardinality(Units(amount, S) \cup own)
        = Cardinality(Units(amount, S)) + Cardinality(own) - Cardinality({})
  BY <1>1, <1>3, <1>4, FS_Union
<1>6. Cardinality({}) = 0
  BY FS_EmptySet
<1>7. Cardinality(Units(amount, S \cup {y})) = Cardinality(Units(amount, S)) + amount[y]
  <2>1. Cardinality(Units(amount, S \cup {y})) = Cardinality(Units(amount, S) \cup own)
    BY <1>2, Zenon
  <2> HIDE DEF own
  <2>. QED
    BY <2>1, <1>1, <1>4, <1>5, <1>6
<1>. QED
  BY <1>7 DEF SumOver

\* A row that leaves the set takes its amount away.
LEMMA SumRemove ==
  ASSUME NEW S, IsFiniteSet(S), NEW amount, \A x \in S : amount[x] \in Nat, NEW y \in S
  PROVE  SumOver(amount, S \ {y}) = SumOver(amount, S) - amount[y]
<1>1. IsFiniteSet(S \ {y})
  BY FS_RemoveElement
<1>2. S = (S \ {y}) \cup {y}
  OBVIOUS
<1>3. SumOver(amount, (S \ {y}) \cup {y}) = SumOver(amount, S \ {y}) + amount[y]
  BY <1>1, SumInsert
<1>4. SumOver(amount, S \ {y}) \in Nat
  BY <1>1, SumType
<1>5. SumOver(amount, S) = SumOver(amount, S \ {y}) + amount[y]
  BY <1>2, <1>3, Zenon
<1>6. amount[y] \in Nat
  OBVIOUS
<1>. QED
  BY <1>4, <1>5, <1>6

\* A sum depends on the amounts of its own rows only.
LEMMA SumSame ==
  ASSUME NEW S, NEW f, NEW g, \A x \in S : f[x] = g[x]
  PROVE  SumOver(f, S) = SumOver(g, S)
<1>1. Units(f, S) = Units(g, S)
  BY DEF Units
<1>. QED
  BY <1>1 DEF SumOver

\* A sum of which one amount changes.
LEMMA SumPoint ==
  ASSUME NEW S, IsFiniteSet(S), NEW a, NEW b, \A x \in S : a[x] \in Nat /\ b[x] \in Nat,
         NEW y \in S, \A x \in S : x # y => b[x] = a[x]
  PROVE  SumOver(b, S) = SumOver(a, S) - a[y] + b[y]
<1>1. SumOver(a, S \ {y}) = SumOver(a, S) - a[y] /\ SumOver(b, S \ {y}) = SumOver(b, S) - b[y]
  BY SumRemove
<1>2. SumOver(a, S \ {y}) = SumOver(b, S \ {y})
  BY SumSame
<1>3. SumOver(a, S) \in Nat /\ SumOver(b, S) \in Nat /\ a[y] \in Nat /\ b[y] \in Nat
  BY SumType
<1>. QED
  BY <1>1, <1>2, <1>3
=============================================================================
