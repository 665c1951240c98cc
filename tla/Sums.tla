-------------------------------- MODULE Sums --------------------------------
(***************************************************************************)
(* Sums of natural amounts over a finite set of rows.                       *)
(*                                                                         *)
(* An amount n of row x is laid out as the n units <<x, 1>> .. <<x, n>>;    *)
(* the sum over a set of rows is the number of units.  Counting keeps the   *)
(* definition free of recursion, so that theorems can be stated about it.   *)
(***************************************************************************)
EXTENDS Integers, FiniteSets

Units(amount, S) == UNION { {x} \X (1 .. amount[x]) : x \in S }

SumOver(amount, S) == Cardinality(Units(amount, S))
=============================================================================
