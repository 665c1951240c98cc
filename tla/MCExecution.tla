---------------------------- MODULE MCExecution -----------------------------
(***************************************************************************)
(* Two workers.  Either three conversions: two from different wallets into   *)
(* one that has no row yet, and a second hold on one of the sources; or two  *)
(* in opposite directions between two funded wallets.                       *)
(***************************************************************************)
EXTENDS Execution, TLC

CONSTANTS q1, q2, q3, w1, w2, w3, s1, s2, c1, c2, c3, e1, e2, e3

MCTerms ==
  q1 :> [source |-> w1, target |-> w3, sourceAmount |-> 2, targetAmount |-> 1] @@
  q2 :> [source |-> w2, target |-> w3, sourceAmount |-> 2, targetAmount |-> 2] @@
  q3 :> [source |-> w1, target |-> w2, sourceAmount |-> 1, targetAmount |-> 1]
MCInitial == w1 :> 3 @@ w2 :> 1 @@ w3 :> 0

Opposite ==
  q1 :> [source |-> w1, target |-> w2, sourceAmount |-> 2, targetAmount |-> 1] @@
  q2 :> [source |-> w2, target |-> w1, sourceAmount |-> 1, targetAmount |-> 2]
TwoWallets == w1 :> 2 @@ w2 :> 1

\* One stray is enough: an accept may tie its event, its conversion and its
\* quote's terms to any others, or to each other, so each may match or not.
Tampered == {[event |-> e1, conversion |-> c1, quote |-> q1]}
NoStrays == {}

Symmetry == Permutations(Conversions) \cup Permutations(Events) \cup Permutations(Workers)
=============================================================================
