--------------------------- MODULE MCAcceptQuote ----------------------------
(***************************************************************************)
(* Two quotes debiting the same wallet, which covers only one of them.      *)
(***************************************************************************)
EXTENDS AcceptQuote, TLC

CONSTANTS q1, q2, w1, w2, k1, k2, s1, s2, c1, c2, e1, e2

MCTerms ==
  q1 :> [source |-> w1, target |-> w2, sourceAmount |-> 2, targetAmount |-> 1] @@
  q2 :> [source |-> w1, target |-> w2, sourceAmount |-> 1, targetAmount |-> 1]

\* The wallet covers either quote but not both, so one conversion id suffices.
RivalTerms == [q \in {q1, q2} |-> [source |-> w1, target |-> w2, sourceAmount |-> 2, targetAmount |-> 1]]

MCInitial == w1 :> 2 @@ w2 :> 0

Symmetry == Permutations(Conversions) \cup Permutations(Events) \cup Permutations(Sessions)
=============================================================================
