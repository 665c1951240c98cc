------------------------------ MODULE MCEngine -------------------------------
(***************************************************************************)
(* One conversion, one process with two handlers and three workers: the     *)
(* third handles a redelivery while an old handler still runs.              *)
(***************************************************************************)
EXTENDS Engine, TLC

CONSTANTS q1, w1, w2, c1, e1, p1, s1, s2, h1, h2, h3

MCTerms == q1 :> [source |-> w1, target |-> w2, sourceAmount |-> 2, targetAmount |-> 1]
MCInitial == w1 :> 2 @@ w2 :> 0
MCCreatedAt == e1 :> 1
MCHost == s1 :> p1 @@ s2 :> p1
OneSlot == s1 :> p1

Symmetry == Permutations(Slots) \cup Permutations(Workers)
=============================================================================
