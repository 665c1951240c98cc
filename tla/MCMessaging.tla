---------------------------- MODULE MCMessaging -----------------------------
(***************************************************************************)
(* One process with two handlers, or two processes with one handler each.   *)
(***************************************************************************)
EXTENDS Messaging, TLC

CONSTANTS e1, e2, p1, p2, s1, s2

\* e2 is older, or both are equally old.
Ordered == e1 :> 2 @@ e2 :> 1
Tied == e1 :> 1 @@ e2 :> 1
OneEvent == e1 :> 1

OneHost == s1 :> p1 @@ s2 :> p1
TwoHosts == s1 :> p1 @@ s2 :> p2

TwoSlots == Permutations({s1, s2})
=============================================================================
