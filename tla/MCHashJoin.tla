----------------------------- MODULE MCHashJoin -----------------------------
(* Instances of HashJoin for TLC: two workers; two build rows in four      *)
(* slots, where chains start in the last slot and wrap around; a key that  *)
(* only probes look for; one that several of them look for.                *)
EXTENDS HashJoin

CONSTANTS k1, k2, k3

ThreeKeys == {k1, k2, k3}
(* The second is the inverse of the first, as a disabled tag is.           *)
SomeHashes == {[low |-> 3, mark |-> FALSE, print |-> 0],
               [low |-> 3, mark |-> TRUE, print |-> 1],
               [low |-> 2, mark |-> TRUE, print |-> 0]}
SomeBuilds == {<<k1, k2>>, << >>}
SomeProbes == {<<k1, k3, k1>>, <<k2, k1, k2>>}
PassingKinds == {"inner", "leftSemi", "marking"}
OuterJoin == {"leftOuter"}
=============================================================================
