----------------------------- MODULE MCHashTables -----------------------------
(* Instances of HashTables for TLC: tables of two slots that grow to       *)
(* eight. All keys have their home in the last slot of a table of two or   *)
(* four slots, so that chains wrap around; some part in one of eight. With *)
(* fingerprints of one bit many keys share theirs.                         *)
EXTENDS HashTables, TLC

CONSTANTS k0, k1, k2, k3

AllKinds == [sk |-> {k0, k1, k2}, ck |-> {k1, k2, k3}, dl |-> {k0, k1, k2}, nk |-> {k0}]
SimpleKeys == [sk |-> {k0, k1, k2}]
EdgeHashes == [low : {3, 7}, print : {0, 1}]
OtherKeys == Permutations({k1, k2})
=============================================================================
