------------------------ MODULE MCGroupedAggregation ------------------------
(* Instances of GroupedAggregation for TLC. The tables of the code start   *)
(* with 8 slots and merge tables with 32; here they start with two, so     *)
(* that three groups resize a table twice.                                 *)
EXTENDS GroupedAggregation

CONSTANTS k1, k2, k3, k4

ThreeKeys == {k1, k2, k3}
FourKeys == {k1, k2, k3, k4}

(* Relations of distinct groups, of repeated groups and of one group.      *)
SomeInputs ==
  {<<k1, k2, k1, k3, k2>>, <<k1, k2, k3, k1>>, <<k1, k1, k1, k2>>, << >>}
(* One relation in which every group appears once.                         *)
DistinctInput == {<<k1, k2, k3>>}
(* All relations of four rows and one of two morsels.                      *)
LongInputs == [1 .. 4 -> FourKeys] \cup {<<k1, k2, k3, k4, k1, k4, k2>>}
=============================================================================
