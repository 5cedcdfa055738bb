------------------------- MODULE MCPipelineExecutor -------------------------
(* Instances of PipelineExecutor for TLC. Morsels of two rows; a relation  *)
(* of an odd number of rows ends with a partial morsel, and the workers    *)
(* race for the last morsels and for the end of the relation.              *)
EXTENDS PipelineExecutor, TLC

CONSTANTS t1, t2, t3, j1, j2

TwoJobs == {j1, j2}
TwoThreads == {t1, t2}
ThreeThreads == {t1, t2, t3}
AllModes == {"Fused", "Interpreted", "ROF", "Hybrid"}
SomeLimits == {2, NoLimit}

(* t1 is the main thread; the others can be exchanged.                     *)
OtherWorkers == Permutations({t2, t3})
=============================================================================
