-------------------------------- MODULE Backends --------------------------------
(***************************************************************************)
(* A query, and what the backends make of its pipelines: the executors that*)
(* run them one after the other (PipelineDAG), the code that is generated  *)
(* for each of them (CodeGeneration), and the columns that its rows flow   *)
(* through (ChunkFlow). Pipelines do not change once they are built, so    *)
(* code is generated, or rows flow, for one of them, when the query begins *)
(* to run on a single thread.                                              *)
(***************************************************************************)
EXTENDS CodeGeneration, ChunkFlow

allVars == <<vars, compileVars, flowVars>>

BackendsInit == Init /\ Idle /\ NotStarted

QueryStep == job = NoJob /\ flow = NoFlow /\ Next /\ UNCHANGED <<compileVars, flowVars>>
Ready == pipeIdx = 0 /\ threads = 1 /\ job = NoJob /\ flow = NoFlow
GenerateCode ==
  /\ \/ Ready /\ StartCompile
     \/ flow = NoFlow /\ CompileFragment
     \/ Generate
  /\ UNCHANGED flowVars
FlowRows ==
  /\ \/ Ready /\ StartFlow
     \/ Flow
  /\ UNCHANGED compileVars

BackendsNext == QueryStep \/ GenerateCode \/ FlowRows
BackendsSpec == BackendsInit /\ [][BackendsNext]_allVars
=============================================================================
