---------------------- MODULE PipelineExecutor_proofs -----------------------
(***************************************************************************)
(* The safety properties of PipelineExecutor for every set of workers,     *)
(* every relation, morsel size, limit and set of compile jobs.             *)
(***************************************************************************)
EXTENDS PipelineExecutor, FiniteSetTheorems, TLAPS

-----------------------------------------------------------------------------
(* The inductive invariant.                                                *)

InBarrier(t) == pc[t] \in {"asleep", "recheck", "notify"}
BeforeBarrier == {t \in Threads : ~pastBarrier[t] /\ ~InBarrier(t)}
InMorsel(t) == pc[t] \in {"pick", "run", "mark"}

(* How far the background jobs are determines what they have recorded;     *)
(* only a hybrid pipeline interrupts.                                      *)
JobInv ==
  /\ toInterrupt # {} => mode = "Hybrid"
  /\ ~compilerSetupStarted => \A j \in Jobs : jobPc[j] = "none"
  /\ \A j \in Jobs :
       /\ event[j] => mode = "Hybrid"
       /\ jobPc[j] = "terminate" => result[j] = "Interrupted"
       /\ jobPc[j] = "join" => result[j] # "none"
       /\ result[j] = "Interrupted" => event[j]
       /\ jobPc[j] = "aborted" => result[j] = "Interrupted"
       /\ jobPc[j] \in {"publish", "finished"} => result[j] = "JobDone"
       /\ fusedSetUp[j] <=> jobPc[j] = "finished"
       /\ jobPc[j] \in {"publish", "finished", "aborted"} => process[j] = "reaped"

(* The barrier counts the workers that have not arrived; nobody gets past  *)
(* it before all have; only hybrid workers come near it.                   *)
BarrierInv ==
  /\ pending = Cardinality(BeforeBarrier)
  /\ \A t \in Threads :
       /\ pastBarrier[t] \/ pc[t] = "notify" => pending = 0
       /\ pastBarrier[t] => mode = "Hybrid" /\ ~InBarrier(t)
       /\ pastBarrier[t] => pc[t] \notin {"readFlag", "arrive", "idle"}
       /\ pc[t] \in {"readFlag", "arrive"} \/ InBarrier(t) => mode = "Hybrid"

(* The stage of the query decides whether workers exist.                   *)
StageInv ==
  /\ driver = "returned" => \A t \in Threads : pc[t] = "done"
  /\ driver \notin {"swim", "returned"} => \A t \in Threads : pc[t] = "idle"
  /\ driver \in {"swim", "returned"} => \A t \in Threads : pc[t] # "idle"
  /\ driver \in {"spawn", "swim", "returned"} => interpretersSetUp = (mode # "Fused")
  /\ driver \in {"setUp", "spawn", "swim", "returned"} /\ mode \in {"Fused", "ROF"} =>
       \A j \in JobsOf(mode) : fusedSetUp[j]
  /\ driver \in {"spawn", "swim", "returned"} /\ mode \in {"Fused", "ROF"} =>
       \A j \in JobsOf(mode) : compiledSetUp[j]

(* A worker that arrived at the barrier is about to stop or has seen the   *)
(* compiled code published; so once all arrived, the runner is set up or   *)
(* all of them stop.                                                       *)
ReadyInv ==
  /\ \A t \in Threads :
       /\ InMorsel(t) => ~terminate[t]
       /\ pc[t] = "done" => terminate[t]
       /\ pc[t] = "arrive" \/ InBarrier(t) => terminate[t] \/ fusedSetUp[FusedJob]
       /\ pastBarrier[t] => terminate[t] \/ compiledSetUp[FusedJob]
       /\ pending = 0 /\ InBarrier(t) => terminate[t] \/ compiledSetUp[FusedJob]
       /\ InMorsel(t) => backend[t] \in BackendsOf(t)
  /\ \A j \in Jobs : compiledSetUp[j] => fusedSetUp[j]

(* start_idx separates the rows nobody has picked from those that were     *)
(* executed or belong to exactly one running worker.                       *)
RowInv ==
  /\ RowsPickedOnce
  /\ \A r \in Rows : r >= startIdx => times[r] = 0
  /\ \A t \in Threads : pc[t] = "run" =>
       /\ morsel[t].start < morsel[t].end
       /\ morsel[t].end <= startIdx
       /\ morsel[t].end <= RelSize
  /\ \A r \in Rows : r < startIdx =>
       \/ times[r] = 1
       \/ \E t \in Threads : pc[t] = "run" /\ r \in MorselRows(morsel[t])
  /\ \A t \in Threads : terminate[t] => startIdx >= RelSize \/ limit = 0

(* The printer's counters and the sinks.                                   *)
OutputInv ==
  /\ allowed = NoLimit => limit = NoLimit
  /\ allowed # NoLimit => limit # NoLimit /\ numRows + limit = allowed
  /\ \A t \in Threads : pc[t] # "mark" => chunk[t] = 0 \/ terminate[t]

IInv == /\ TypeOK
        /\ JobInv
        /\ BarrierInv
        /\ StageInv
        /\ ReadyInv
        /\ RowInv
        /\ OutputInv

-----------------------------------------------------------------------------
(* The structure of a step: one case per action, the steps that leave the  *)
(* pipeline alone taken together.                                          *)
LEMMA StepCases ==
  ASSUME [Next]_vars
  PROVE  \/ PrepareQuery \/ PreparePipeline \/ AwaitCompilation \/ SetUp
         \/ SpawnSwimlanes \/ Return
         \/ \E t \in Threads :
              \/ Loop(t) \/ PickMorsel(t) \/ RunMorsel(t) \/ MarkMorselDone(t)
              \/ ReadFusedSetUp(t) \/ Arrive(t) \/ NotifyAll(t) \/ Recheck(t)
              \/ SpuriousWakeUp(t)
         \/ \E j \in Jobs : InterruptCompilation(j)
         \/ \E j \in Jobs : JobStep(j) /\ PipelineUnchanged
         \/ \E j \in Jobs : (CompilerExits(j) \/ CompilerDies(j)) /\ PipelineUnchanged
         \/ UNCHANGED vars
  BY DEF Next, DriverStep, WorkerStep, BackgroundStep, Environment, Stay

(* The job that compiles the fused pipeline is one of the jobs.            *)
LEMMA FusedJobIsJob == FusedJob \in Jobs
  BY JobsAssumption DEF FusedJob

(* AfterMorsel never leads past the barrier or out of the swimlane.        *)
LEMMA AfterMorselPcs == \A t : AfterMorsel(t) \in {"readFlag", "loop"}
  BY DEF AfterMorsel

(* The steps of the background threads keep their types.                   *)
LEMMA JobTypes ==
  ASSUME JobTypeOK, NEW j \in Jobs,
         JobStep(j) \/ Interrupt(j) \/ CompilerExits(j) \/ CompilerDies(j)
  PROVE  JobTypeOK'
<1> USE DEF JobTypeOK, JobPcs, ProcessStates
<1>1. CASE GenerateC(j)         BY <1>1 DEF GenerateC
<1>2. CASE CreateProcess(j)     BY <1>2 DEF CreateProcess
<1>3. CASE RegisterJob(j)       BY <1>3 DEF RegisterJob
<1>4. CASE AwaitChange(j)       BY <1>4 DEF AwaitChange
<1>5. CASE TerminateProcess(j)  BY <1>5 DEF TerminateProcess
<1>6. CASE JoinProcess(j)       BY <1>6 DEF JoinProcess
<1>7. CASE Publish(j)           BY <1>7 DEF Publish
<1>8. CASE Interrupt(j)         BY <1>8 DEF Interrupt
<1>9. CASE CompilerExits(j)     BY <1>9 DEF CompilerExits
<1>10. CASE CompilerDies(j)     BY <1>10 DEF CompilerDies
<1> QED BY <1>1, <1>2, <1>3, <1>4, <1>5, <1>6, <1>7, <1>8, <1>9, <1>10 DEF JobStep

(* Every step keeps the types.                                             *)
LEMMA TypeStep ==
  ASSUME TypeOK, BarrierInv, [Next]_vars
  PROVE  TypeOK'
<1> USE DEF TypeOK, DriverPcs, WorkerPcs, Backends, jobVars, setUpVars,
            workerVars, printerVars, Go
<1>1. CASE PrepareQuery
  BY <1>1 DEF PrepareQuery, PrepareCompiled, StartJobs, JobTypeOK, JobPcs
<1>2. CASE PreparePipeline
  BY <1>2 DEF PreparePipeline, PrepareCompiled, StartJobs, JobTypeOK, JobPcs
<1>3. CASE AwaitCompilation
  BY <1>3 DEF AwaitCompilation, JobTypeOK
<1>4. CASE SetUp
  BY <1>4 DEF SetUp, JobTypeOK
<1>5. CASE SpawnSwimlanes
  BY <1>5 DEF SpawnSwimlanes, JobTypeOK
<1>6. CASE Return
  BY <1>6 DEF Return, JobsOf, JobTypeOK
<1>7. ASSUME NEW t \in Threads, Loop(t)
      PROVE  TypeOK'
  BY <1>7 DEF Loop, BackendsOf, JobTypeOK
<1>8. ASSUME NEW t \in Threads, PickMorsel(t)
      PROVE  TypeOK'
  <2> DEFINE m == [start |-> startIdx, end |-> Smaller(startIdx + ChunkSize, RelSize)]
  <2>1. m \in [start : Nat, end : Nat] /\ startIdx + ChunkSize \in Nat
    BY PipelineAssumption DEF Smaller
  <2>2. morsel' \in [Threads -> [start : Nat, end : Nat]]
    BY <1>8, <2>1 DEF PickMorsel
  <2>3. pc' \in [Threads -> WorkerPcs] /\ terminate' \in [Threads -> BOOLEAN]
    BY <1>8, AfterMorselPcs DEF PickMorsel
  <2>4. startIdx' \in Nat
    BY <1>8, <2>1 DEF PickMorsel
  <2> QED BY <1>8, <2>2, <2>3, <2>4 DEF PickMorsel, JobTypeOK
<1>9. ASSUME NEW t \in Threads, RunMorsel(t)
      PROVE  TypeOK'
  BY <1>9 DEF RunMorsel, JobTypeOK
<1>10. ASSUME NEW t \in Threads, MarkMorselDone(t)
      PROVE  TypeOK'
  <2> DEFINE write == IF limit = NoLimit THEN chunk[t] ELSE Smaller(chunk[t], limit)
  <2>1. write \in Nat /\ (limit # NoLimit => limit - write \in Nat)
    BY DEF Smaller
  <2> HIDE DEF write
  <2>2. /\ limit' = IF limit = NoLimit THEN NoLimit ELSE limit - write
        /\ numRows' = numRows + write
    BY <1>10 DEF MarkMorselDone, write
  <2>3. limit' \in Nat \cup {NoLimit} /\ numRows' \in Nat
    BY <2>1, <2>2
  <2> QED BY <1>10, <2>3, AfterMorselPcs DEF MarkMorselDone, JobTypeOK
<1>11. ASSUME NEW t \in Threads, ReadFusedSetUp(t)
      PROVE  TypeOK'
  BY <1>11 DEF ReadFusedSetUp, JobTypeOK
<1>12. ASSUME NEW t \in Threads, Arrive(t)
      PROVE  TypeOK'
  <2>1. t \in BeforeBarrier /\ IsFiniteSet(BeforeBarrier)
    BY <1>12, PipelineAssumption, FS_Subset DEF Arrive, BeforeBarrier, BarrierInv, InBarrier
  <2>2. pending > 0
    BY <2>1, FS_EmptySet, FS_CardinalityType DEF BarrierInv
  <2>3. pending' \in 0 .. Cardinality(Threads)
    BY <1>12, <2>2, PipelineAssumption, FS_CardinalityType DEF Arrive
  <2> QED BY <1>12, <2>3, FusedJobIsJob DEF Arrive, JobTypeOK
<1>13. ASSUME NEW t \in Threads, NotifyAll(t)
      PROVE  TypeOK'
  BY <1>13 DEF NotifyAll, JobTypeOK
<1>14. ASSUME NEW t \in Threads, Recheck(t)
      PROVE  TypeOK'
  BY <1>14 DEF Recheck, JobTypeOK
<1>15. ASSUME NEW t \in Threads, SpuriousWakeUp(t)
      PROVE  TypeOK'
  BY <1>15 DEF SpuriousWakeUp, JobTypeOK
<1>16. ASSUME NEW j \in Jobs, InterruptCompilation(j)
      PROVE  TypeOK'
  BY <1>16, JobTypes DEF InterruptCompilation
<1>17. ASSUME NEW j \in Jobs, JobStep(j), PipelineUnchanged
      PROVE  TypeOK'
  BY <1>17, JobTypes DEF PipelineUnchanged
<1>18. ASSUME NEW j \in Jobs, CompilerExits(j) \/ CompilerDies(j), PipelineUnchanged
      PROVE  TypeOK'
  BY <1>18, JobTypes DEF PipelineUnchanged
<1>19. CASE UNCHANGED vars
  BY <1>19 DEF vars, JobTypeOK
<1> QED BY StepCases, <1>1, <1>2, <1>3, <1>4, <1>5, <1>6, <1>7, <1>8, <1>9,
         <1>10, <1>11, <1>12, <1>13, <1>14, <1>15, <1>16, <1>17, <1>18,
         <1>19

(* The steps of a worker change neither the background jobs nor the stage  *)
(* of the query.                                                           *)
WorkerAction(t) ==
  \/ Loop(t) \/ PickMorsel(t) \/ RunMorsel(t) \/ MarkMorselDone(t)
  \/ ReadFusedSetUp(t) \/ Arrive(t) \/ NotifyAll(t) \/ Recheck(t)
  \/ SpuriousWakeUp(t)

(* A worker of the pipeline leaves the jobs, the driver and what was set   *)
(* up as they are.                                                         *)
LEMMA WorkerFrame ==
  ASSUME NEW t \in Threads, WorkerAction(t)
  PROVE  UNCHANGED <<jobVars, mode, driver, compilerSetupStarted,
                     interpretersSetUp, toInterrupt, allowed>>
  BY DEF WorkerAction, Loop, PickMorsel, RunMorsel, MarkMorselDone, ReadFusedSetUp,
     Arrive, NotifyAll, Recheck, SpuriousWakeUp, setUpVars

(* Starting jobs that were never started disturbs nothing.                 *)
LEMMA PrepareCompiledJobInv ==
  ASSUME TypeOK, JobInv, PrepareCompiled, UNCHANGED <<mode, toInterrupt>>
  PROVE  JobInv'
<1>1. CASE UNCHANGED <<jobVars, compilerSetupStarted>>
  BY <1>1 DEF JobInv, jobVars
<1>2. CASE StartJobs(JobsOf(mode)) /\ compilerSetupStarted' = TRUE /\ ~compilerSetupStarted
  <2>1. \A j \in Jobs : jobPc'[j] \in {"none", "generateC", "create"}
    BY <1>2 DEF StartJobs, JobInv
  <2> QED BY <1>2, <2>1 DEF StartJobs, JobInv, TypeOK, JobTypeOK
<1> QED BY <1>1, <1>2 DEF PrepareCompiled

(* Every step keeps what is known of the background jobs.                  *)
LEMMA JobInvStep ==
  ASSUME TypeOK, JobInv, [Next]_vars
  PROVE  JobInv'
<1>1. CASE PrepareQuery \/ PreparePipeline
  BY <1>1, PrepareCompiledJobInv DEF PrepareQuery, PreparePipeline
<1>2. CASE AwaitCompilation \/ SetUp \/ SpawnSwimlanes
  BY <1>2 DEF AwaitCompilation, SetUp, SpawnSwimlanes, JobInv, jobVars, setUpVars
<1>3. CASE Return
  BY <1>3 DEF Return, JobInv, jobVars, setUpVars
<1>4. ASSUME NEW t \in Threads, WorkerAction(t)
      PROVE  JobInv'
  BY <1>4, WorkerFrame DEF JobInv, jobVars
<1>5. ASSUME NEW j \in Jobs, InterruptCompilation(j)
      PROVE  JobInv'
  BY <1>5 DEF InterruptCompilation, Interrupt, JobInv, TypeOK, JobTypeOK, setUpVars
<1>6. ASSUME NEW j \in Jobs, JobStep(j), PipelineUnchanged
      PROVE  JobInv'
  <2> USE <1>6 DEF JobInv, TypeOK, JobTypeOK, PipelineUnchanged, setUpVars
  <2>0. compilerSetupStarted \/ jobPc[j] = "none"
    OBVIOUS
  <2>1. CASE GenerateC(j)         BY <2>0, <2>1 DEF GenerateC
  <2>2. CASE CreateProcess(j)     BY <2>0, <2>2 DEF CreateProcess
  <2>3. CASE RegisterJob(j)       BY <2>0, <2>3 DEF RegisterJob
  <2>4. CASE AwaitChange(j)       BY <2>0, <2>4 DEF AwaitChange
  <2>5. CASE TerminateProcess(j)  BY <2>0, <2>5 DEF TerminateProcess
  <2>6. CASE JoinProcess(j)       BY <2>0, <2>6 DEF JoinProcess
  <2>7. CASE Publish(j)           BY <2>0, <2>7 DEF Publish
  <2> QED BY <2>1, <2>2, <2>3, <2>4, <2>5, <2>6, <2>7 DEF JobStep
<1>7. ASSUME NEW j \in Jobs, CompilerExits(j) \/ CompilerDies(j), PipelineUnchanged
      PROVE  JobInv'
  BY <1>7 DEF CompilerExits, CompilerDies, Running, JobInv, TypeOK, JobTypeOK,
     PipelineUnchanged, setUpVars
<1>8. CASE UNCHANGED vars
  BY <1>8 DEF vars, jobVars, setUpVars, JobInv
<1> QED BY StepCases, <1>1, <1>2, <1>3, <1>4, <1>5, <1>6, <1>7, <1>8 DEF WorkerAction

(* Arriving is the only step that changes who is before the barrier.       *)
LEMMA ArriveCounts ==
  ASSUME TypeOK, BarrierInv, NEW t \in Threads, Arrive(t)
  PROVE  /\ BeforeBarrier' = BeforeBarrier \ {t}
         /\ pending' = Cardinality(BeforeBarrier')
         /\ pending > 0
         /\ pending' = 0 => BeforeBarrier = {t}
<1>1. t \in BeforeBarrier /\ IsFiniteSet(BeforeBarrier)
  BY PipelineAssumption, FS_Subset DEF Arrive, BeforeBarrier, BarrierInv, InBarrier
<1>2. BeforeBarrier' = BeforeBarrier \ {t}
  BY DEF Arrive, Go, BeforeBarrier, InBarrier, TypeOK, WorkerPcs
<1>3. /\ pending > 0
      /\ Cardinality(BeforeBarrier \ {t}) = pending - 1
      /\ IsFiniteSet(BeforeBarrier \ {t})
  BY <1>1, FS_EmptySet, FS_CardinalityType, FS_RemoveElement DEF BarrierInv
<1>4. pending' = 0 => BeforeBarrier \ {t} = {}
  BY <1>3, FS_EmptySet DEF Arrive
<1> QED BY <1>1, <1>2, <1>3, <1>4 DEF Arrive

(* Every step keeps the count of the swimlanes that have not arrived at    *)
(* the barrier.                                                            *)
LEMMA BarrierInvStep ==
  ASSUME TypeOK, BarrierInv, StageInv, [Next]_vars
  PROVE  BarrierInv'
<1> DEFINE Local(u) ==
       /\ pastBarrier[u] \/ pc[u] = "notify" => pending = 0
       /\ pastBarrier[u] => mode = "Hybrid" /\ ~InBarrier(u)
       /\ pastBarrier[u] => pc[u] \notin {"readFlag", "arrive", "idle"}
       /\ pc[u] \in {"readFlag", "arrive"} \/ InBarrier(u) => mode = "Hybrid"
<1> SUFFICES pending' = Cardinality(BeforeBarrier') /\ \A u \in Threads : Local(u)'
  BY DEF BarrierInv
<1>0. pending = Cardinality(BeforeBarrier) /\ \A u \in Threads : Local(u)
  BY DEF BarrierInv
<1> USE <1>0 DEF InBarrier
<1>1. CASE UNCHANGED <<pc, pastBarrier, pending, mode>>
  BY <1>1 DEF BeforeBarrier
<1>2. CASE SpawnSwimlanes
  <2>1. \A u \in Threads : pc[u] = "idle" /\ ~pastBarrier[u] /\ pc'[u] = "loop"
    BY <1>2 DEF SpawnSwimlanes, StageInv
  <2>2. BeforeBarrier' = BeforeBarrier
    BY <1>2, <2>1 DEF SpawnSwimlanes, BeforeBarrier, workerVars
  <2> QED BY <1>2, <2>1, <2>2 DEF SpawnSwimlanes
<1>6. ASSUME NEW t \in Threads, Arrive(t)
      PROVE  pending' = Cardinality(BeforeBarrier') /\ \A u \in Threads : Local(u)'
  <2>1. /\ pending' = Cardinality(BeforeBarrier')
        /\ pending > 0
    BY <1>6, ArriveCounts
  <2> QED BY <1>6, <2>1 DEF Arrive, Go, TypeOK, WorkerPcs
<1> USE DEF Go, TypeOK, WorkerPcs
<1>3. ASSUME NEW t \in Threads, Loop(t) \/ RunMorsel(t)
      PROVE  pending' = Cardinality(BeforeBarrier') /\ \A u \in Threads : Local(u)'
  <2>1. BeforeBarrier' = BeforeBarrier
    BY <1>3 DEF Loop, RunMorsel, BeforeBarrier
  <2> QED BY <1>3, <2>1 DEF Loop, RunMorsel
<1>4. ASSUME NEW t \in Threads, PickMorsel(t) \/ MarkMorselDone(t)
      PROVE  pending' = Cardinality(BeforeBarrier') /\ \A u \in Threads : Local(u)'
  <2>1. BeforeBarrier' = BeforeBarrier
    BY <1>4 DEF PickMorsel, MarkMorselDone, AfterMorsel, BeforeBarrier
  <2> QED BY <1>4, <2>1 DEF PickMorsel, MarkMorselDone, AfterMorsel
<1>5. ASSUME NEW t \in Threads, ReadFusedSetUp(t)
      PROVE  pending' = Cardinality(BeforeBarrier') /\ \A u \in Threads : Local(u)'
  <2>1. BeforeBarrier' = BeforeBarrier
    BY <1>5 DEF ReadFusedSetUp, BeforeBarrier
  <2> QED BY <1>5, <2>1 DEF ReadFusedSetUp
<1>7. ASSUME NEW t \in Threads, NotifyAll(t)
      PROVE  pending' = Cardinality(BeforeBarrier') /\ \A u \in Threads : Local(u)'
  <2>1. BeforeBarrier' = BeforeBarrier
    BY <1>7 DEF NotifyAll, BeforeBarrier
  <2> QED BY <1>7, <2>1 DEF NotifyAll
<1>8. ASSUME NEW t \in Threads, Recheck(t) \/ SpuriousWakeUp(t)
      PROVE  pending' = Cardinality(BeforeBarrier') /\ \A u \in Threads : Local(u)'
  <2>1. BeforeBarrier' = BeforeBarrier
    BY <1>8 DEF Recheck, SpuriousWakeUp, BeforeBarrier
  <2> QED BY <1>8, <2>1 DEF Recheck, SpuriousWakeUp
<1>9. UNCHANGED <<pc, pastBarrier, pending, mode>>
        \/ SpawnSwimlanes \/ \E t \in Threads : WorkerAction(t)
  BY StepCases DEF PrepareQuery, PreparePipeline, AwaitCompilation, SetUp, Return,
     InterruptCompilation, PipelineUnchanged, workerVars, vars, WorkerAction
<1> QED BY <1>1, <1>2, <1>3, <1>4, <1>5, <1>6, <1>7, <1>8, <1>9 DEF WorkerAction

(* Published code stays published, and a runner that is set up stays so.   *)
LEMMA PublishedStays ==
  ASSUME TypeOK, JobInv, [Next]_vars, NEW k \in Jobs, fusedSetUp[k]
  PROVE  fusedSetUp'[k]
<1>1. ASSUME NEW j \in Jobs, JobStep(j)
      PROVE  fusedSetUp'[k]
  BY <1>1 DEF JobStep, GenerateC, CreateProcess, RegisterJob, AwaitChange,
     TerminateProcess, JoinProcess, Publish, TypeOK, JobTypeOK
<1>2. ASSUME NEW t \in Threads, WorkerAction(t)
      PROVE  fusedSetUp'[k]
  BY <1>2, WorkerFrame DEF jobVars
<1>3. CASE PrepareQuery \/ PreparePipeline
  BY <1>3 DEF PrepareQuery, PreparePipeline, PrepareCompiled, StartJobs, jobVars
<1>4. CASE AwaitCompilation \/ SetUp \/ SpawnSwimlanes \/ Return \/ UNCHANGED vars
  BY <1>4 DEF AwaitCompilation, SetUp, SpawnSwimlanes, Return, vars, jobVars
<1>5. ASSUME NEW j \in Jobs, InterruptCompilation(j) \/ CompilerExits(j) \/ CompilerDies(j)
      PROVE  fusedSetUp'[k]
  BY <1>5 DEF InterruptCompilation, Interrupt, CompilerExits, CompilerDies
<1> QED BY StepCases, <1>1, <1>2, <1>3, <1>4, <1>5 DEF WorkerAction

(* A query is executed in the mode it was started in.                      *)
LEMMA ModeStays == [Next]_vars => mode' = mode
<1> SUFFICES ASSUME [Next]_vars PROVE mode' = mode
  OBVIOUS
<1>1. ASSUME NEW t \in Threads, WorkerAction(t)
      PROVE  mode' = mode
  BY <1>1, WorkerFrame
<1> QED BY StepCases, <1>1 DEF PrepareQuery, PreparePipeline, AwaitCompilation, SetUp,
           SpawnSwimlanes, Return, InterruptCompilation, PipelineUnchanged, vars,
           WorkerAction

(* Every step keeps the order of the stages of a query.                    *)
LEMMA StageInvStep ==
  ASSUME TypeOK, JobInv, StageInv, [Next]_vars
  PROVE  StageInv'
<1> USE DEF StageInv, DriverPcs
<1>0. \A j \in Jobs : fusedSetUp[j] => fusedSetUp'[j]
  BY PublishedStays
<1>m. mode' = mode /\ JobsOf(mode) \subseteq Jobs /\ JobsOf(mode)' = JobsOf(mode)
  BY ModeStays DEF JobsOf
<1>1. CASE PrepareQuery \/ PreparePipeline
  BY <1>1 DEF PrepareQuery, PreparePipeline, workerVars
<1>2. CASE AwaitCompilation
  <2>1. \A j \in JobsOf(mode) : mode \in {"Fused", "ROF"} => fusedSetUp[j]
    BY <1>2, <1>m DEF AwaitCompilation, JobInv
  <2> QED BY <1>2, <1>0, <1>m, <2>1 DEF AwaitCompilation, workerVars
<1>3. CASE SetUp
  BY <1>3, <1>0, <1>m DEF SetUp, workerVars
<1>4. CASE SpawnSwimlanes
  BY <1>4, <1>0, <1>m DEF SpawnSwimlanes, setUpVars
<1>5. CASE Return
  BY <1>5, <1>0, <1>m DEF Return, setUpVars, workerVars
<1>6. ASSUME NEW t \in Threads, WorkerAction(t)
      PROVE  StageInv'
  <2>1. pc[t] \notin {"idle", "done"} /\ driver = "swim"
    BY <1>6 DEF WorkerAction, Loop, PickMorsel, RunMorsel, MarkMorselDone,
       ReadFusedSetUp, Arrive, NotifyAll, Recheck, SpuriousWakeUp, TypeOK
  <2>2. \A u \in Threads : pc'[u] # "idle"
    BY <1>6, <2>1, AfterMorselPcs DEF WorkerAction, Loop, PickMorsel, RunMorsel, MarkMorselDone,
       ReadFusedSetUp, Arrive, NotifyAll, Recheck, SpuriousWakeUp, TypeOK, Go
  <2>3. \A j \in Jobs : compiledSetUp[j] => compiledSetUp'[j]
    BY <1>6 DEF WorkerAction, Loop, PickMorsel, RunMorsel, MarkMorselDone,
       ReadFusedSetUp, Arrive, NotifyAll, Recheck, SpuriousWakeUp, TypeOK, setUpVars
  <2>4. UNCHANGED <<driver, interpretersSetUp>>
    BY <1>6, WorkerFrame
  <2> QED BY <2>1, <2>2, <2>3, <2>4, <1>0, <1>m
<1>7. CASE UNCHANGED <<driver, setUpVars, workerVars>>
  BY <1>7, <1>0, <1>m DEF setUpVars, workerVars
<1> QED BY StepCases, <1>1, <1>2, <1>3, <1>4, <1>5, <1>6, <1>7
        DEF WorkerAction, InterruptCompilation, PipelineUnchanged, vars

(* A worker that goes past the barrier has compiled code it can use, or is *)
(* about to stop.                                                          *)
LEMMA ReadyInvStep ==
  ASSUME TypeOK, JobInv, BarrierInv, StageInv, ReadyInv, [Next]_vars
  PROVE  ReadyInv'
<1> DEFINE Local(u) ==
       /\ InMorsel(u) => ~terminate[u]
       /\ pc[u] = "done" => terminate[u]
       /\ pc[u] = "arrive" \/ InBarrier(u) => terminate[u] \/ fusedSetUp[FusedJob]
       /\ pastBarrier[u] => terminate[u] \/ compiledSetUp[FusedJob]
       /\ pending = 0 /\ InBarrier(u) => terminate[u] \/ compiledSetUp[FusedJob]
       /\ InMorsel(u) => backend[u] \in BackendsOf(u)
<1> DEFINE Good == /\ \A u \in Threads : Local(u)
                   /\ \A j \in Jobs : compiledSetUp[j] => fusedSetUp[j]
<1> SUFFICES Good'
  BY DEF ReadyInv
<1>0. Good
  BY DEF ReadyInv
<1>f. FusedJob \in Jobs /\ \A j \in Jobs : fusedSetUp[j] => fusedSetUp'[j]
  BY FusedJobIsJob, PublishedStays
<1>j. FusedJob' = FusedJob
  OBVIOUS
<1>m. mode' = mode
  BY ModeStays
<1>1. CASE UNCHANGED <<workerVars, pending, compiledSetUp>>
  <2>1. \A u \in Threads : Local(u)'
    BY <1>0, <1>1, <1>f, <1>j, <1>m DEF workerVars, InMorsel, InBarrier, BackendsOf
  <2> QED BY <1>0, <1>1, <1>f, <2>1
<1>2. CASE SetUp
  <2>1. \A u \in Threads : pc'[u] = "idle" /\ ~pastBarrier'[u]
    BY <1>2 DEF SetUp, StageInv, BarrierInv, workerVars
  <2>2. \A j \in Jobs : compiledSetUp'[j] => fusedSetUp'[j]
    BY <1>2, <1>f DEF SetUp, StageInv
  <2> QED BY <2>1, <2>2 DEF InMorsel, InBarrier
<1>3. CASE SpawnSwimlanes
  <2>1. \A u \in Threads : pc'[u] = "loop"
    BY <1>3 DEF SpawnSwimlanes
  <2> QED BY <1>0, <1>3, <1>f, <1>j, <2>1 DEF SpawnSwimlanes, InMorsel, InBarrier, setUpVars
<1>4. ASSUME NEW t \in Threads, Arrive(t)
      PROVE  Good'
  <2>1. /\ pending > 0
        /\ pending' = 0 => BeforeBarrier = {t}
    BY <1>4, ArriveCounts
  <2>2. \A u \in Threads : ~pastBarrier[u]
    BY <2>1 DEF BarrierInv
  <2>3. ASSUME pending' = 0, NEW u \in Threads
        PROVE  terminate[u] \/ fusedSetUp[FusedJob]
    <3>1. u = t \/ InBarrier(u)
      BY <2>1, <2>2, <2>3 DEF BeforeBarrier
    <3> QED BY <3>1, <1>0, <1>4 DEF Arrive
  <2>4. /\ \A u \in Threads : pending' = 0 => terminate'[u] \/ compiledSetUp'[FusedJob]
        /\ \A j \in Jobs : compiledSetUp'[j] => fusedSetUp'[j]
    BY <1>0, <1>4, <1>f, <2>3 DEF Arrive, TypeOK, JobTypeOK, jobVars
  <2>5. \A u \in Threads : pc'[u] = IF u = t THEN pc'[t] ELSE pc[u]
    BY <1>4 DEF Arrive, Go, TypeOK
  <2>6. pc'[t] \in {"notify", "asleep"}
    BY <1>4 DEF Arrive, Go, TypeOK
  <2>7. ASSUME NEW u \in Threads
        PROVE  Local(u)'
    BY <1>0, <1>4, <1>f, <1>j, <2>2, <2>4, <2>5, <2>6
       DEF Arrive, InMorsel, InBarrier, BackendsOf, jobVars
  <2> QED BY <2>4, <2>7
<1> USE DEF InMorsel, InBarrier, Go, TypeOK
<1>5. ASSUME NEW t \in Threads, Loop(t)
      PROVE  Good'
  BY <1>0, <1>5, <1>f, <1>j DEF Loop, BackendsOf, jobVars, setUpVars
<1>6. ASSUME NEW t \in Threads, PickMorsel(t)
      PROVE  Good'
  <2>1. AfterMorsel(t) \in {"readFlag", "loop"}
    BY AfterMorselPcs
  <2> QED BY <1>0, <1>6, <1>f, <1>j, <2>1 DEF PickMorsel, BackendsOf, jobVars, setUpVars
<1>7. ASSUME NEW t \in Threads, RunMorsel(t)
      PROVE  Good'
  BY <1>0, <1>7, <1>f, <1>j DEF RunMorsel, BackendsOf, jobVars, setUpVars
<1>8. ASSUME NEW t \in Threads, MarkMorselDone(t)
      PROVE  Good'
  <2>1. AfterMorsel(t) \in {"readFlag", "loop"} /\ ~terminate[t]
    BY AfterMorselPcs, <1>0, <1>8 DEF MarkMorselDone
  <2> QED BY <1>0, <1>8, <1>f, <1>j, <2>1 DEF MarkMorselDone, BackendsOf, jobVars, setUpVars
<1>9. ASSUME NEW t \in Threads, ReadFusedSetUp(t)
      PROVE  Good'
  BY <1>0, <1>9, <1>f, <1>j DEF ReadFusedSetUp, BackendsOf, BarrierInv, jobVars, setUpVars
<1>10. ASSUME NEW t \in Threads, NotifyAll(t)
      PROVE  Good'
  BY <1>0, <1>10, <1>f, <1>j DEF NotifyAll, BackendsOf, BarrierInv, jobVars, setUpVars
<1>11. ASSUME NEW t \in Threads, Recheck(t) \/ SpuriousWakeUp(t)
      PROVE  Good'
  BY <1>0, <1>11, <1>f, <1>j DEF Recheck, SpuriousWakeUp, BackendsOf, BarrierInv, jobVars, setUpVars
<1> QED BY StepCases, <1>1, <1>2, <1>3, <1>4, <1>5, <1>6, <1>7, <1>8, <1>9, <1>10, <1>11
        DEF PrepareQuery, PreparePipeline, AwaitCompilation, Return, InterruptCompilation,
            PipelineUnchanged, vars, setUpVars

(* Every row is picked by one worker and executed by it once.              *)
LEMMA RowInvStep ==
  ASSUME TypeOK, StageInv, RowInv, [Next]_vars
  PROVE  RowInv'
<1>t. /\ startIdx \in Nat /\ RelSize \in Nat /\ ChunkSize \in Nat \ {0}
      /\ Rows \subseteq Nat /\ \A r \in Rows : r < RelSize
      /\ times \in [Rows -> Nat]
      /\ pc \in [Threads -> WorkerPcs] /\ terminate \in [Threads -> BOOLEAN]
      /\ morsel \in [Threads -> [start : Nat, end : Nat]]
      /\ chunk \in [Threads -> Nat]
      /\ limit \in Nat \cup {NoLimit} /\ NoLimit \notin Nat
  BY PipelineAssumption DEF TypeOK, Rows
<1>r. \A m : MorselRows(m) \subseteq Rows
  BY DEF MorselRows
<1>a. \A r \in Rows : times[r] \in {0, 1}
  BY <1>t DEF RowInv, RowsPickedOnce
<1>b. \A r \in Rows : r >= startIdx => times[r] = 0
  BY DEF RowInv
<1>c. \A r \in Rows : r < startIdx =>
        \/ times[r] = 1
        \/ \E u \in Threads : pc[u] = "run" /\ r \in MorselRows(morsel[u])
  BY DEF RowInv
<1>d. \A u \in Threads : pc[u] = "run" =>
        \A r \in MorselRows(morsel[u]) : r \in Rows /\ r < startIdx
  BY <1>t DEF RowInv, MorselRows
<1> USE <1>t, <1>r DEF Go
<1>1. CASE UNCHANGED <<startIdx, pc, morsel, times, terminate, limit>>
  BY <1>1 DEF RowInv, RowsPickedOnce
<1>2. CASE SpawnSwimlanes
  <2>1. \A u \in Threads : pc[u] = "idle" /\ pc'[u] = "loop"
    BY <1>2 DEF SpawnSwimlanes, StageInv
  <2> QED BY <1>2, <2>1 DEF SpawnSwimlanes, RowInv, RowsPickedOnce, printerVars
<1>3. ASSUME NEW t \in Threads,
             Loop(t) \/ ReadFusedSetUp(t) \/ Arrive(t) \/ NotifyAll(t) \/ Recheck(t)
               \/ SpuriousWakeUp(t)
      PROVE  RowInv'
  <2>1. \A u \in Threads : pc[u] = "run" <=> pc'[u] = "run"
    BY <1>3 DEF Loop, ReadFusedSetUp, Arrive, NotifyAll, Recheck, SpuriousWakeUp
  <2>2. UNCHANGED <<startIdx, morsel, times, terminate, limit>>
    BY <1>3 DEF Loop, ReadFusedSetUp, Arrive, NotifyAll, Recheck, SpuriousWakeUp, printerVars
  <2> QED BY <2>1, <2>2 DEF RowInv, RowsPickedOnce
<1>4. ASSUME NEW t \in Threads, PickMorsel(t)
      PROVE  RowInv'
  <2>1. AfterMorsel(t) \in {"readFlag", "loop"}
    BY AfterMorselPcs
  <2>2. startIdx' = startIdx + ChunkSize /\ startIdx' > startIdx /\ startIdx' \in Nat
    BY <1>4 DEF PickMorsel
  <2>3. CASE startIdx >= RelSize
    <3>1. \A u \in Threads : pc[u] = "run" <=> pc'[u] = "run"
      BY <1>4, <2>1, <2>3 DEF PickMorsel
    <3>2. UNCHANGED <<morsel, times, limit>> /\ startIdx' >= RelSize
      BY <1>4, <2>2, <2>3 DEF PickMorsel, printerVars
    <3>3. \A u \in Threads : terminate'[u] => startIdx' >= RelSize \/ limit' = 0
      BY <3>2
    <3>4. RowsPickedOnce'
      BY <3>1, <3>2 DEF RowInv, RowsPickedOnce
    <3>5. \A r \in Rows : r < startIdx
      BY <2>3
    <3>6. \A r \in Rows : r < startIdx'
      BY <2>2, <2>3
    <3>7. \A u \in Threads : pc'[u] = "run" =>
            /\ morsel'[u].start < morsel'[u].end
            /\ morsel'[u].end <= startIdx'
            /\ morsel'[u].end <= RelSize
      BY <2>2, <3>1, <3>2 DEF RowInv
    <3>8. \A r \in Rows :
            \/ times'[r] = 1
            \/ \E u \in Threads : pc'[u] = "run" /\ r \in MorselRows(morsel'[u])
      BY <3>1, <3>2, <3>5 DEF RowInv
    <3>9. \A r \in Rows : r >= startIdx' => times'[r] = 0
      <4> TAKE r \in Rows
      <4>1. r \in Nat /\ startIdx' \in Nat /\ r < startIdx'
        BY <2>2, <3>6
      <4> QED BY ONLY <4>1
    <3> QED BY <3>3, <3>4, <3>7, <3>8, <3>9 DEF RowInv
  <2>4. CASE startIdx < RelSize
    <3>1. /\ pc[t] = "pick" /\ pc'[t] = "run"
          /\ \A u \in Threads : u # t => pc'[u] = pc[u] /\ morsel'[u] = morsel[u]
          /\ UNCHANGED <<times, limit, terminate>>
      BY <1>4, <2>4 DEF PickMorsel, printerVars
    <3>2. /\ morsel'[t].start = startIdx
          /\ morsel'[t].end = Smaller(startIdx + ChunkSize, RelSize)
      BY <1>4, <2>4 DEF PickMorsel
    <3>3. /\ morsel'[t].end <= startIdx' /\ morsel'[t].end <= RelSize
          /\ morsel'[t].start < morsel'[t].end
          /\ \A r \in Rows : r < startIdx' <=> r < startIdx \/ r \in MorselRows(morsel'[t])
      BY <2>2, <2>4, <3>2 DEF Smaller, MorselRows
    <3>4. \A r \in Rows : r \in MorselRows(morsel'[t]) =>
            /\ times[r] = 0
            /\ \A u \in Threads : pc[u] = "run" => r \notin MorselRows(morsel[u])
      <4> SUFFICES ASSUME NEW r \in Rows, r \in MorselRows(morsel'[t])
                   PROVE  /\ times[r] = 0
                          /\ \A u \in Threads : pc[u] = "run" => r \notin MorselRows(morsel[u])
        OBVIOUS
      <4>1. r >= startIdx /\ r \in Nat
        BY <3>2 DEF MorselRows
      <4>2. \A u \in Threads : pc[u] = "run" => r \notin MorselRows(morsel[u])
        BY <4>1, <1>d
      <4> QED BY <4>1, <4>2, <1>b
    <3>5. RowsPickedOnce'
      <4>1. \A u \in Threads : pc'[u] = "run" /\ u # t => pc[u] = "run" /\ morsel'[u] = morsel[u]
        BY <3>1
      <4>2. \A u \in Threads : pc'[u] = "run" =>
              \A r \in MorselRows(morsel'[u]) :
                 /\ times'[r] = 0
                 /\ \A w \in Threads \ {u} : pc'[w] = "run" => r \notin MorselRows(morsel'[w])
        BY <3>1, <3>4, <4>1 DEF RowInv, RowsPickedOnce
      <4> QED BY <3>1, <4>2 DEF RowInv, RowsPickedOnce
    <3>6. \A r \in Rows : r >= startIdx' => times'[r] = 0
      BY <2>2, <3>1, <1>b
    <3>7. \A u \in Threads : pc'[u] = "run" =>
            /\ morsel'[u].start < morsel'[u].end
            /\ morsel'[u].end <= startIdx'
            /\ morsel'[u].end <= RelSize
      <4> TAKE u \in Threads
      <4>1. CASE u = t
        BY <4>1, <3>3
      <4>2. CASE u # t
        BY <4>2, <2>2, <3>1 DEF RowInv
      <4> QED BY <4>1, <4>2
    <3>8. \A r \in Rows : r < startIdx' =>
            \/ times'[r] = 1
            \/ \E u \in Threads : pc'[u] = "run" /\ r \in MorselRows(morsel'[u])
      BY <3>1, <3>3, <1>c
    <3>9. \A u \in Threads : terminate'[u] => startIdx' >= RelSize \/ limit' = 0
      BY <2>2, <3>1 DEF RowInv
    <3> QED BY <3>5, <3>6, <3>7, <3>8, <3>9 DEF RowInv
  <2> QED BY <2>3, <2>4
<1>5. ASSUME NEW t \in Threads, RunMorsel(t)
      PROVE  RowInv'
  <2>1. /\ pc[t] = "run" /\ pc'[t] = "mark"
        /\ \A u \in Threads : u # t => pc'[u] = pc[u]
        /\ UNCHANGED <<startIdx, morsel, limit, terminate>>
    BY <1>5 DEF RunMorsel, printerVars
  <2>2. \A r \in Rows : /\ r \in MorselRows(morsel[t]) => times'[r] = 1
                        /\ r \notin MorselRows(morsel[t]) => times'[r] = times[r]
    BY <1>5, <2>1 DEF RunMorsel, RowInv, RowsPickedOnce, MorselRows
  <2>3. \A r \in MorselRows(morsel[t]) :
          /\ r < startIdx
          /\ \A u \in Threads : u # t /\ pc[u] = "run" => r \notin MorselRows(morsel[u])
    BY <2>1, <1>d DEF RowInv, RowsPickedOnce
  <2>4. RowsPickedOnce'
    <3>1. \A r \in Rows : times'[r] <= 1
      <4>1. \A r \in Rows : times'[r] \in {0, 1}
        BY <2>2, <1>a
      <4> QED BY <4>1
    <3>2. \A u \in Threads : pc'[u] = "run" => u # t /\ pc[u] = "run"
      BY <2>1
    <3>3. ASSUME NEW u \in Threads, pc'[u] = "run", NEW r \in MorselRows(morsel[u])
          PROVE  r \notin MorselRows(morsel[t]) /\ times[r] = 0 /\ r \in Rows
      BY <1>d, <2>3, <3>2, <3>3 DEF RowInv, RowsPickedOnce
    <3>4. ASSUME NEW u \in Threads, pc'[u] = "run", NEW r \in MorselRows(morsel'[u])
          PROVE  times'[r] = 0
      BY <2>1, <2>2, <3>3, <3>4
    <3>5. ASSUME NEW u \in Threads, pc'[u] = "run", NEW r \in MorselRows(morsel'[u]),
                 NEW w \in Threads \ {u}, pc'[w] = "run"
          PROVE  r \notin MorselRows(morsel'[w])
      BY <2>1, <3>2, <3>5 DEF RowInv, RowsPickedOnce
    <3> QED BY <3>1, <3>4, <3>5 DEF RowsPickedOnce
  <2>5. \A r \in Rows : r >= startIdx' => times'[r] = 0
    BY <2>1, <2>2, <2>3, <1>b
  <2>6. \A u \in Threads : pc'[u] = "run" =>
          /\ morsel'[u].start < morsel'[u].end
          /\ morsel'[u].end <= startIdx'
          /\ morsel'[u].end <= RelSize
    BY <2>1 DEF RowInv
  <2>7. \A r \in Rows : r < startIdx' =>
          \/ times'[r] = 1
          \/ \E u \in Threads : pc'[u] = "run" /\ r \in MorselRows(morsel'[u])
    BY <2>1, <2>2, <1>c
  <2>8. \A u \in Threads : terminate'[u] => startIdx' >= RelSize \/ limit' = 0
    BY <2>1 DEF RowInv
  <2> QED BY <2>4, <2>5, <2>6, <2>7, <2>8 DEF RowInv
<1>6. ASSUME NEW t \in Threads, MarkMorselDone(t)
      PROVE  RowInv'
  <2>1. AfterMorsel(t) \in {"readFlag", "loop"}
    BY AfterMorselPcs
  <2>2. \A u \in Threads : pc[u] = "run" <=> pc'[u] = "run"
    BY <1>6, <2>1 DEF MarkMorselDone
  <2>3. UNCHANGED <<startIdx, morsel, times>>
    BY <1>6 DEF MarkMorselDone
  <2>4. limit = 0 => limit' = 0
    BY <1>6 DEF MarkMorselDone, Smaller
  <2>5. \A u \in Threads : terminate'[u] => terminate[u] \/ limit' = 0
    BY <1>6 DEF MarkMorselDone
  <2> QED BY <2>2, <2>3, <2>4, <2>5 DEF RowInv, RowsPickedOnce
<1> QED BY StepCases, <1>1, <1>2, <1>3, <1>4, <1>5, <1>6
        DEF PrepareQuery, PreparePipeline, AwaitCompilation, SetUp, Return,
            InterruptCompilation, PipelineUnchanged, vars, workerVars, printerVars

(* The printer's account and the chunks of the workers.                    *)
LEMMA OutputInvStep ==
  ASSUME TypeOK, StageInv, ReadyInv, OutputInv, [Next]_vars
  PROVE  OutputInv'
<1>t. /\ pc \in [Threads -> WorkerPcs] /\ terminate \in [Threads -> BOOLEAN]
      /\ chunk \in [Threads -> Nat] /\ numRows \in Nat
      /\ limit \in Nat \cup {NoLimit} /\ allowed \in Nat \cup {NoLimit}
      /\ NoLimit \notin Nat
  BY PipelineAssumption DEF TypeOK
<1> USE <1>t DEF Go
<1>1. CASE UNCHANGED <<pc, chunk, terminate, printerVars, allowed>>
  BY <1>1 DEF OutputInv, printerVars
<1>2. CASE SpawnSwimlanes
  <2>1. \A u \in Threads : pc[u] = "idle"
    BY <1>2 DEF SpawnSwimlanes, StageInv
  <2> QED BY <1>2, <2>1 DEF SpawnSwimlanes, OutputInv, printerVars
<1>3. ASSUME NEW t \in Threads,
             Loop(t) \/ ReadFusedSetUp(t) \/ Arrive(t) \/ NotifyAll(t) \/ Recheck(t)
               \/ SpuriousWakeUp(t)
      PROVE  OutputInv'
  <2>1. \A u \in Threads : pc[u] = "mark" => pc'[u] = "mark"
    BY <1>3 DEF Loop, ReadFusedSetUp, Arrive, NotifyAll, Recheck, SpuriousWakeUp
  <2>2. UNCHANGED <<chunk, terminate, limit, numRows, allowed>>
    BY <1>3 DEF Loop, ReadFusedSetUp, Arrive, NotifyAll, Recheck, SpuriousWakeUp, printerVars
  <2> QED BY <2>1, <2>2 DEF OutputInv
<1>4. ASSUME NEW t \in Threads, PickMorsel(t)
      PROVE  OutputInv'
  BY <1>4 DEF PickMorsel, AfterMorsel, OutputInv, printerVars
<1>5. ASSUME NEW t \in Threads, RunMorsel(t)
      PROVE  OutputInv'
  BY <1>5 DEF RunMorsel, OutputInv, printerVars
<1>6. ASSUME NEW t \in Threads, MarkMorselDone(t)
      PROVE  OutputInv'
  <2> DEFINE write == IF limit = NoLimit THEN chunk[t] ELSE Smaller(chunk[t], limit)
  <2>1. write \in Nat /\ (limit # NoLimit => limit - write \in Nat)
    BY DEF Smaller
  <2> HIDE DEF write
  <2>2. /\ limit' = IF limit = NoLimit THEN NoLimit ELSE limit - write
        /\ numRows' = numRows + write
        /\ allowed' = allowed
    BY <1>6 DEF MarkMorselDone, write
  <2>3. limit # NoLimit => limit' # NoLimit /\ numRows' + limit' = numRows + limit
    BY <2>1, <2>2
  <2>4. \A u \in Threads : pc'[u] # "mark" => chunk'[u] = 0 \/ terminate'[u]
    BY <1>6 DEF MarkMorselDone, OutputInv
  <2> QED BY <2>2, <2>3, <2>4 DEF OutputInv
<1> QED BY StepCases, <1>1, <1>2, <1>3, <1>4, <1>5, <1>6
        DEF PrepareQuery, PreparePipeline, AwaitCompilation, SetUp, Return,
            InterruptCompilation, PipelineUnchanged, vars, workerVars

-----------------------------------------------------------------------------
(* The invariant of the executor.                                          *)

(* The invariant holds before the query starts.                            *)
LEMMA InitIInv ==
  ASSUME Init
  PROVE  IInv
<1>1. BeforeBarrier = Threads
  BY DEF Init, BeforeBarrier, InBarrier
<1>2. Cardinality(Threads) \in Nat
  BY PipelineAssumption, FS_CardinalityType
<1>3. TypeOK
  <2>1. JobTypeOK
    BY DEF Init, JobInit, JobTypeOK, JobPcs, ProcessStates
  <2>2. /\ mode \in Modes /\ driver \in DriverPcs /\ startIdx \in Nat
        /\ compiledSetUp \in [Jobs -> BOOLEAN] /\ toInterrupt \subseteq Jobs
        /\ limit \in Nat \cup {NoLimit} /\ allowed \in Nat \cup {NoLimit}
        /\ numRows \in Nat /\ compilerSetupStarted \in BOOLEAN
        /\ interpretersSetUp \in BOOLEAN
    BY PipelineAssumption DEF Init, DriverPcs
  <2>3. /\ pc \in [Threads -> WorkerPcs] /\ backend \in [Threads -> Backends]
        /\ terminate \in [Threads -> BOOLEAN] /\ pastBarrier \in [Threads -> BOOLEAN]
        /\ morsel \in [Threads -> [start : Nat, end : Nat]] /\ chunk \in [Threads -> Nat]
    BY DEF Init, WorkerPcs, Backends, NoMorsel
  <2>4. pending \in 0 .. Cardinality(Threads) /\ times \in [Rows -> Nat]
    BY <1>2 DEF Init
  <2> QED BY <2>1, <2>2, <2>3, <2>4 DEF TypeOK
<1>4. JobInv
  BY DEF Init, JobInit, JobInv
<1>5. BarrierInv
  BY <1>1 DEF Init, BarrierInv, InBarrier
<1>6. StageInv /\ ReadyInv
  BY <1>1 DEF Init, StageInv, ReadyInv, InBarrier, InMorsel
<1>7. RowInv
  BY PipelineAssumption DEF Init, RowInv, RowsPickedOnce, Rows
<1>8. OutputInv
  BY PipelineAssumption DEF Init, OutputInv
<1> QED BY <1>3, <1>4, <1>5, <1>6, <1>7, <1>8 DEF IInv

(* Every reachable state of the executor satisfies the invariant: what a   *)
(* worker may do follows from the barrier, the stage of the query and the  *)
(* progress of the compile jobs together, and from none of them alone.     *)
THEOREM InvariantCorrect == Spec => []IInv
<1>1. Init => IInv
  BY InitIInv
<1>2. IInv /\ [Next]_vars => IInv'
  BY TypeStep, JobInvStep, BarrierInvStep, StageInvStep, ReadyInvStep, RowInvStep,
     OutputInvStep DEF IInv
<1> QED BY <1>1, <1>2, PTL DEF Spec

(* The types of all variables, of which one is the barrier's counter: the  *)
(* OnceBarrier of PipelineExecutor is never arrived at more often than the *)
(* pipeline has workers.                                                   *)
THEOREM TypeCorrect == Spec => []TypeOK
<1>1. IInv => TypeOK
  BY DEF IInv
<1> QED BY <1>1, InvariantCorrect, PTL

(* A worker that runs a morsel (runFusedMorsel, runInterpretedMorsel,      *)
(* runROFMorsel) finds the code it runs compiled and set up.               *)
THEOREM RunnersReadyCorrect == Spec => []RunnersReady
<1>1. IInv => RunnersReady
  <2> SUFFICES ASSUME IInv, NEW t \in Threads, InMorsel(t)
               PROVE  RunnerReady(t)
    BY DEF RunnersReady, InMorsel
  <2>1. /\ backend[t] \in BackendsOf(t) /\ ~terminate[t]
        /\ driver = "swim" /\ mode \in {"Fused", "Interpreted", "ROF", "Hybrid"}
    BY PipelineAssumption DEF IInv, ReadyInv, StageInv, InMorsel, TypeOK, DriverPcs
  <2>2. backend[t] \in {"interpreted", "rof"} => interpretersSetUp
    BY <2>1 DEF IInv, StageInv, BackendsOf
  <2>3. CASE mode \in {"Fused", "ROF"}
    BY <2>1, <2>2, <2>3 DEF IInv, StageInv, RunnerReady
  <2>4. CASE mode = "Hybrid"
    <3>1. backend[t] \in {"fused", "rof"} => pastBarrier[t]
      BY <2>1, <2>4 DEF BackendsOf
    <3>2. pastBarrier[t] => compiledSetUp[FusedJob] /\ fusedSetUp[FusedJob]
      BY <2>1, FusedJobIsJob DEF IInv, ReadyInv
    <3> QED BY <2>2, <2>4, <3>1, <3>2 DEF RunnerReady, JobsOf
  <2>5. CASE mode = "Interpreted"
    BY <2>1, <2>2, <2>5 DEF BackendsOf, RunnerReady
  <2> QED BY <2>1, <2>3, <2>4, <2>5
<1> QED BY <1>1, InvariantCorrect, PTL

(* The workers share one start_idx in all backends and never execute a row *)
(* twice, nor do two of them hold the same row.                            *)
THEOREM RowsPickedOnceCorrect == Spec => []RowsPickedOnce
<1>1. IInv => RowsPickedOnce
  BY DEF IInv, RowInv
<1> QED BY <1>1, InvariantCorrect, PTL

(* A pipeline that has returned executed every row of its source, or its   *)
(* printer had written all the rows the limit allows.                      *)
THEOREM ResultCompleteCorrect == Spec => []ResultComplete
<1>1. IInv => ResultComplete
  <2> SUFFICES ASSUME IInv, driver = "returned"
               PROVE  /\ \A t \in Threads : pc[t] = "done"
                      /\ limit = 0 \/ \A r \in Rows : times[r] = 1
    BY DEF ResultComplete
  <2>1. \A t \in Threads : pc[t] = "done"
    BY DEF IInv, StageInv
  <2>2. terminate[MainThread] /\ MainThread \in Threads
    BY <2>1, PipelineAssumption DEF IInv, ReadyInv
  <2>3. startIdx >= RelSize \/ limit = 0
    BY <2>2 DEF IInv, RowInv
  <2>4. ASSUME startIdx >= RelSize, NEW r \in Rows
        PROVE  times[r] = 1
    <3>1. r < startIdx
      BY <2>4, PipelineAssumption DEF Rows, IInv, TypeOK
    <3> QED BY <3>1, <2>1 DEF IInv, RowInv
  <2> QED BY <2>1, <2>3, <2>4
<1> QED BY <1>1, InvariantCorrect, PTL

(* markMorselDone writes exactly the rows the limit leaves, and cleanUp    *)
(* has emptied a worker's chunk before the worker picks again.             *)
THEOREM PrinterExactCorrect == Spec => []PrinterExact
<1>1. IInv => PrinterExact
  BY DEF IInv, PrinterExact, OutputInv, ReadyInv, InMorsel
<1> QED BY <1>1, InvariantCorrect, PTL

(* The compile jobs publish what their compiler finished and reap their    *)
(* child process whatever the interrupt raced with.                        *)
THEOREM OnlyFinishedCodePublishedCorrect == Spec => []OnlyFinishedCodePublished
<1>1. IInv => OnlyFinishedCodePublished
  BY DEF IInv, JobInv, OnlyFinishedCodePublished
<1> QED BY <1>1, InvariantCorrect, PTL

(* Runners are set up before the workers are spawned, or by the last       *)
(* worker to arrive at the barrier while all others wait in it: never      *)
(* while a morsel is running.                                              *)
THEOREM SetUpIsQuiescentCorrect == Spec => SetUpIsQuiescent
<1> DEFINE Quiet == compiledSetUp' # compiledSetUp
              => \A t \in Threads : pc[t] \notin {"pick", "run", "mark"}
<1>1. IInv /\ [Next]_vars => [Quiet]_vars
  <2> SUFFICES ASSUME IInv, [Next]_vars, compiledSetUp' # compiledSetUp
               PROVE  \A t \in Threads : pc[t] \notin {"pick", "run", "mark"}
    OBVIOUS
  <2>1. CASE SetUp
    BY <2>1 DEF SetUp, IInv, StageInv
  <2>2. ASSUME NEW t \in Threads, Arrive(t)
        PROVE  \A u \in Threads : pc[u] \notin {"pick", "run", "mark"}
    <3>1. pending > 0 /\ (pending' = 0 => BeforeBarrier = {t})
      BY <2>2, ArriveCounts DEF IInv
    <3>2. pending' = 0
      BY <2>2, FusedJobIsJob DEF Arrive, IInv, TypeOK
    <3>3. \A u \in Threads : u = t \/ InBarrier(u)
      BY <3>1, <3>2 DEF BeforeBarrier, IInv, BarrierInv
    <3> QED BY <2>2, <3>3 DEF Arrive, InBarrier
  <2>3. SetUp \/ \E t \in Threads : Arrive(t)
    BY StepCases DEF PrepareQuery, PreparePipeline, AwaitCompilation, SpawnSwimlanes, Return,
       Loop, PickMorsel, RunMorsel, MarkMorselDone, ReadFusedSetUp, NotifyAll, Recheck,
       SpuriousWakeUp, InterruptCompilation, PipelineUnchanged, vars, setUpVars
  <2> QED BY <2>1, <2>2, <2>3
<1> QED BY <1>1, InvariantCorrect, PTL DEF Spec, SetUpIsQuiescent

-----------------------------------------------------------------------------
(* The executor implements the promise of MorselScan.                      *)

(* Running a morsel is one batch of the promise.                           *)
LEMMA RunMorselExecutes ==
  ASSUME IInv, NEW t \in Threads, RunMorsel(t)
  PROVE  Scan!Next
<1> DEFINE first == morsel[t].start
           next  == morsel[t].end
<1>1. /\ pc \in [Threads -> WorkerPcs] /\ chunk \in [Threads -> Nat]
      /\ pc[t] = "run" /\ pc' = [pc EXCEPT ![t] = "mark"]
  BY DEF IInv, TypeOK, RunMorsel, Go
<1>2. /\ first \in Rows /\ next \in 1 .. RelSize
      /\ first \in Nat /\ next \in Nat
      /\ MorselRows(morsel[t]) = first .. next - 1
  BY <1>1, PipelineAssumption DEF IInv, TypeOK, RowInv, MorselRows, Rows
<1>3. chunk[t] = 0
  BY <1>1 DEF IInv, OutputInv, ReadyInv, InMorsel
<1>4. PICK n \in 0 .. (next - first) : chunk' = [chunk EXCEPT ![t] = @ + n]
  BY DEF RunMorsel
<1>5. Sink[t] = 0 /\ Sink'[t] \in 0 .. (next - first) /\ Sink' = [Sink EXCEPT ![t] = Sink'[t]]
  <2>1. chunk'[t] = n /\ pc'[t] = "mark" /\ n \in 0 .. (next - first)
    BY <1>1, <1>2, <1>3, <1>4
  <2>2. Sink[t] = 0 /\ Sink'[t] = n
    BY <1>1, <2>1 DEF Sink
  <2>3. Sink' = [Sink EXCEPT ![t] = Sink'[t]]
    BY <1>1, <1>4 DEF Sink
  <2> QED BY <2>1, <2>2, <2>3
<1>6. driver # "returned" /\ UNCHANGED <<numRows, allowed, driver>>
  BY <1>1 DEF IInv, StageInv, RunMorsel, printerVars
<1>7. \A r \in first .. next - 1 : times[r] = 0
  BY <1>1, <1>2 DEF IInv, RowInv, RowsPickedOnce
<1>8. times' = [r \in Rows |-> IF first <= r /\ r < next THEN 1 ELSE times[r]]
  BY <1>2, <1>7 DEF RunMorsel, MorselRows
<1> HIDE DEF first, next
<1>9. Scan!Execute(t, first, next)
  BY <1>5, <1>6, <1>7, <1>8 DEF Scan!Execute, Scan!Rows, Rows
<1> QED BY <1>2, <1>9 DEF Scan!Next, Scan!Rows, Rows

(* Marking a morsel done emits the worker's sink, cut off at the limit.    *)
LEMMA MarkMorselDoneEmits ==
  ASSUME IInv, NEW t \in Threads, MarkMorselDone(t)
  PROVE  Scan!Emit(t)
<1>1. /\ pc \in [Threads -> WorkerPcs] /\ chunk \in [Threads -> Nat] /\ numRows \in Nat
      /\ limit \in Nat \cup {NoLimit} /\ NoLimit \notin Nat
      /\ allowed \in Nat \cup {NoLimit}
      /\ pc[t] = "mark" /\ pc' = [pc EXCEPT ![t] = AfterMorsel(t)]
      /\ AfterMorsel(t) \in {"readFlag", "loop"}
  BY AfterMorselPcs, PipelineAssumption DEF IInv, TypeOK, MarkMorselDone, Go
<1>2. Sink[t] = chunk[t] /\ Sink' = [Sink EXCEPT ![t] = 0]
  BY <1>1 DEF Sink, MarkMorselDone
<1>3. driver # "returned" /\ UNCHANGED <<times, allowed, driver>>
  BY <1>1 DEF IInv, StageInv, MarkMorselDone
<1>4. /\ allowed = NoLimit => limit = NoLimit
      /\ allowed # NoLimit => limit # NoLimit /\ numRows + limit = allowed
  BY DEF IInv, OutputInv
<1>5. numRows' = numRows + (IF limit = NoLimit THEN chunk[t] ELSE Smaller(chunk[t], limit))
  BY DEF MarkMorselDone
<1>6. numRows' = IF allowed = NoLimit \/ numRows + chunk[t] <= allowed
                   THEN numRows + chunk[t]
                   ELSE allowed
  BY <1>1, <1>4, <1>5 DEF Smaller
<1> QED BY <1>2, <1>3, <1>6 DEF Scan!Emit

(* The pipeline returns when the promise lets it.                          *)
LEMMA ReturnReturns ==
  ASSUME IInv, IInv', Return
  PROVE  Scan!Return
<1>1. /\ \A t \in Threads : pc[t] = "done" /\ terminate[t]
      /\ driver' = "returned"
      /\ UNCHANGED <<pc, chunk, times, numRows, allowed, startIdx>>
  BY DEF Return, IInv, ReadyInv, workerVars, printerVars
<1>2. startIdx >= RelSize \/ limit = 0
  BY <1>1, PipelineAssumption DEF IInv, RowInv
<1>3. startIdx >= RelSize => \A r \in Rows : times[r] = 1
  <2> SUFFICES ASSUME startIdx >= RelSize, NEW r \in Rows PROVE times[r] = 1
    OBVIOUS
  <2>1. r < startIdx
    BY PipelineAssumption DEF Rows, IInv, TypeOK
  <2> QED BY <2>1, <1>1 DEF IInv, RowInv
<1>4. limit = 0 => Scan!Exhausted
  BY PipelineAssumption DEF IInv, OutputInv, TypeOK, Scan!Exhausted
<1>5. Sink' = Sink /\ \A t \in Threads : Sink[t] = 0
  BY <1>1 DEF Sink
<1> QED BY <1>1, <1>2, <1>3, <1>4, <1>5 DEF Scan!Return, Scan!Rows, Rows

(* Every step of the pipeline is a step its promise allows: whichever      *)
(* backends the workers choose and however they interleave, rows are       *)
(* executed once, in batches of one worker, and what they leave is emitted *)
(* once up to the limit.                                                   *)
THEOREM ImplementsScanCorrect == Spec => ImplementsScan
<1>1. Init => Scan!Init
  BY PipelineAssumption DEF Init, Scan!Init, Scan!Rows, Rows, Sink
<1>2. ASSUME IInv, IInv', [Next]_vars
      PROVE  [Scan!Next]_Scan!vars
  <2> DEFINE Still == UNCHANGED <<times, Sink, numRows, allowed, driver = "returned">>
  <2>1. Still => UNCHANGED Scan!vars
    BY DEF Scan!vars
  <2>2. CASE UNCHANGED <<times, pc, chunk, numRows, allowed>> /\ driver # "returned"
                /\ driver' # "returned"
    BY <2>1, <2>2 DEF Sink
  <2>3. CASE Return
    BY <2>3, <1>2, ReturnReturns DEF Scan!Next
  <2>4. CASE UNCHANGED <<times, pc, chunk, numRows, allowed, driver>>
    BY <2>1, <2>4 DEF Sink
  <2>5. ASSUME NEW t \in Threads, RunMorsel(t)
        PROVE  [Scan!Next]_Scan!vars
    BY <1>2, <2>5, RunMorselExecutes
  <2>6. ASSUME NEW t \in Threads, MarkMorselDone(t)
        PROVE  [Scan!Next]_Scan!vars
    BY <1>2, <2>6, MarkMorselDoneEmits DEF Scan!Next
  <2>7. CASE SpawnSwimlanes
    <3>1. Sink' = Sink
      BY <2>7, <1>2 DEF SpawnSwimlanes, IInv, StageInv, Sink
    <3> QED BY <2>1, <2>7, <3>1 DEF SpawnSwimlanes, printerVars
  <2>8. ASSUME NEW t \in Threads,
               Loop(t) \/ PickMorsel(t) \/ ReadFusedSetUp(t) \/ Arrive(t) \/ NotifyAll(t)
                 \/ Recheck(t) \/ SpuriousWakeUp(t)
        PROVE  [Scan!Next]_Scan!vars
    <3>1. \A u \in Threads : pc[u] = "mark" <=> pc'[u] = "mark"
      BY <1>2, <2>8 DEF Loop, PickMorsel, AfterMorsel, ReadFusedSetUp, Arrive, NotifyAll,
         Recheck, SpuriousWakeUp, Go, IInv, TypeOK
    <3>2. UNCHANGED <<times, chunk, numRows, allowed, driver>>
      BY <2>8 DEF Loop, PickMorsel, ReadFusedSetUp, Arrive, NotifyAll, Recheck,
         SpuriousWakeUp, printerVars
    <3>3. Sink' = Sink
      BY <3>1, <3>2 DEF Sink
    <3> QED BY <2>1, <3>2, <3>3
  <2>9. ASSUME PrepareQuery \/ PreparePipeline \/ AwaitCompilation \/ SetUp
        PROVE  /\ UNCHANGED <<times, pc, chunk, numRows, allowed>>
               /\ driver # "returned" /\ driver' # "returned"
    BY <2>9 DEF PrepareQuery, PreparePipeline, AwaitCompilation, SetUp, workerVars,
       printerVars
  <2>10. ASSUME \/ \E j \in Jobs : InterruptCompilation(j)
                \/ PipelineUnchanged
                \/ UNCHANGED vars
         PROVE  UNCHANGED <<times, pc, chunk, numRows, allowed, driver>>
    BY <2>10 DEF InterruptCompilation, PipelineUnchanged, vars, workerVars, printerVars
  <2> QED BY <1>2, StepCases, <2>2, <2>3, <2>4, <2>5, <2>6, <2>7, <2>8, <2>9, <2>10
<1> QED BY <1>1, <1>2, InvariantCorrect, PTL DEF Spec, ImplementsScan, Scan!Spec
=============================================================================
