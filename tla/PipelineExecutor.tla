-------------------------- MODULE PipelineExecutor --------------------------
(***************************************************************************)
(* One pipeline from PipelineExecutor::preparePipeline to the return of    *)
(* runPipeline: the worker threads (swimlanes), which pick morsels of the  *)
(* source relation and run them interpreted or compiled, the background    *)
(* compile jobs of InterruptableJob, the OnceBarrier at which hybrid       *)
(* workers meet before the compiled runner is set up, the row limit of the *)
(* printer at the end of the pipeline and the interrupt of compilations    *)
(* nobody needs any more.                                                  *)
(*                                                                         *)
(* Locks.  fused_set_up, `compiled` and the printer are only touched with  *)
(* their mutex held, so each critical section is one atomic step.  The     *)
(* condition variable of the barrier is modelled with its waiters, its     *)
(* notification and spurious wake-ups.                                     *)
(***************************************************************************)
EXTENDS InterruptableJob, Integers, FiniteSets

CONSTANTS
  Threads,       (* the worker threads                                     *)
  MainThread,    (* swimlane 0, run by the caller of runPipeline           *)
  RelSize,       (* rows of the source relation, TScanDriver::rel_size     *)
  ChunkSize,     (* DEFAULT_CHUNK_SIZE, the rows of a full morsel          *)
  Modes,         (* the execution modes to consider                        *)
  Limits,        (* the row limits to consider                             *)
  NoLimit        (* the std::nullopt limit of a printer (or no printer)    *)

ASSUME PipelineAssumption ==
  /\ IsFiniteSet(Threads)
  /\ MainThread \in Threads
  /\ RelSize \in Nat
  /\ ChunkSize \in Nat \ {0}
  /\ Modes \subseteq {"Fused", "Interpreted", "ROF", "Hybrid"}
  /\ NoLimit \notin Nat
  /\ Limits \subseteq Nat \cup {NoLimit}

VARIABLES
  mode,           (* PipelineExecutor::mode                                *)
  driver,         (* progress of the thread that runs the query            *)
  compilerSetupStarted,  (* compiler_setup_started                         *)
  interpretersSetUp,     (* setUpState ran on every interpreter            *)
  compiledSetUp,  (* per compile job: setUpState ran on its runner         *)
  toInterrupt,    (* jobs the detached interrupting thread still has to stop *)
  startIdx,       (* TScanDriver::start_idx, fetch_add by every worker     *)
  pc,             (* per worker: progress inside threadSwimlane            *)
  backend,        (* per worker: the backend its current morsel runs on    *)
  terminate,      (* per worker: `terminate` of the swimlane               *)
  pastBarrier,    (* per worker: compile_prep_barrier has been passed      *)
  morsel,         (* per worker: its LoopDriverState, rows start .. end-1  *)
  chunk,          (* per worker: rows in the sink column of its FuseChunk  *)
  pending,        (* OnceBarrier::pending_arrivals                         *)
  limit,          (* PrettyPrinter::limit, the rows still allowed          *)
  numRows,        (* PrettyPrinter::num_rows                               *)
  allowed,        (* history: the row limit the query started with         *)
  times           (* history: how often each row was executed              *)

workerVars == <<pc, backend, terminate, pastBarrier, morsel, chunk>>
printerVars == <<limit, numRows>>
setUpVars == <<compilerSetupStarted, interpretersSetUp, compiledSetUp>>
vars == <<jobVars, mode, driver, setUpVars, toInterrupt, startIdx, workerVars,
          pending, printerVars, allowed, times>>

Rows == 0 .. RelSize - 1
Smaller(a, b) == IF a <= b THEN a ELSE b

(* The jobs setUpFusedAsync starts: one for the whole pipeline, or one per *)
(* compiled interval of a ROF pipeline, and none to interpret.             *)
FusedJob == CHOOSE j \in Jobs : TRUE
JobsOf(m) ==
  {j \in Jobs : m = "ROF" \/ (m # "Interpreted" /\ j = FusedJob)}

DriverPcs == {"prepareQuery", "prepare", "awaitCompilation", "setUp", "spawn",
              "swim", "returned"}
WorkerPcs == {"idle", "loop", "pick", "run", "mark", "readFlag", "arrive",
              "asleep", "recheck", "notify", "done"}
Backends == {"interpreted", "fused", "rof"}

NoMorsel == [start |-> 0, end |-> 0]
MorselRows(m) == {r \in Rows : m.start <= r /\ r < m.end}

Init ==
  /\ JobInit
  /\ mode \in Modes
  /\ driver = "prepareQuery"
  /\ compilerSetupStarted = FALSE
  /\ interpretersSetUp = FALSE
  /\ compiledSetUp = [j \in Jobs |-> FALSE]
  /\ toInterrupt = {}
  /\ startIdx = 0
  /\ pc = [t \in Threads |-> "idle"]
  /\ backend = [t \in Threads |-> "interpreted"]
  /\ terminate = [t \in Threads |-> FALSE]
  /\ pastBarrier = [t \in Threads |-> FALSE]
  /\ morsel = [t \in Threads |-> NoMorsel]
  /\ chunk = [t \in Threads |-> 0]
  /\ pending = Cardinality(Threads)
  /\ limit \in Limits
  /\ allowed = limit
  /\ numRows = 0
  /\ times = [r \in Rows |-> 0]

-----------------------------------------------------------------------------
(* The thread that runs the query.                                         *)

(* preparePipeline(Fused or ROF): compilation is started at most once.     *)
PrepareCompiled ==
  IF mode = "Interpreted" \/ compilerSetupStarted
    THEN UNCHANGED <<jobVars, compilerSetupStarted>>
    ELSE StartJobs(JobsOf(mode)) /\ compilerSetupStarted' = TRUE

(* StepwiseExecutor::prepareQuery kicks off the compilation of every       *)
(* pipeline before the first one runs.                                     *)
PrepareQuery ==
  /\ driver = "prepareQuery"
  /\ driver' = "prepare"
  /\ PrepareCompiled
  /\ UNCHANGED <<mode, interpretersSetUp, compiledSetUp, toInterrupt, startIdx,
                 workerVars, pending, printerVars, allowed, times>>

(* The beginning of runPipeline.                                           *)
PreparePipeline ==
  /\ driver = "prepare"
  /\ driver' = IF mode \in {"Fused", "ROF"} THEN "awaitCompilation" ELSE "setUp"
  /\ PrepareCompiled
  /\ UNCHANGED <<mode, interpretersSetUp, compiledSetUp, toInterrupt, startIdx,
                 workerVars, pending, printerVars, allowed, times>>

(* compilation_jobs[k].join() of the Fused and ROF modes.                  *)
AwaitCompilation ==
  /\ driver = "awaitCompilation"
  /\ \A j \in JobsOf(mode) : jobPc[j] \in {"finished", "aborted"}
  /\ driver' = "setUp"
  /\ UNCHANGED <<jobVars, mode, setUpVars, toInterrupt, startIdx, workerVars,
                 pending, printerVars, allowed, times>>

(* setUpState on the runners the mode starts with. The compiled runner of  *)
(* a hybrid pipeline is set up later, by the barrier.                      *)
SetUp ==
  /\ driver = "setUp"
  /\ driver' = "spawn"
  /\ interpretersSetUp' = (mode # "Fused")
  /\ compiledSetUp' = [j \in Jobs |-> mode \in {"Fused", "ROF"} /\ j \in JobsOf(mode)]
  /\ UNCHANGED <<jobVars, mode, compilerSetupStarted, toInterrupt, startIdx,
                 workerVars, pending, printerVars, allowed, times>>

(* runSwimlanes: one thread per swimlane, the caller takes swimlane 0.     *)
SpawnSwimlanes ==
  /\ driver = "spawn"
  /\ driver' = "swim"
  /\ pc' = [t \in Threads |-> "loop"]
  /\ UNCHANGED <<jobVars, mode, setUpVars, toInterrupt, startIdx, backend,
                 terminate, pastBarrier, morsel, chunk, pending, printerVars,
                 allowed, times>>

(* Joining the workers. A hybrid pipeline then detaches a thread that      *)
(* interrupts the compilation and does not wait for it.                    *)
Return_NoJoin ==
  /\ driver = "swim"
  /\ pc[MainThread] = "done"
  /\ driver' = "returned"
  /\ toInterrupt' = IF mode = "Hybrid" THEN JobsOf(mode) ELSE {}
  /\ UNCHANGED <<jobVars, mode, setUpVars, startIdx, workerVars, pending,
                 printerVars, allowed, times>>

Return_NoInterrupt ==
  /\ driver = "swim"
  /\ \A t \in Threads : pc[t] = "done"
  /\ driver' = "returned"
  /\ UNCHANGED <<jobVars, mode, setUpVars, startIdx, workerVars, pending,
                 printerVars, allowed, times, toInterrupt>>

Return ==
  /\ driver = "swim"
  /\ \A t \in Threads : pc[t] = "done"
  /\ driver' = "returned"
  /\ toInterrupt' = IF mode = "Hybrid" THEN JobsOf(mode) ELSE {}
  /\ UNCHANGED <<jobVars, mode, setUpVars, startIdx, workerVars, pending,
                 printerVars, allowed, times>>

(* The detached thread.                                                    *)
InterruptCompilation(j) ==
  /\ j \in toInterrupt
  /\ toInterrupt' = toInterrupt \ {j}
  /\ Interrupt(j)
  /\ UNCHANGED <<mode, driver, setUpVars, startIdx, workerVars, pending,
                 printerVars, allowed, times>>

DriverStep ==
  \/ PrepareQuery
  \/ PreparePipeline
  \/ AwaitCompilation
  \/ SetUp
  \/ SpawnSwimlanes
  \/ Return

-----------------------------------------------------------------------------
(* The swimlanes.                                                          *)

Go(t, label) == pc' = [pc EXCEPT ![t] = label]

(* Where a worker continues after a morsel: a hybrid worker that has not   *)
(* passed the barrier looks whether compilation finished.                  *)
AfterMorsel_Again(t) == IF mode = "Hybrid" THEN "readFlag" ELSE "loop"
AfterMorsel(t) ==
  IF mode = "Hybrid" /\ ~pastBarrier[t] THEN "readFlag" ELSE "loop"

(* The backends a worker may choose for its next morsel. Past the barrier  *)
(* a hybrid worker follows measured throughputs: either may be chosen.     *)
BackendsOf(t) ==
  {b \in Backends :
     /\ b = "rof" <=> mode = "ROF"
     /\ b = "fused" => mode = "Fused" \/ (mode = "Hybrid" /\ pastBarrier[t])
     /\ b = "interpreted" => mode # "Fused"}

(* The head of the morsel loop.                                            *)
Loop(t) ==
  /\ pc[t] = "loop"
  /\ IF terminate[t]
       THEN Go(t, "done") /\ UNCHANGED backend
       ELSE /\ Go(t, "pick")
            /\ \E b \in BackendsOf(t) : backend' = [backend EXCEPT ![t] = b]
  /\ UNCHANGED <<jobVars, mode, driver, setUpVars, toInterrupt, startIdx,
                 terminate, pastBarrier, morsel, chunk, pending, printerVars,
                 allowed, times>>

(* TScanDriver::pickMorsel: all backends share the driver and its atomic   *)
(* start_idx. Its caller returns at once when there is no more morsel.     *)
PickMorsel_Overlapping(t) ==
  /\ pc[t] = "pick"
  /\ startIdx' = startIdx + ChunkSize - 1
  /\ IF startIdx >= RelSize
       THEN /\ terminate' = [terminate EXCEPT ![t] = TRUE]
            /\ Go(t, AfterMorsel(t))
            /\ UNCHANGED morsel
       ELSE /\ morsel' = [morsel EXCEPT ![t] =
                            [start |-> startIdx,
                             end   |-> Smaller(startIdx + ChunkSize, RelSize)]]
            /\ Go(t, "run")
            /\ UNCHANGED terminate
  /\ UNCHANGED <<jobVars, mode, driver, setUpVars, toInterrupt, backend,
                 pastBarrier, chunk, pending, printerVars, allowed, times>>

PickMorsel(t) ==
  /\ pc[t] = "pick"
  /\ startIdx' = startIdx + ChunkSize
  /\ IF startIdx >= RelSize
       THEN /\ terminate' = [terminate EXCEPT ![t] = TRUE]
            /\ Go(t, AfterMorsel(t))
            /\ UNCHANGED morsel
       ELSE /\ morsel' = [morsel EXCEPT ![t] =
                            [start |-> startIdx,
                             end   |-> Smaller(startIdx + ChunkSize, RelSize)]]
            /\ Go(t, "run")
            /\ UNCHANGED terminate
  /\ UNCHANGED <<jobVars, mode, driver, setUpVars, toInterrupt, backend,
                 pastBarrier, chunk, pending, printerVars, allowed, times>>

(* Running the morsel on the chosen backend. The suboperators keep some of *)
(* its rows and append them to the sink column of the worker's FuseChunk.  *)
RunMorsel(t) ==
  /\ pc[t] = "run"
  /\ \E n \in 0 .. (morsel[t].end - morsel[t].start) :
       chunk' = [chunk EXCEPT ![t] = @ + n]
  /\ times' = [r \in Rows |-> IF r \in MorselRows(morsel[t]) THEN times[r] + 1
                                                             ELSE times[r]]
  /\ Go(t, "mark")
  /\ UNCHANGED <<jobVars, mode, driver, setUpVars, toInterrupt, startIdx,
                 backend, terminate, pastBarrier, morsel, pending, printerVars,
                 allowed>>

(* PrettyPrinter::markMorselDone under write_mut, then cleanUp, unless the *)
(* output is closed: then the worker leaves with its chunk as it is.       *)
MarkMorselDone_NoCleanUp(t) ==
  /\ pc[t] = "mark"
  /\ LET write == IF limit = NoLimit THEN chunk[t] ELSE Smaller(chunk[t], limit)
     IN  /\ limit' = IF limit = NoLimit THEN NoLimit ELSE limit - write
         /\ numRows' = numRows + write
  /\ terminate' = [terminate EXCEPT ![t] = (limit' = 0)]
  /\ Go(t, AfterMorsel(t))
  /\ UNCHANGED <<jobVars, mode, driver, setUpVars, toInterrupt, startIdx,
                 backend, pastBarrier, morsel, pending, allowed, times, chunk>>

MarkMorselDone_NoCutOff(t) ==
  /\ pc[t] = "mark"
  /\ LET write == IF limit = NoLimit THEN chunk[t] ELSE Smaller(chunk[t], limit)
     IN  limit' = IF limit = NoLimit THEN NoLimit ELSE limit - write
  /\ numRows' = numRows + chunk[t]
  /\ terminate' = [terminate EXCEPT ![t] = (limit' = 0)]
  /\ chunk' = [chunk EXCEPT ![t] = IF limit' = 0 THEN @ ELSE 0]
  /\ Go(t, AfterMorsel(t))
  /\ UNCHANGED <<jobVars, mode, driver, setUpVars, toInterrupt, startIdx,
                 backend, pastBarrier, morsel, pending, allowed, times>>

MarkMorselDone(t) ==
  /\ pc[t] = "mark"
  /\ LET write == IF limit = NoLimit THEN chunk[t] ELSE Smaller(chunk[t], limit)
     IN  /\ limit' = IF limit = NoLimit THEN NoLimit ELSE limit - write
         /\ numRows' = numRows + write
  /\ terminate' = [terminate EXCEPT ![t] = (limit' = 0)]
  /\ chunk' = [chunk EXCEPT ![t] = IF limit' = 0 THEN @ ELSE 0]
  /\ Go(t, AfterMorsel(t))
  /\ UNCHANGED <<jobVars, mode, driver, setUpVars, toInterrupt, startIdx,
                 backend, pastBarrier, morsel, pending, allowed, times>>

(* The end of a warm-up iteration: fused_set_up is read under              *)
(* compiled_lock; the worker goes for the barrier when it is set or when   *)
(* the worker is to terminate.                                             *)
ReadFusedSetUp_SkipBarrier(t) ==
  /\ pc[t] = "readFlag"
  /\ IF fusedSetUp[FusedJob] /\ ~terminate[t]
       THEN pastBarrier' = [pastBarrier EXCEPT ![t] = TRUE] /\ Go(t, "loop")
       ELSE Go(t, IF terminate[t] THEN "arrive" ELSE "loop")
            /\ UNCHANGED pastBarrier
  /\ UNCHANGED <<jobVars, mode, driver, setUpVars, toInterrupt, startIdx,
                 backend, terminate, morsel, chunk, pending,
                 printerVars, allowed, times>>

ReadFusedSetUp(t) ==
  /\ pc[t] = "readFlag"
  /\ Go(t, IF fusedSetUp[FusedJob] \/ terminate[t] THEN "arrive" ELSE "loop")
  /\ UNCHANGED <<jobVars, mode, driver, setUpVars, toInterrupt, startIdx,
                 backend, terminate, pastBarrier, morsel, chunk, pending,
                 printerVars, allowed, times>>

(* OnceBarrier::arriveAndWait. The last worker sets the compiled runner up *)
(* if there is one by now, before anybody else gets past the mutex.        *)
Arrive_FirstSetsUp(t) ==
  /\ pc[t] = "arrive"
  /\ pending' = pending - 1
  /\ compiledSetUp' = [compiledSetUp EXCEPT ![FusedJob] =
                         @ \/ (pending = Cardinality(Threads) /\ fusedSetUp[FusedJob])]
  /\ Go(t, IF pending' = 0 THEN "notify" ELSE "asleep")
  /\ UNCHANGED <<jobVars, mode, driver, compilerSetupStarted,
                 interpretersSetUp, toInterrupt, startIdx, backend, terminate,
                 pastBarrier, morsel, chunk, printerVars, allowed, times>>

Arrive(t) ==
  /\ pc[t] = "arrive"
  /\ pending' = pending - 1
  /\ compiledSetUp' = [compiledSetUp EXCEPT ![FusedJob] =
                         @ \/ (pending' = 0 /\ fusedSetUp[FusedJob])]
  /\ Go(t, IF pending' = 0 THEN "notify" ELSE "asleep")
  /\ UNCHANGED <<jobVars, mode, driver, compilerSetupStarted,
                 interpretersSetUp, toInterrupt, startIdx, backend, terminate,
                 pastBarrier, morsel, chunk, printerVars, allowed, times>>

(* cv.notify_all(), after the mutex was released.                          *)
NotifyAll_Nobody(t) ==
  /\ pc[t] = "notify"
  /\ Go(t, "loop")
  /\ pastBarrier' = [pastBarrier EXCEPT ![t] = TRUE]
  /\ UNCHANGED <<jobVars, mode, driver, setUpVars, toInterrupt, startIdx,
                 backend, terminate, morsel, chunk, pending, printerVars,
                 allowed, times>>

NotifyAll(t) ==
  /\ pc[t] = "notify"
  /\ pc' = [u \in Threads |-> IF u = t THEN "loop"
                              ELSE IF pc[u] = "asleep" THEN "recheck" ELSE pc[u]]
  /\ pastBarrier' = [pastBarrier EXCEPT ![t] = TRUE]
  /\ UNCHANGED <<jobVars, mode, driver, setUpVars, toInterrupt, startIdx,
                 backend, terminate, morsel, chunk, pending, printerVars,
                 allowed, times>>

(* A condition variable may wake its waiters for no reason.                *)
SpuriousWakeUp(t) ==
  /\ pc[t] = "asleep"
  /\ Go(t, "recheck")
  /\ UNCHANGED <<jobVars, mode, driver, setUpVars, toInterrupt, startIdx,
                 backend, terminate, pastBarrier, morsel, chunk, pending,
                 printerVars, allowed, times>>

(* cv.wait evaluates its predicate with the mutex held.                    *)
Recheck(t) ==
  /\ pc[t] = "recheck"
  /\ IF pending = 0
       THEN Go(t, "loop") /\ pastBarrier' = [pastBarrier EXCEPT ![t] = TRUE]
       ELSE Go(t, "asleep") /\ UNCHANGED pastBarrier
  /\ UNCHANGED <<jobVars, mode, driver, setUpVars, toInterrupt, startIdx,
                 backend, terminate, morsel, chunk, pending, printerVars,
                 allowed, times>>

WorkerStep(t) ==
  \/ Loop(t)
  \/ PickMorsel(t)
  \/ RunMorsel(t)
  \/ MarkMorselDone(t)
  \/ ReadFusedSetUp(t)
  \/ Arrive(t)
  \/ NotifyAll(t)
  \/ Recheck(t)

-----------------------------------------------------------------------------
(* The background threads and the compilers they run.                      *)

PipelineUnchanged ==
  UNCHANGED <<mode, driver, setUpVars, toInterrupt, startIdx, workerVars,
              pending, printerVars, allowed, times>>

BackgroundStep(j) == JobStep(j) /\ PipelineUnchanged
Environment(j) == (CompilerExits(j) \/ CompilerDies(j)) /\ PipelineUnchanged

(* The program stays as it is when nothing is left to do, or when an       *)
(* exception ended it.                                                     *)
Finished ==
  /\ driver = "returned"
  /\ toInterrupt = {}
  /\ \A j \in Jobs : jobPc[j] \in JobEnded \cup {"none"}
Stay == (Terminated \/ Finished) /\ UNCHANGED vars

Next ==
  \/ /\ ~Terminated
     /\ \/ DriverStep
        \/ \E t \in Threads : WorkerStep(t) \/ SpuriousWakeUp(t)
        \/ \E j \in Jobs : \/ InterruptCompilation(j)
                           \/ BackgroundStep(j)
                           \/ Environment(j)
  \/ Stay

Spec == Init /\ [][Next]_vars

(* Threads of the program are scheduled eventually, and a process that was *)
(* killed dies. Nothing makes a compiler finish by itself, or wakes a      *)
(* waiter without a notification.                                          *)
Fairness ==
  /\ WF_vars(~Terminated /\ DriverStep)
  /\ \A t \in Threads : WF_vars(~Terminated /\ WorkerStep(t))
  /\ \A j \in Jobs : /\ WF_vars(~Terminated /\ InterruptCompilation(j))
                     /\ WF_vars(~Terminated /\ BackgroundStep(j))
                     /\ WF_vars(~Terminated /\ CompilerDies(j) /\ PipelineUnchanged)

FairSpec == Spec /\ Fairness

-----------------------------------------------------------------------------
(* Properties.                                                             *)

(* Every variable stays in its type; in particular the barrier never       *)
(* counts below zero although it is used by every worker of the pipeline.  *)
TypeOK ==
  /\ JobTypeOK
  /\ mode \in Modes
  /\ driver \in DriverPcs
  /\ compilerSetupStarted \in BOOLEAN
  /\ interpretersSetUp \in BOOLEAN
  /\ compiledSetUp \in [Jobs -> BOOLEAN]
  /\ toInterrupt \subseteq Jobs
  /\ startIdx \in Nat
  /\ pc \in [Threads -> WorkerPcs]
  /\ backend \in [Threads -> Backends]
  /\ terminate \in [Threads -> BOOLEAN]
  /\ pastBarrier \in [Threads -> BOOLEAN]
  /\ morsel \in [Threads -> [start : Nat, end : Nat]]
  /\ chunk \in [Threads -> Nat]
  /\ pending \in 0 .. Cardinality(Threads)
  /\ limit \in Nat \cup {NoLimit}
  /\ allowed \in Nat \cup {NoLimit}
  /\ numRows \in Nat
  /\ times \in [Rows -> Nat]

(* A worker that picks or runs a morsel with compiled code finds every     *)
(* compiled fragment of its mode published and its runner set up, and one  *)
(* that interprets finds the interpreters set up (runFusedMorsel asserts   *)
(* fused_set_up and dereferences `compiled`, runMorsel reads states[t]).   *)
RunnerReady(t) ==
  /\ backend[t] \in {"fused", "rof"} =>
       \A j \in JobsOf(mode) : fusedSetUp[j] /\ compiledSetUp[j]
  /\ backend[t] \in {"interpreted", "rof"} => interpretersSetUp
RunnersReady ==
  \A t \in Threads : pc[t] \in {"pick", "run", "mark"} => RunnerReady(t)

(* No worker is inside a morsel when a compiled runner is set up: the      *)
(* comment at the barrier, "All threads synchronize around this point, as  *)
(* otherwise we risk subtle data races during Runner setup".               *)
SetUpIsQuiescent ==
  [][compiledSetUp' # compiledSetUp
       => \A t \in Threads : pc[t] \notin {"pick", "run", "mark"}]_vars

(* No row is executed twice, and rows a worker has picked but not executed *)
(* yet belong to that worker alone, although interpreted and compiled      *)
(* morsels of all workers draw from one start_idx.                         *)
RowsPickedOnce ==
  /\ \A r \in Rows : times[r] <= 1
  /\ \A t \in Threads : pc[t] = "run" =>
       \A r \in MorselRows(morsel[t]) :
         /\ times[r] = 0
         /\ \A u \in Threads \ {t} : pc[u] = "run" => r \notin MorselRows(morsel[u])

(* When the pipeline returns, the whole relation went through it unless    *)
(* the printer closed the output first; no worker is still inside it.      *)
ResultComplete ==
  driver = "returned" =>
    /\ \A t \in Threads : pc[t] = "done"
    /\ limit = 0 \/ \A r \in Rows : times[r] = 1

(* The printer writes as many rows as the limit it started with allows and *)
(* no more, and it never takes the rows of one morsel for those of the     *)
(* next: a worker's chunk is empty whenever it picks a morsel.             *)
PrinterExact ==
  /\ allowed # NoLimit => limit # NoLimit /\ numRows + limit = allowed
  /\ \A t \in Threads : pc[t] \in {"pick", "run"} => chunk[t] = 0

(* Compiled code is only published by a job that saw its compiler end      *)
(* without an interrupt, and a job that ended left no child process.       *)
OnlyFinishedCodePublished ==
  \A j \in Jobs :
    /\ fusedSetUp[j] => result[j] = "JobDone"
    /\ jobPc[j] \in {"publish", "finished", "aborted"} => process[j] = "reaped"

(* The rows a worker has produced but not emitted.                         *)
Sink == [t \in Threads |-> IF pc[t] = "mark" THEN chunk[t] ELSE 0]

(* What the pipeline promises to the query.                                *)
Scan == INSTANCE MorselScan WITH
          Workers  <- Threads,
          NumRows  <- RelSize,
          sink     <- Sink,
          emitted  <- numRows,
          returned <- (driver = "returned")

(* Every step of the executor is a step the promise allows: workers that   *)
(* pick, run and mark morsels in any order, on any backend, implement a    *)
(* scan that executes and emits every row once.                            *)
ImplementsScan == Scan!Spec

(* A pipeline that interprets, or may interpret, returns whether or not    *)
(* any compiler ever finishes: no worker waits at the barrier for ever and *)
(* nobody waits for a background job. A compiled one returns if compilers  *)
(* do not run for ever.                                                    *)
PipelineReturns ==
  (mode \in {"Fused", "ROF"} => \A j \in Jobs : []<>(process[j] \notin Running))
    => <>(driver = "returned" \/ Terminated)

(* After a hybrid pipeline returned, its compile jobs end even if their    *)
(* compilers hang: the interrupt reaches a job at every point of its life. *)
CompilationStops ==
  mode = "Hybrid" =>
    <>(Terminated \/ \A j \in JobsOf(mode) : jobPc[j] \in JobEnded)
=============================================================================
