-------------------------- MODULE InterruptableJob --------------------------
(***************************************************************************)
(* The asynchronous compile jobs of a pipeline: one background thread per  *)
(* job that generates C, starts the system compiler as a child process,    *)
(* waits for the child or for an interrupt (poll over an eventfd and a     *)
(* pidfd) and, unless it was interrupted, publishes the compiled runner.   *)
(* exec/InterruptableJob.cpp, the lambda of PipelineExecutor::             *)
(* setUpFusedAsync and BackendProgramC::compileJIT.                        *)
(***************************************************************************)
EXTENDS Naturals

CONSTANT Jobs            (* the compile jobs one pipeline may start        *)

ASSUME JobsAssumption == Jobs # {}

VARIABLES
  jobPc,       (* where the background thread of each job is               *)
  event,       (* the eventfd of the InterruptableJob was written          *)
  process,     (* the compiler child process of each job                   *)
  processFd,   (* fd_process # -1: a pidfd was registered                  *)
  result,      (* InterruptableJob::result, the outcome awaitChange stored *)
  fusedSetUp   (* AsyncCompileState: `compiled` and `fused_set_up` are set *)

jobVars == <<jobPc, event, process, processFd, result, fusedSetUp>>

JobPcs == {"none", "generateC", "create", "register", "await", "terminate",
           "join", "publish", "finished", "aborted", "threw"}
ProcessStates == {"none", "running", "dying", "succeeded", "failed",
                  "killed", "reaped"}
Running == {"running", "dying"}
Exited  == {"succeeded", "failed", "killed"}
JobEnded == {"finished", "aborted", "threw"}

JobInit ==
  /\ jobPc = [j \in Jobs |-> "none"]
  /\ event = [j \in Jobs |-> FALSE]
  /\ process = [j \in Jobs |-> "none"]
  /\ processFd = [j \in Jobs |-> FALSE]
  /\ result = [j \in Jobs |-> "none"]
  /\ fusedSetUp = [j \in Jobs |-> FALSE]

(* Starting the std::threads of a set of jobs. A pipeline that does not    *)
(* support parallel code generation generates its C before the thread is   *)
(* spawned, the others inside of it.                                       *)
StartJobs(J) ==
  /\ \E parallel \in BOOLEAN :
       jobPc' = [j \in Jobs |->
                   IF j \notin J THEN jobPc[j]
                   ELSE IF parallel THEN "generateC" ELSE "create"]
  /\ UNCHANGED <<event, process, processFd, result, fusedSetUp>>

GenerateC(j) ==
  /\ jobPc[j] = "generateC"
  /\ jobPc' = [jobPc EXCEPT ![j] = "create"]
  /\ UNCHANGED <<event, process, processFd, result, fusedSetUp>>

(* dump() and subprocess_create. *)
CreateProcess(j) ==
  /\ jobPc[j] = "create"
  /\ jobPc' = [jobPc EXCEPT ![j] = "register"]
  /\ process' = [process EXCEPT ![j] = "running"]
  /\ UNCHANGED <<event, processFd, result, fusedSetUp>>

(* pidfd_open works on a child that has exited but was not reaped yet. A   *)
(* second registration throws, which ends the program.                     *)
RegisterJob(j) ==
  /\ jobPc[j] = "register"
  /\ jobPc' = [jobPc EXCEPT ![j] = IF processFd[j] THEN "threw" ELSE "await"]
  /\ processFd' = [processFd EXCEPT ![j] = TRUE]
  /\ UNCHANGED <<event, process, result, fusedSetUp>>

(* poll() returns once one of the two descriptors is readable. When both   *)
(* are, the eventfd decides.                                               *)
AwaitChange(j) ==
  /\ jobPc[j] = "await"
  /\ event[j] \/ process[j] \in Exited
  /\ IF event[j]
       THEN /\ result' = [result EXCEPT ![j] = "Interrupted"]
            /\ jobPc' = [jobPc EXCEPT ![j] = "terminate"]
       ELSE /\ result' = [result EXCEPT ![j] = "JobDone"]
            /\ jobPc' = [jobPc EXCEPT ![j] = "join"]
  /\ UNCHANGED <<event, process, processFd, fusedSetUp>>

(* subprocess_terminate: SIGKILL is sent, the child dies at some point     *)
(* later; signalling a child that already exited has no effect.            *)
TerminateProcess(j) ==
  /\ jobPc[j] = "terminate"
  /\ jobPc' = [jobPc EXCEPT ![j] = "join"]
  /\ process' = [process EXCEPT ![j] = IF @ = "running" THEN "dying" ELSE @]
  /\ UNCHANGED <<event, processFd, result, fusedSetUp>>

(* subprocess_join (waitpid), then the exit-code tests of compileJIT and   *)
(* generateMachineCode: an interrupted job ends, a compiler that failed    *)
(* throws out of the thread and with it ends the program.                  *)
JoinProcess_IgnoreResult(j) ==
  /\ jobPc[j] = "join"
  /\ process[j] \in Exited
  /\ jobPc' = [jobPc EXCEPT ![j] = "publish"]
  /\ process' = [process EXCEPT ![j] = "reaped"]
  /\ UNCHANGED <<event, processFd, result, fusedSetUp>>

JoinProcess(j) ==
  /\ jobPc[j] = "join"
  /\ process[j] \in Exited
  /\ jobPc' = [jobPc EXCEPT ![j] =
                 IF result[j] = "Interrupted" THEN "aborted"
                 ELSE IF process[j] = "succeeded" THEN "publish" ELSE "threw"]
  /\ process' = [process EXCEPT ![j] = "reaped"]
  /\ UNCHANGED <<event, processFd, result, fusedSetUp>>

(* Under compiled_lock: `compiled` and `fused_set_up` change together.     *)
Publish(j) ==
  /\ jobPc[j] = "publish"
  /\ jobPc' = [jobPc EXCEPT ![j] = "finished"]
  /\ fusedSetUp' = [fusedSetUp EXCEPT ![j] = TRUE]
  /\ UNCHANGED <<event, process, processFd, result>>

(* InterruptableJob::interrupt, called by another thread at any time. The  *)
(* eventfd stays readable: an interrupt that precedes the registration of  *)
(* the process is not lost.                                                *)
Interrupt(j) ==
  /\ event' = [event EXCEPT ![j] = TRUE]
  /\ UNCHANGED <<jobPc, process, processFd, result, fusedSetUp>>

(* The operating system: the compiler exits by itself (a process with a    *)
(* pending SIGKILL may still win that race), or dies of the signal.        *)
CompilerExits(j) ==
  /\ process[j] \in Running
  /\ \E exit \in {"succeeded", "failed"} :
       process' = [process EXCEPT ![j] = exit]
  /\ UNCHANGED <<jobPc, event, processFd, result, fusedSetUp>>

CompilerDies(j) ==
  /\ process[j] = "dying"
  /\ process' = [process EXCEPT ![j] = "killed"]
  /\ UNCHANGED <<jobPc, event, processFd, result, fusedSetUp>>

JobStep(j) ==
  \/ GenerateC(j)
  \/ CreateProcess(j)
  \/ RegisterJob(j)
  \/ AwaitChange(j)
  \/ TerminateProcess(j)
  \/ JoinProcess(j)
  \/ Publish(j)

JobTypeOK ==
  /\ jobPc \in [Jobs -> JobPcs]
  /\ event \in [Jobs -> BOOLEAN]
  /\ process \in [Jobs -> ProcessStates]
  /\ processFd \in [Jobs -> BOOLEAN]
  /\ result \in [Jobs -> {"none", "Interrupted", "JobDone"}]
  /\ fusedSetUp \in [Jobs -> BOOLEAN]

(* An exception left a background thread: std::terminate.                  *)
Terminated == \E j \in Jobs : jobPc[j] = "threw"
=============================================================================
