# InkFuse: TLA+ models, checks and proofs

InkFuse is a query engine that runs every pipeline of a query both with
pre-compiled vectorized fragments and with code it generates, compiles in the
background and switches to. This directory holds TLA+ modules of the parts in
which order matters - threads, background processes, shared counters, resized
tables, the pipelines of a plan - with the TLC runs that check them on small
instances and TLAPS proofs for all instances. `PROJECT.json` is the index: components, runs, mutants (the
plausible bugs each property is known to catch), hazards, theorems, and a map
from every definition to the lines it models. Paths below are relative to
`src/src/` unless they start with `src/`.

## 1. The system

A query is a tree of relational operators. `decay` turns it into a
`PipelineDAG` of pipelines, each a list of suboperators from a source to a
sink. `StepwiseExecutor` (exec/QueryExecutor.cpp) builds one `PipelineExecutor`
per pipeline, starts all compilations, then runs the pipelines one after the
other with the *runtime tasks* (merging aggregates, building join tables)
between them.

| Component | State | Operations | Interacts with | What is hard |
|---|---|---|---|---|
| Pipeline executor `exec/PipelineExecutor`, `common/Barrier`, `exec/runners` | mode, interpreters, compile states, the swimlanes' local flags, barrier count | prepare, run, swimlane loop, per-backend morsels, retry, clean-up | compile jobs through `AsyncCompileState`, sources through `pickMorsel`, printer | workers switch backends independently while code becomes ready and rows run out |
| Background compilation `exec/InterruptableJob`, `codegen/backend_c/BackendC`, `CompiledRunner` | eventfd, pidfd, result, child process, published runner | generate C, start the compiler, poll, kill, join, publish, interrupt | executor; operating system | interrupt at any point of a job's life; compilers that fail or hang |
| Query executor `exec/QueryExecutor` | executors, runtime task cursor | prepareQuery, runQuery, runRuntimeTask | executors, mergers, join builders | order of tasks and pipelines |
| Grouped aggregation `algebra/Aggregation*`, `exec/DeferredState` | thread-local tables, merge tables, restart flag | lookup-or-insert, update, prepareState, mergeTables | hash tables, executor's retry | pointers into tables that are resized |
| Sequential hash tables `runtime/HashTables` | tags, slots, fill count | lookup, lookupOrInsert, insert, lookupDisable, iterate, grow | aggregation, scans | probing chains under growth and disabling |
| Atomic hash table `runtime/NewHashTables` | atomic tags, slots | concurrent insert, lookups, outer/semi marking, iterate | join build and probe | compare-and-swap races |
| Joins `algebra/Join`, `runtime/TupleMaterializer` | materialized chunks, read handles | materialize, size, build, probe | atomic table, runtime tasks | each chunk is inserted once, before any probe |
| Morsel sources `algebra/suboperators/sources` | start index, iterators | pickMorsel | all executors | every row once, over all backends |
| Execution context, chunks `exec/ExecutionContext`, `exec/FuseChunk`, sinks, `InterpretedRunner` | columns, thread-local restart flag | clear, zero-copy scan, sink | runners | who owns a column after a backend switch; who reads it stale |
| Printer `algebra/Print` | row limit, row count | markMorselDone | executor | shared limit |
| Pipelines, DAG `algebra/Pipeline` | suboperator lists, providers/consumers, continuations, tasks | attach, repipe, buildNewPipeline | operators' decay; the backends, which repipe | continuations of outer joins; what a part of a pipeline reads and leaves |
| Compilation context, suboperators `algebra/CompilationContext`, `algebra/suboperators` | request and service counts, one open request per provider | open, request, ready, consume, close | IR builder; each other, through the context | the order of generated code in loops and filters |
| IR, C backend `codegen` | the blocks of a function, types of expressions | begin and end loops and ifs, append, print | suboperators, the C compiler | scopes and types that only the C compiler looks at |
| Interpreter fragments `interpreter` | the cache of fragments by id | enumerate, compile, look up | repiping; runners | fragments and suboperators made apart must agree |
| Runtime registry `runtime/Runtime`, `HashTableRuntime` | structures, functions | register, look up | generated code | the types of calls |
| TPC-H plans `common/TPCH`, operators `algebra/*Op`, `algebra/Filter` | operator trees, IUs | decay | pipeline DAG | row offsets agree; every IU has one provider |
| Storage, tools | - | - | - | see section 6 |

What makes each of them correct is stated by the properties of section 3.

## 2. Modules

| Module | Models | Notes |
|---|---|---|
| `InterruptableJob` | compile jobs: the background thread's steps, the child process, interrupt | variables are shared with `PipelineExecutor`, which EXTENDS it |
| `PipelineExecutor` | one pipeline from `prepareQuery` to the return of `runPipeline` | one action per lock-protected section or thread step |
| `MorselScan` | the abstract promise of a pipeline: rows executed once, batches emitted once up to the limit, return only when done | `PipelineExecutor!ImplementsScan` is the refinement |
| `PipelineExecutor_proofs` | the theorems about the executor | section 4 |
| `GroupedAggregation` | an aggregation from its first morsel to the merged tables | includes `runMorselWithRetry`, `cleanUp`, `AggregationMerger` |
| `GroupedAggregation_proofs` | the theorems about the aggregation | section 4 |
| `FiniteLemmas` | induction over finite sets and numbers, sums over finite sets, powers of two | what the proofs share |
| `HashTables` | the four kinds of sequential hash tables slot by slot, and the source that scans them | one action per call; a resize is one action per moved slot |
| `HashTables_proofs` | the theorems about the hash tables | section 4 |
| `AtomicHashTable` | the concurrent hash table of joins: state and steps of its calls | one action per load, exchange and store; has no specification of its own |
| `HashJoin` | a join: materialize, size, build, probe, scan for unmatched rows | EXTENDS `AtomicHashTable` |
| `HashJoin_proofs` | the theorems about the join and its table | section 4 |
| `QueryPlans` | the operators' constructors and the TPC-H plans | data: no state |
| `PipelineDAG` | plans decaying into pipelines, and pipelines and runtime tasks run in order | one action per operator's `decay`, per pipeline and per task |
| `PipelineDAG_proofs` | the theorems about pipelines and their run | section 4 |
| `PipelineClosed_proofs` | the theorem that pipelines can be compiled on their own | section 4; EXTENDS `PipelineDAG_proofs` |
| `PipelineRows_proofs` | the theorem that suboperators agree on the bytes of rows | section 4; EXTENDS `PipelineDAG_proofs`, `QueryPlans` |
| `Repiping` | `Pipeline::repipe` and its callers: the pipelines of fused code, of ROF intervals and of single interpreted suboperators | operators over the pipelines of `PipelineDAG`; no state |
| `RuntimeLibrary` | the types of the IR, and the structures and functions that generated code may name | data: no state |
| `CodeIR` | expressions and statements with their types, how they are printed and how C reads them | no state; uses RECURSIVE operators, so it and the modules above it are for TLC only |
| `SuboperatorCode` | the statements each suboperator generates | no state |
| `InterpreterFragments` | the fragmentizers, the ids of suboperators and the fragment cache | no state |
| `CodeGeneration` | the calls of a `CompilationContext` and the blocks of the function they build | one action per call, with the rest of the call stack in `todo` |
| `ChunkFlow` | the columns of a thread while morsels run on the interpreter, on fused and on ROF code | one action per runner |
| `Backends` | composes `PipelineDAG`, `CodeGeneration` and `ChunkFlow` | queries run as before; before they do, the code of their pipelines is generated or rows flow through them |
| `MCPipelineExecutor`, `MCGroupedAggregation`, `MCHashTables`, `MCHashJoin`, `MCPipelineDAG`, `MCBackends` | values of the constants for TLC | |

Definitions whose name ends in `_Something` are the bugs of `mutants` in
`PROJECT.json`: variants of the definition after them that no specification
uses.

### PipelineExecutor

* A worker's `pc` follows `threadSwimlane`: `loop` (the loop head, which also
  fixes the backend of the next morsel), `pick`, `run`, `mark` (printer and
  `cleanUp`), then for a hybrid worker that is still warming up `readFlag`
  (fused_set_up under its lock), `arrive`, and in the barrier `notify`,
  `asleep`, `recheck`. `driver` follows the thread that runs the query.
* `fused_ready` and `terminate` are locals of a swimlane. `terminate` is a
  variable; `fused_ready` is what the `readFlag` step reads.
* Which backend a hybrid worker takes after the barrier depends on measured
  throughput: any choice is allowed.
* What suboperators compute is abstracted to how many rows of a morsel reach
  the sink; which rows were executed is kept in the history variable `times`.
* `startIdx` grows by a chunk per call, also for calls that find no morsel; it
  stays below `RelSize + ChunkSize * (Cardinality(Threads) + 1)`.
* A failing compiler throws inside the background thread, which terminates the
  program: the model then stays as it is (`Terminated`).

### GroupedAggregation

* A table is its set of groups, their counts, its fill limit and a generation
  that grows with every resize. A pointer to a group is a key and a
  generation; it dangles when the table has moved on. Probing is not part of
  this module.
* An interpreted morsel is `LookupRow` per row, `FinishLookups`
  (`runMorselWithRetry`), `Update`, `CleanUp`. A compiled one is `CompiledRow`
  per row. ROF pipelines compile or interpret the same suboperators and are not
  distinguished.
* The merge visits source tables in order, and the groups of one in any order
  (the order of their slots depends on the hash). `owner` is the hash modulo
  the number of threads; all functions are considered.
* A write through a dangling pointer hits freed memory. Its only effect on the
  result that the model keeps is that the table does not see it.

### HashTables

* `kind` says which table it is: `sk` and `ck` probe and grow, `dl` is an array
  of 2^16 slots (four in the run; it has no probing), `nk` the one row of a
  table whose key has no bytes.
* A tag is a fill bit and a fingerprint, a row the tag, the key and one counter
  for the payload, which callers increment through the pointer they get. The
  memory of a slot that was never filled is zero: `FreshRow` holds the key whose
  bytes are zero, which is one of the keys.
* A key of `ck` is a pointer to a string. `text` maps pointers to strings, each
  named after one of its pointers; it may be any such map, so that different
  pointers are equal as keys or not. What is stored is the pointer of the first
  insert.
* Probing is stated by the order of the slots from a home slot on
  (`ProbedBefore`, with the wrap-around of `advance`); the slot a loop stops at
  is the first one with the property it looks for. That such a slot exists is
  what `HalfEmpty` is about.
* `Call` is `lookupOrInsert` or `insert`. When `reserveSlot` grows the table,
  `MoveSlot` or `MoveString` moves one slot at a time and `FinishCall` does what
  is left of the call.
* `groups` records what callers wrote, and `visits` what the reader saw.
* `StartReading`, `PickMorsel` and `ReadRow` are `HashTableSource` on one
  thread. It reads when nobody writes any more.

### AtomicHashTable, HashJoin

* Every load, compare-and-swap and store of a tag is a step, and the copy of a
  row into a claimed slot is one of its own. Atomic operations of the code are
  sequentially consistent except for the relaxed store of a mark; the scan that
  reads marks starts after the threads that write them have been joined.
* A fingerprint is split into its upper bit, which the calls for outer joins
  use for the mark, and the rest.
* A build row is its key: the code supports only joins on a primary key.
* A join of kind `"marking"` uses `insertOuter` and `lookupOuter`, as the
  table's tests do. `"leftOuter"` uses the calls that `Join` plans.
* Which thread materializes or probes which row is arbitrary. Probes are single
  rows: a chunk of them is looked up row by row.

### QueryPlans, PipelineDAG

* An operator is a record: the IUs it provides, the calls of `decay` its tree
  makes in order, and the rows it should have. A join's `decay` is two calls,
  `JoinBuild` before its right child and `JoinProbe` after it.
* A row is the set of the scans it stems from. That is enough to tell a matched
  row of an outer join from an unmatched one, and a plan that lost an input or
  a kind of row from one that did not. An aggregation's rows are those its
  groups stem from.
* A suboperator is a record that is equal to another one only if it is the same
  object in the code: it names its operator, its IUs and its row offsets.
* Rows that threads write (`written`) and tables that runtime tasks make
  (`built`) are kept apart: a pipeline that reads a table sees what the task
  moved there, except for an aggregation on one thread, which reads the table
  it filled. A task and a pipeline are single steps here; what happens inside
  is the matter of the other modules.
* The IUs that stand for "this column is packed" (`right_pseudo_ius`) are told
  apart by their position in the row: a row may pack a column twice.
* `ColumnsAssumption` says what `QueryPlans` promises of the columns of a plan:
  the IUs an operator makes are its own, and it reads those of its child.
  `LaidOut` says of a call what it promises of its rows: IUs have the width of
  their type, joins and aggregations provide IUs of the types that they pack, and
  the granules, which begin at `StateBegin`, include those of every aggregate.
  TLC evaluates it for all TPC-H plans (`RowsLaidOut` in `MCBackends`).
* Between granules of one size the code orders by address; the model orders by
  first use. `ROFScopeGuard` marks where `Repiping` cuts a pipeline for relaxed
  operator fusion.

### Repiping, RuntimeLibrary, CodeIR, SuboperatorCode, CodeGeneration

* An IU is a record with its type and the operator that made it; a variable of
  the generated code is named by the suboperator or the IU it is for. Names as
  text are left out, their coincidence is not: columns of one table name share
  their identifier (`Identifier`, as `buildIUIdentifier`).
* `Repipe` builds what `Pipeline::repipe` attaches, in its order. The sinks come
  from a set without order in the code, and in the order of their IUs here.
* `CodeGeneration` is the protocol of `CompilationContext`. The calls of the
  code nest; `todo` is what all active calls still have to do, and an action is
  the code of one call up to the calls it makes. An exception of the code ends
  in `Thrown`, which `GeneratedOnce` excludes.
* `Lines` is the order in which the backend prints statements, each with the
  blocks around it. `ExprSound` and `StmtSound` are what C asks of types, and
  `KeepsTree` whether C reads an infix expression as the tree it was.
* A job is a whole pipeline, one ROF interval of one, or a fragment. All
  fragments are compiled once, before the run of the plan in `FirstPlans`, as
  the program does when it fills the cache.

### InterpreterFragments, ChunkFlow, Backends

* `AllFragments` are the fragmentizers' loops over types and operations. A
  runner finds code by `Id`; `Matches` compares what the fragment was generated
  for with the pipeline the runner repipes: the same suboperators in the same
  order, with the same kinds of state, for columns of the same types.
* A column is its length and where its data is: memory of its own, or the table
  from a row on. A value is the row it was computed from, so that a column with
  rows of another morsel, in another order or of another length is told apart.
* Rows flow on one thread: threads have chunks of their own. A hybrid pipeline
  takes the interpreter or the compiled code for every morsel after the code
  was set up, as measured throughput may suggest anything; set-up happens after
  any number of interpreted morsels.
* `RunRestarted` is a runner that fails once and is run again by
  `runMorselWithRetry`, with what it left in its sinks.
* Every row finds one partner in a join, and one filter at most drops rows,
  those with an odd number: what the columns hold does not depend on which.

## 3. Runs

| Run | Instance | Shows |
|---|---|---|
| `executor_safety` | 3 workers, 2 jobs, 5 rows in morsels of 2, all modes, limit 2 or none | `TypeOK`, `RunnersReady`, `RowsPickedOnce`, `ResultComplete`, `PrinterExact`, `OnlyFinishedCodePublished`, `SetUpIsQuiescent`, `ImplementsScan` |
| `executor_liveness` | 2 workers, 3 rows | `PipelineReturns`, `CompilationStops` |
| `aggregation_safety` | 2 workers, up to 3 groups, tables of 2 slots | `TypeOK`, `FlagClean`, `PointersLive`, `RowsCountedOnce`, `GroupsUnique`, `MergeExactIfSized` |
| `aggregation_liveness` | 1 worker, 4 groups | `AggregationEnds`; takes the path without a merge |
| `merge_resize` | 2 workers, 3 groups | a violation of `MergeExact`: first finding below |
| `simple_table` | four kinds of tables, 3 keys or pointers, up to 8 slots, 2 writes per group | `TypeOK`, `TableIsMap`, `HalfEmpty`, `MovedOnce`, `ReadOnce` |
| `table_disable` | simple keys, lookupDisable for any key | a violation of `TableIsMap`: second finding |
| `hash_join` | 2 workers, 2 build rows, 3 probes | `TypeOK`, `BuiltOnce`, `HalfEmpty`, `JoinExact`, `JoinEnds` |
| `outer_join` | the same, planned as a left outer join | a violation of `JoinExact`: third finding |
| `plans` | all 12 TPC-H plans on 1 and 2 threads, without q13 on 2; all fragments; 5 rows in morsels of 2 | the pipelines: `TypeOK`, `Closed`, `RowsAgree`, `SharedNotParallel`, `TopologicalOrder`, `TasksOnTime`, `ResultComplete`; their code: `GeneratedOnce`, `ScopesSound`, `WellTyped`, `SinksInStep`; the interpreter's: `FragmentsMatch`; the columns: `ColumnsFresh` |
| `outer_join_plan` | q13 on 2 threads | a violation of `ResultComplete`: fourth finding |
| `scan_print` | a table is scanned and printed, 7 rows in morsels of 2 | a violation of `PrintedFresh`: fifth finding |

Bounds. Three workers are what the barrier needs for one to arrive because of
published code, one because the rows ran out and one last; two jobs are needed
for ROF pipelines with more than one compiled interval. Five rows give two full
morsels and a partial one for three workers. The limit 2 is reached inside a
morsel, at its end, or by the second of two morsels, as the number of surviving
rows is arbitrary. In the aggregation, tables start with two slots (eight in
the code, `exec/DeferredState.h:80`; 32 for merge tables), so that three groups
already resize a table twice within one morsel. In `HashTables` two to
eight slots take two resizes and every shape of chains that wrap around, and
fingerprints of one bit make keys share theirs or be each other's inverse; all
functions from keys to the four hashes are considered, and all ways in which
three pointers may point to equal strings. In `hash_join` two workers are what a race for a
slot needs; chunks of one row let each of them insert rows of the other. Keys
k1 and k2 of `simple_table` are symmetric, the key of zero bytes is not. Workers 2 and 3 of
`executor_safety` are symmetric; worker 1 is the caller of `runPipeline`.
Liveness is checked without symmetry. The code stops when a pipeline has
returned; `Stay` (and the last disjunct of the other specifications) keeps those states
from counting as deadlocks, so deadlock checking stays on, except in the runs of
`PipelineDAG` and `Backends`, where a query ends and nothing can be waited for.
Their plans are
the real ones, not a sample; one thread and several differ only in whether
aggregations are merged. Five rows are two full morsels and a short one: enough
for an interpreted morsel before the compiled code is set up, one on it, and one
on either; seven leave one more for the printer to see what the switch did. As
pipelines do not change once they are built, code is generated and rows flow
only when a query begins to run, on one thread, for each of its pipelines.

Fairness. Every thread of the program is scheduled eventually: weak fairness
for the query's thread, for each worker, for each background thread and for the
detached thread, for each worker of a join, and for a killed process to die. There is none for a compiler
to finish, none for spurious wake-ups, and none for taking a lock in a
particular order: critical sections are single steps. `PipelineReturns` assumes
for the modes that wait for compiled code that no compiler runs for ever;
interpreted and hybrid pipelines need no assumption.

Findings.

1. `merge_resize`. `AggregationMerger::mergeSingleTable` collects
pointers into its merge table and adds the partial aggregates through them
afterwards. When the table is resized in between, the loop meant to collect
again (`algebra/AggregationMerger.cpp:70-81`) does nothing, because the source
iterator is at its end: the aggregates of the groups collected before the
resize are added to freed memory. `MergeExactIfSized` shows the result is exact
otherwise. The sizes of the code make it rare: an owner needs at least 16
groups and 1.2 times its even share of all pre-aggregated groups.

2. `table_disable`. `HashTableSimpleKey::lookupDisable` changes the tag of the
slot its search ends at before it looks whether that slot is filled. For a key
that is not in the table this gives an empty slot a tag that `lookupOrInsert`
takes for an existing group and that `lookup` takes for an empty slot. The
header promises to disable a slot "if it finds" one (`runtime/HashTables.h:52`).
No plan of the repository uses this call: semi joins use the atomic table, which
looks first.

3. `outer_join`. A left outer join is built and probed with the plain calls, so
no row is ever marked as matched; the scan for unmatched rows skips rows by a
bit that is part of the hash. `hash_join` shows that the calls made for outer
joins (`insertOuter`, `lookupOuter`) give the right rows. The one query with an
outer join (TPC-H 13) is not part of the tests.

4. `outer_join_plan`. An aggregation notes its merge as the task after the
pipeline that is then the last (`algebra/Aggregation.cpp:206`), and afterwards
begins a new one, which first appends the continuation of an outer join below
it. On several threads the continuation therefore inserts the rows without a
match into tables that have been merged already, and they are lost. Computing
the place after the continuation was appended, as `TopologicalOrder` suggests,
would repair it.

5. `scan_print`. A sink keeps the address of its column when it is set up
(`algebra/suboperators/sinks/FuseChunkSink.cpp:139`). In hybrid mode the sinks
of compiled code are set up after interpreted morsels, whose zero-copy scan has
pointed the columns into the table. A column that is scanned and printed as it is
is then written into the table, and the next printed morsels repeat rows. The
readers of columns keep the address of the pointer instead, for this very reason
(`algebra/suboperators/IndexedIUProvider.h:17-20`). The plans of the repository
print computed columns or those of a filter or a join, which `ColumnsFresh`
shows to be unaffected.

Met while modelling, outside of the listed runs, as no plan of the repository is
concerned:

* `buildNewPipeline` closes continuations in a loop that takes the last pipeline
  anew each time and appends the closed continuation itself
  (`algebra/Pipeline.cpp:270-280`). The second continuation is therefore copied
  from the first one, at an index into the pipeline that probed. It takes a left
  outer join whose result is the probe side of another, as in the plan
  `two_outer_joins` of `MCPipelineDAG`: with `MCTwoOuterJoins.cfg`, TLC finds
  `Closed` violated by a continuation that is its source and the update of the
  aggregate, without the filter, the unpacking and the group's lookup between
  them. Taking the pipeline before the loop would repair it.
* Continuations become pipelines only when another pipeline begins, in the
  `decay` of a table scan or an aggregation. With neither between a left outer
  join and the printer, the continuation is never attached and the rows without
  a match are not printed: `MCPrintedOuterJoin.cfg` violates `ResultComplete`.
* The row that stands for the missing partner of a row without a match is
  allocated with five bytes whatever its columns take (a TODO at
  `algebra/suboperators/sources/HashTableSource.cpp:109` says so).

## 4. Proofs

`PipelineExecutor_proofs` proves, for any number of threads, jobs, rows, chunk
size and limit, that the executor satisfies each safety property of
`executor_safety`, and that it implements `MorselScan`. The assumptions are
those named in the modules (`JobsAssumption`, `PipelineAssumption`).

The properties are not inductive. `IInv` adds what they rest on: which program
counters go with which driver states and modes; that the barrier's
`pending` is the number of workers that have not arrived, so that a worker past
the barrier implies that all have arrived, none of them inside a warm-up
morsel; that published code is never withdrawn and a runner is set up only
after publication; that the rows below `startIdx` are exactly those executed
once or held by one worker, with disjoint non-empty morsels; that chunks are
empty outside of `mark`; and that a worker terminates only after the start
index passed the relation or the limit was used up. `InvariantCorrect` is proved
action by action; the other theorems follow from it. `ImplementsScanCorrect`
maps `RunMorsel` to `Execute`, `MarkMorselDone` to `Emit`, `Return` to `Return`
and every other step to a stuttering step.

`GroupedAggregation_proofs` proves every safety property of
`aggregation_safety`, for any workers, rows, morsels, groups and table sizes, in
three layers.

* `IInv` and `PreMergeInv`: while an interpreted lookup runs with its flag down,
  every pointer collected so far has the generation of the table, and the column
  has one pointer per row processed. A lookup that resizes raises the flag, and
  a raised flag makes the primitive start over with an empty column. From this
  follow `PointersLive` and `FlagClean`. With the shape of the tables
  (`TablesInv`: a table has fewer groups than it takes, and the size of a merge
  table is the power of two that `prepareState` looks for) it is `BaseInv`, and
  gives `TypeOK`.
* `ScanInv`: the groups of the tables and what the workers hold count, summed
  over the workers, each row below the start index once. Sums over workers are
  the folds of the model; `FiniteLemmas` proves that such a fold is the sum,
  changes by the difference of one summand, and is 0 of nothing.
* `MergeInv`: the merge table of a worker holds of its groups exactly what the
  tables it has visited held before the merge, less what is still collected and
  not yet added; rows go astray only if a merge table was resized.
  `GroupsUnique` and `MergeExactIfSized` follow. `MergeExact` without the
  condition is what the run `merge_resize` refutes.

`HashJoin_proofs` proves the safety properties of `hash_join`, for any workers,
rows, keys, hashes and sizes and any interleaving of loads, exchanges and stores.
`BaseInv` has the types, the phases of the join and where each call is in its
loop; `ChunksInv`, `PulledInv` and `ApartInv` say that a chunk has the rows that
one worker put there and is pulled by one worker; `SizeInv` that the table has
at least twice the slots of the materialized rows. `TableInv` is about slots: a
filled slot has one owner, the row stored in it or the insert that claimed it,
and from the home of the row's hash to the slot there is no empty one. As slots
are never emptied, a call that has passed a slot may rely on what it saw there
(`LookupInv`); `RestInv` collects the probes that are finished and what the scan
has read. `BuiltOnce` needs that the places of a row are disjoint; `HalfEmpty`
that two rows do not share a slot, so there is one for each at most; `JoinExact`
that a lookup that meets an empty slot has passed all places its key could be
in. `JoinExact` is proved for every kind of join but `"leftOuter"`, for which
the run `outer_join` shows that the code does not satisfy it.

`HashTables_proofs` proves the safety properties of `simple_table`, for any
keys, strings, hashes, sizes and number of calls. `MapInv` says of a table with
open addressing that every filled slot is chained to the home of its text
(`Chained`: no slot probed before it is free), that no text has two rows with its
fingerprint, and that a free slot is as new. `Lookup` proves that a probe then
ends at the live row of a key or, if there is none, at a slot where one may be
put; `RowWritten` that a row written there leaves the table a map. A disabled
row keeps its slot filled, and so the chains of others whole; its inverted
fingerprint is never its own because `fingerprint_inversion_mask`, all ones, is
odd (`TableAssumption`). During a resize `MoveInv` relates the two tables row by
row, and `DirectInv` and `SingleInv` are about the tables that do not grow.
`ReadInv` is a second layer: the slots before the reader's cursor are those it
saw, and a morsel ends behind as many filled slots as it announced, by induction
along the iterators of `EndsFrom`. The theorems assume `~DisableAbsent`: callers
disable keys of the table only, as the header of `lookupDisable` does not demand
but the code needs; the run `table_disable` has the other callers.

`PipelineDAG_proofs` proves `TypeOK`, `SharedNotParallel`, `TopologicalOrder` and
`TasksOnTime` of the run `plans` for every plan, with any number of operators and
of outer joins, on any number of threads. `PlanAssumption` says what a plan is:
`decay` goes through a tree, children first, so that a leaf (a table scan) comes
first, an operator decays once, or, a join, once per side, and between the two
sides of a join the leaves of its probe side begin a pipeline. TLC evaluates it
for the TPC-H plans. `DagOK` is the part of the invariant about the DAG: each
suboperator of a pipeline is one that some call so far makes (`Stems`); what
reads a table is in a later pipeline than what fills it (`OrderOK`); pipelines
that share a suboperator were both marked (`SharedOK`); and a continuation
points behind all lookups of the last pipeline in the table it reads, which is
marked (`ContinuationOK`). The last one is why closing a continuation is safe:
it copies suboperators of a marked pipeline into one that is marked too, and none
of the lookups that it must come after. A continuation that is closed second is
made of what the first one holds; that, too, comes from the marked pipeline and
from behind its index (`CopyOf`), so that order and marks do not depend on how
many there are. A call makes suboperators that no pipeline has yet
(`NothingAlike`): they carry the operator, and where build and probe of a join
both pack keys, the buffer. `BuildsOK` is what keeps a lookup out of the pipeline
that materializes its own build side. For the run, tasks are noted in the order
of the pipelines they follow, and those not run yet follow the running pipeline
or a later one (`RunInv`), which is the assertion of `runQuery`.

`PipelineClosed_proofs` proves `Closed`: every pipeline of every plan begins with
a source, ends in a sink, and every suboperator reads what those before it
provide and provides nothing twice. `ColumnsAssumption` (in `PipelineDAG`, and
evaluated by TLC for the plans of every run) says of the columns what a query
tree has: an operator makes IUs of its own, reads those visible to it (`Visible`:
those of the operator below, and what expressions and filters added to them), a
scan starts a plan and each probe side, the printer ends the plan. The code
asserts or throws for most of the rest: an aggregation computes something
(`algebra/Aggregation.cpp:77`), a semi join has no payload on its probe side
(`algebra/Join.cpp:114`), a printer has columns (`algebra/Print.cpp:12`). That a
join builds on at least one column it does not check: every join of its plans has
a key, and one without would end its build side's pipeline with the suboperator
that materializes rows, whose result nothing takes.

The invariant is `ClosedInv`. A pipeline that is still appended to is `Open`: it
is closed so far, what it provides belongs to the calls made so far (`Owns`), and
it provides what is visible to the next one. `Owns` is what keeps calls from
providing an IU twice; the two calls of a join share their operator, and are told
apart by the pointer only the build side provides. That suffices for all but
continuations. A continuation is a source with nothing behind it until it is
closed, and the suboperators it will get are still being appended to another
pipeline: so the invariant speaks of `IfClosed`, the pipeline that it would be if
it were closed now, which has to be `Open` as well. Each call then extends the
last pipeline and the continuation by the same suboperators, and what a call
reads of what is visible to it, both provide. For a call that begins a pipeline,
`ClosedSoFar` says that the ones before are `Whole`.

`ClosedCorrect` has the hypothesis `OneOuterJoin`: no pipeline probes for two left
outer joins. It is not a matter of the proof: the invariant for one continuation
does not carry over to the next, which the code closes from the first, and the
plan `two_outer_joins` (section 3) violates `Closed`. All plans of the repository satisfy it, q13 with an outer join.

`PipelineRows_proofs` proves `RowsAgree` for every plan with `PlansLaidOut`: widths
are those of `QueryPlans`, and every call is `LaidOut`. What the hypothesis gives are
types and the planned granules; offsets follow from the definitions of the code's
computations, `Width`, `BytesOf`, `PayloadOffset` and `ReadsOf`. The invariant,
`BytesInv`, has two parts. `BytesDone` says that the bytes that the suboperators of
all pipelines put and read are, taken together, those of the rows of the calls
made so far (`CallPuts`, `CallReads`): every operator's suboperators touch what
its call's rows say (`BuildTouches` to `ReadGroupsTouches`), and closing a
continuation copies some of them and adds a source that touches nothing
(`NewTouches`). `LayoutInv` says of each call's rows that they are `Packed`: an IU
begins where the one before it ends. It is proved of `Width`, a fold over a
sequence, by turning it into a recursion over the position (`WidthAdds`); that a
group's state does not begin inside of its key is a property of `PayloadOffset` for
the three sizes a granule has (`StateBehindKeys`). Two rows of IUs of the same types
are then laid out alike by induction over their length (`SamePlaces`), which is why
the reading side of a join or an aggregation, which adds up the widths of other IUs in
another pipeline, finds what was put. Different calls put bytes in different rows:
the two calls of a join share the operator, and build and probe rows are told
apart (`CallsApart`).

Induction. What is summed, counted or folded here, or found by search, needs
induction over a set or a number. The induction theorems of the library take the
property as an operator, which the provers cannot instantiate; `FiniteLemmas`
states the principle for a set, the elements that have the property
(`MinimalSubset`, `LeastNatural`, `FiniteInduction`, `NaturalInduction`), from the
well-foundedness of strict inclusion. Folds over a sequence (the continuations of
a pipeline, the suboperators that rows pass, the widths of a row) are turned into a recursion
over the position first (`ContinuationsClosed`, `RowsMoved`, `WidthAdds`); a lemma for all folds would
have an operator as its parameter.

Only model-checked: the liveness properties (fairness and ENABLED are out of the
prover's reach), and of the run `plans` the following. `ResultComplete` is about the
rows of a particular plan: for every plan it would need a reference semantics of
plans, which `QueryPlans` has by construction for those it builds, and TLC checks
all plans of the repository. That `QueryPlans` makes plans with `PlansLaidOut` and the
assumptions of `PipelineDAG` TLC checks for the plans of the runs. The properties of
`CodeGeneration`, `InterpreterFragments` and `Backends` rest on recursive
operators over expressions and suboperators, which no theorem can be about here.
`ColumnsFresh` is left for later.

## 5. Plan

Done: the executor with its compile jobs, the grouped aggregation, the hash
tables, the join, the plans with their pipelines and runtime tasks, repiping,
code generation, the fragments, and the flow of rows through columns; theorems
for all safety properties of the first four, and for those of the pipelines that
do not depend on which rows a plan computes. Left, in this order:

1. `ColumnsFresh` of `ChunkFlow` for one pipeline.
2. The remaining operations: the merge of complex-key and direct-lookup tables
   with pointers as keys, release of deferred state, several threads in
   `ChunkFlow`.

## 6. Not modelled

* Storage (`storage/Relation`): parses text files into vectors with the standard
  library, before any query runs and on one thread. What a scan reads of it is
  `stored` in `ChunkFlow`.
* Tools and benchmarks: command lines around `runQuery`, and measurements.
* The bump allocator of `runtime/MemoryRuntime`: one list of regions per
  thread, freed with its pipeline.
* Prefetching, CPU pinning, time measurement, and what they choose: a backend
  may be chosen whenever the code could choose it.
* Values: which rows a predicate drops, what an expression computes, what a
  printed line looks like. Overflow of a sum is that of the C type.
* `Copy`, `CountingSink` and `RuntimeKeyExpressionSubop` are compiled as
  fragments only; no plan of the repository uses them. `ct_only_vectorized`, set
  by no suboperator, is left out, and so is `ExclusiveHashTable`, which is
  empty.
