------------------------- MODULE GroupedAggregation -------------------------
(***************************************************************************)
(* A grouped aggregation from its first morsel to the tables the reading   *)
(* pipeline scans: workers pick morsels and fold them into hash tables of  *)
(* their own, row by row (compiled) or column by column (interpreted: one  *)
(* primitive collects the pointer of every row's group, the next updates   *)
(* the groups through the pointers). A table that is resized moves all its *)
(* groups; the restart flag makes the interpreter run the collecting       *)
(* primitive again. After the pipeline every worker merges the groups it   *)
(* owns out of all tables into a new one (AggregationMerger).              *)
(*                                                                         *)
(* Groups carry one sum-like granule, COUNT: the merge primitives only     *)
(* add. A pointer is the key of its group and the generation of the table  *)
(* it points into. What is written through a pointer into memory that was  *)
(* freed by a resize is not in the table: it is lost.                      *)
(***************************************************************************)
EXTENDS Integers, Sequences, FiniteSets, FiniteSetsExt, Functions

CONSTANTS
  NumThreads,      (* the threads of the query                             *)
  Keys,            (* group keys                                           *)
  Inputs,          (* the relations to consider, sequences of keys         *)
  ChunkSize,       (* rows of a full morsel                                *)
  StartSlots,      (* slots of a new thread-local table (8 in the code)    *)
  MinKeys          (* keys a merge table is at least sized for (8)         *)

ASSUME AggregationAssumption ==
  /\ NumThreads \in Nat \ {0}
  /\ IsFiniteSet(Keys)
  /\ Inputs \subseteq Seq(Keys)
  /\ ChunkSize \in Nat \ {0}
  /\ StartSlots \in Nat /\ StartSlots >= 2
  /\ MinKeys \in Nat \ {0}

Threads == 0 .. NumThreads - 1

VARIABLES
  input,           (* the rows of the source, their keys                   *)
  owner,           (* hash of a key modulo the number of threads           *)
  startIdx,        (* TScanDriver::start_idx                               *)
  pc,              (* per worker: progress in its swimlane or merge task   *)
  chunk,           (* per worker: the rows start + 1 .. end of its morsel  *)
  row,             (* per worker: rows of the morsel already processed     *)
  pointers,        (* per worker: the column of group pointers             *)
  restartFlag,     (* per worker: MemoryRegion::restart_flag               *)
  hashTables,      (* per worker: ExclusiveHashTableState::hash_tables     *)
  preMerge,        (* AggregationMerger::pre_merge, indexed like hashTables *)
  source,          (* per worker: index of the table it merges from        *)
  unread,          (* per worker: groups its iterator has not reached      *)
  mergePairs       (* per worker: merge_pairs, the targets it collected    *)

inputVars == <<input, owner>>
scanVars == <<startIdx, chunk, row, pointers>>
mergeVars == <<preMerge, source, unread, mergePairs>>
vars == <<inputVars, scanVars, pc, restartFlag, hashTables, mergeVars>>

Pointers == [key : Keys, gen : Nat]
Tables == [gen : Nat, maxFill : Nat \ {0}, keys : SUBSET Keys, sum : [Keys -> Nat]]
WorkerPcs == {"pick", "compiled", "lookup", "update", "cleanUp", "done",
              "mergeKeys", "mergeSums", "merged", "read"}

-----------------------------------------------------------------------------
(* The hash table. Which slot a key takes is the subject of another        *)
(* module; here a table is the set of its groups.                          *)

NewTable(slots) ==
  [gen |-> 0, maxFill |-> slots \div 2, keys |-> {}, sum |-> [k \in Keys |-> 0]]

Full(table) == Cardinality(table.keys) >= table.maxFill

(* reserveSlot: double the table when it is half full, whether or not the  *)
(* key that is looked up needs a slot. The groups move to new memory.      *)
Reserved(table) ==
  IF Full(table) THEN [table EXCEPT !.gen = @ + 1, !.maxFill = 2 * @] ELSE table

LookupOrInsert(table, k) == [Reserved(table) EXCEPT !.keys = @ \cup {k}]

PointerTo(table, k) == [key |-> k, gen |-> table.gen]
Live(table, p) == p.gen = table.gen

(* buildMergeTables: 2.4 slots for each key of an even share, rounded up   *)
(* to a power of two.                                                      *)
PerThread(total) == (24 * Max({MinKeys, total \div NumThreads})) \div 10
MergeSlots(total) ==
  CHOOSE n \in {2^e : e \in 1 .. PerThread(total)} :
    n >= PerThread(total) /\ (n = 2 \/ n \div 2 < PerThread(total))

-----------------------------------------------------------------------------
Init ==
  /\ input \in Inputs
  /\ owner \in [Keys -> Threads]
  /\ startIdx = 0
  /\ pc = [t \in Threads |-> "pick"]
  /\ chunk = [t \in Threads |-> [start |-> 0, end |-> 0]]
  /\ row = [t \in Threads |-> 0]
  /\ pointers = [t \in Threads |-> << >>]
  /\ restartFlag = [t \in Threads |-> FALSE]
  /\ hashTables = [t \in Threads |-> NewTable(StartSlots)]
  /\ preMerge = << >>
  /\ source = [t \in Threads |-> 0]
  /\ unread = [t \in Threads |-> {}]
  /\ mergePairs = [t \in Threads |-> {}]

Go(t, label) == pc' = [pc EXCEPT ![t] = label]

-----------------------------------------------------------------------------
(* The aggregating pipeline.                                               *)

(* Some rows may be left over for the last morsel. A morsel runs compiled  *)
(* or interpreted, in a hybrid pipeline that differs from one to the next. *)
PickMorsel_Unclipped(t) ==
  /\ pc[t] = "pick"
  /\ startIdx' = startIdx + ChunkSize
  /\ IF startIdx >= Len(input)
       THEN Go(t, "done") /\ UNCHANGED <<chunk, row>>
       ELSE /\ chunk' = [chunk EXCEPT ![t] = [start |-> startIdx,
                                              end |-> startIdx + ChunkSize]]
            /\ row' = [row EXCEPT ![t] = startIdx]
            /\ \E runner \in {"compiled", "lookup"} : Go(t, runner)
  /\ UNCHANGED <<inputVars, pointers, restartFlag, hashTables, mergeVars>>

PickMorsel(t) ==
  /\ pc[t] = "pick"
  /\ startIdx' = startIdx + ChunkSize
  /\ IF startIdx >= Len(input)
       THEN Go(t, "done") /\ UNCHANGED <<chunk, row>>
       ELSE /\ chunk' = [chunk EXCEPT ![t] =
                           [start |-> startIdx,
                            end   |-> Min({startIdx + ChunkSize, Len(input)})]]
            /\ row' = [row EXCEPT ![t] = startIdx]
            /\ \E runner \in {"compiled", "lookup"} : Go(t, runner)
  /\ UNCHANGED <<inputVars, pointers, restartFlag, hashTables, mergeVars>>

(* Worker t looks up the group of its next row and raises its restart flag *)
(* if that resized the table.                                              *)
LookUpNextRow(t) ==
  /\ row[t] < chunk[t].end
  /\ row' = [row EXCEPT ![t] = @ + 1]
  /\ restartFlag' = [restartFlag EXCEPT ![t] = @ \/ Full(hashTables[t])]

(* Generated code: look the group of a row up and update it at once.       *)
CompiledRow(t) ==
  /\ pc[t] = "compiled"
  /\ LookUpNextRow(t)
  /\ LET k == input[row[t] + 1]
         found == LookupOrInsert(hashTables[t], k)
     IN  hashTables' = [hashTables EXCEPT ![t] = [found EXCEPT !.sum[k] = @ + 1]]
  /\ UNCHANGED <<inputVars, startIdx, chunk, pointers, pc, mergeVars>>

FinishCompiled(t) ==
  /\ pc[t] = "compiled"
  /\ row[t] = chunk[t].end
  /\ Go(t, "cleanUp")
  /\ UNCHANGED <<inputVars, scanVars, restartFlag, hashTables, mergeVars>>

(* The interpreted lookup primitive only collects the pointers.            *)
LookupRow(t) ==
  /\ pc[t] = "lookup"
  /\ LookUpNextRow(t)
  /\ LET k == input[row[t] + 1] IN
       /\ hashTables' = [hashTables EXCEPT ![t] = LookupOrInsert(@, k)]
       /\ pointers' = [pointers EXCEPT
                         ![t] = Append(@, PointerTo(hashTables'[t], k))]
  /\ UNCHANGED <<inputVars, startIdx, chunk, pc, mergeVars>>

(* runMorselWithRetry: when the table was resized, clear the column the    *)
(* primitive filled and run it again.                                      *)
FinishLookups_NoRetry(t) ==
  /\ pc[t] = "lookup"
  /\ row[t] = chunk[t].end
  /\ restartFlag' = [restartFlag EXCEPT ![t] = FALSE]
  /\ Go(t, "update") /\ UNCHANGED <<row, pointers>>
  /\ UNCHANGED <<inputVars, startIdx, chunk, hashTables, mergeVars>>

FinishLookups_NoPrepare(t) ==
  /\ pc[t] = "lookup"
  /\ row[t] = chunk[t].end
  /\ restartFlag' = [restartFlag EXCEPT ![t] = FALSE]
  /\ IF restartFlag[t]
       THEN row' = [row EXCEPT ![t] = chunk[t].start] /\ UNCHANGED <<pc, pointers>>
       ELSE Go(t, "update") /\ UNCHANGED <<row, pointers>>
  /\ UNCHANGED <<inputVars, startIdx, chunk, hashTables, mergeVars>>

FinishLookups_KeepFlag(t) ==
  /\ pc[t] = "lookup"
  /\ row[t] = chunk[t].end
  /\ IF restartFlag[t]
       THEN /\ row' = [row EXCEPT ![t] = chunk[t].start]
            /\ pointers' = [pointers EXCEPT ![t] = << >>]
            /\ UNCHANGED pc
       ELSE Go(t, "update") /\ UNCHANGED <<row, pointers>>
  /\ UNCHANGED <<inputVars, startIdx, chunk, restartFlag, hashTables, mergeVars>>

FinishLookups(t) ==
  /\ pc[t] = "lookup"
  /\ row[t] = chunk[t].end
  /\ restartFlag' = [restartFlag EXCEPT ![t] = FALSE]
  /\ IF restartFlag[t]
       THEN /\ row' = [row EXCEPT ![t] = chunk[t].start]
            /\ pointers' = [pointers EXCEPT ![t] = << >>]
            /\ UNCHANGED pc
       ELSE Go(t, "update") /\ UNCHANGED <<row, pointers>>
  /\ UNCHANGED <<inputVars, startIdx, chunk, hashTables, mergeVars>>

(* The interpreted aggregation primitive goes over the pointer column.     *)
Update(t) ==
  /\ pc[t] = "update"
  /\ LET updates(k) == {i \in DOMAIN pointers[t] :
                          /\ pointers[t][i].key = k
                          /\ Live(hashTables[t], pointers[t][i])}
     IN  hashTables' = [hashTables EXCEPT
           ![t].sum = [k \in Keys |-> @[k] + Cardinality(updates(k))]]
  /\ Go(t, "cleanUp")
  /\ UNCHANGED <<inputVars, scanVars, restartFlag, mergeVars>>

(* PipelineExecutor::cleanUp: clear the columns and the flag, which        *)
(* compiled code may have raised.                                          *)
CleanUp_KeepFlag(t) ==
  /\ pc[t] = "cleanUp"
  /\ pointers' = [pointers EXCEPT ![t] = << >>]
  /\ Go(t, "pick")
  /\ UNCHANGED <<inputVars, startIdx, chunk, row, hashTables, mergeVars, restartFlag>>

CleanUp(t) ==
  /\ pc[t] = "cleanUp"
  /\ pointers' = [pointers EXCEPT ![t] = << >>]
  /\ restartFlag' = [restartFlag EXCEPT ![t] = FALSE]
  /\ Go(t, "pick")
  /\ UNCHANGED <<inputVars, startIdx, chunk, row, hashTables, mergeVars>>

-----------------------------------------------------------------------------
(* The runtime task after the pipeline.                                    *)

AllAt(label) == \A t \in Threads : pc[t] = label

(* prepareState, run by the query's thread: a single table has no          *)
(* duplicate groups.                                                       *)
SkipMerge ==
  /\ NumThreads = 1
  /\ AllAt("done")
  /\ pc' = [t \in Threads |-> "read"]
  /\ UNCHANGED <<inputVars, scanVars, restartFlag, hashTables, mergeVars>>

PrepareMerge ==
  /\ NumThreads > 1
  /\ AllAt("done")
  /\ LET total == SumFunction([t \in Threads |-> Cardinality(hashTables[t].keys)])
     IN  hashTables' = [t \in Threads |-> NewTable(MergeSlots(total))]
  /\ preMerge' = hashTables
  /\ source' = [t \in Threads |-> 0]
  /\ unread' = [t \in Threads |-> hashTables[0].keys]
  /\ pc' = [t \in Threads |-> "mergeKeys"]
  /\ UNCHANGED <<inputVars, scanVars, restartFlag, mergePairs>>

(* mergeSingleTable: advance the iterator over the source table and        *)
(* collect the target of a group this worker owns.                         *)
MergeKey_AnyOwner(t) ==
  /\ pc[t] = "mergeKeys"
  /\ \E k \in unread[t] :
       /\ unread' = [unread EXCEPT ![t] = @ \ {k}]
       /\ restartFlag' = [restartFlag EXCEPT ![t] = @ \/ Full(hashTables[t])]
       /\ hashTables' = [hashTables EXCEPT ![t] = LookupOrInsert(@, k)]
       /\ mergePairs' = [mergePairs EXCEPT
                           ![t] = @ \cup {PointerTo(hashTables'[t], k)}]
  /\ UNCHANGED <<inputVars, scanVars, pc, preMerge, source>>

MergeKey_NoPairForKnown(t) ==
  /\ pc[t] = "mergeKeys"
  /\ \E k \in unread[t] :
       /\ unread' = [unread EXCEPT ![t] = @ \ {k}]
       /\ IF owner[k] # t \/ k \in hashTables[t].keys
            THEN UNCHANGED <<restartFlag, hashTables, mergePairs>>
            ELSE /\ restartFlag' = [restartFlag EXCEPT ![t] = @ \/ Full(hashTables[t])]
                 /\ hashTables' = [hashTables EXCEPT ![t] = LookupOrInsert(@, k)]
                 /\ mergePairs' = [mergePairs EXCEPT
                                     ![t] = @ \cup {PointerTo(hashTables'[t], k)}]
  /\ UNCHANGED <<inputVars, scanVars, pc, preMerge, source>>

MergeKey(t) ==
  /\ pc[t] = "mergeKeys"
  /\ \E k \in unread[t] :
       /\ unread' = [unread EXCEPT ![t] = @ \ {k}]
       /\ IF owner[k] # t
            THEN UNCHANGED <<restartFlag, hashTables, mergePairs>>
            ELSE /\ restartFlag' = [restartFlag EXCEPT ![t] = @ \/ Full(hashTables[t])]
                 /\ hashTables' = [hashTables EXCEPT ![t] = LookupOrInsert(@, k)]
                 /\ mergePairs' = [mergePairs EXCEPT
                                     ![t] = @ \cup {PointerTo(hashTables'[t], k)}]
  /\ UNCHANGED <<inputVars, scanVars, pc, preMerge, source>>

(* The end of the do-while loop. A raised flag makes it run once more, but *)
(* the iterator is at its end: nothing is collected again.                 *)
FinishKeys(t) ==
  /\ pc[t] = "mergeKeys"
  /\ unread[t] = {}
  /\ restartFlag' = [restartFlag EXCEPT ![t] = FALSE]
  /\ Go(t, "mergeSums")
  /\ UNCHANGED <<inputVars, scanVars, hashTables, mergeVars>>

(* mergeSum over the collected pairs; then the next source table.          *)
MergeSums(t) ==
  /\ pc[t] = "mergeSums"
  /\ LET merged == {p.key : p \in {q \in mergePairs[t] : Live(hashTables[t], q)}}
         added(k) == IF k \in merged THEN preMerge[source[t]].sum[k] ELSE 0
     IN  hashTables' = [hashTables EXCEPT
           ![t].sum = [k \in Keys |-> @[k] + added(k)]]
  /\ mergePairs' = [mergePairs EXCEPT ![t] = {}]
  /\ IF source[t] + 1 < NumThreads
       THEN /\ source' = [source EXCEPT ![t] = @ + 1]
            /\ unread' = [unread EXCEPT ![t] = preMerge[source[t] + 1].keys]
            /\ Go(t, "mergeKeys")
       ELSE Go(t, "merged") /\ UNCHANGED <<source, unread>>
  /\ UNCHANGED <<inputVars, scanVars, restartFlag, preMerge>>

(* runRuntimeTask joins its workers; the next pipeline reads the tables.   *)
FinishMerge ==
  /\ AllAt("merged")
  /\ pc' = [t \in Threads |-> "read"]
  /\ UNCHANGED <<inputVars, scanVars, restartFlag, hashTables, mergeVars>>

WorkerStep(t) ==
  \/ PickMorsel(t)
  \/ CompiledRow(t)
  \/ FinishCompiled(t)
  \/ LookupRow(t)
  \/ FinishLookups(t)
  \/ Update(t)
  \/ CleanUp(t)
  \/ MergeKey(t)
  \/ FinishKeys(t)
  \/ MergeSums(t)

DriverStep == SkipMerge \/ PrepareMerge \/ FinishMerge

Next ==
  \/ \E t \in Threads : WorkerStep(t)
  \/ DriverStep
  \/ AllAt("read") /\ UNCHANGED vars

Spec == Init /\ [][Next]_vars

(* Every thread of the program is scheduled eventually.                    *)
FairSpec ==
  /\ Spec
  /\ \A t \in Threads : WF_vars(WorkerStep(t))
  /\ WF_vars(DriverStep)

-----------------------------------------------------------------------------
(* Properties.                                                             *)

(* Every variable stays in its type: a morsel never reaches past the end   *)
(* of the relation, a table always has room for a group.                   *)
TypeOK ==
  /\ input \in Inputs
  /\ owner \in [Keys -> Threads]
  /\ startIdx \in Nat
  /\ pc \in [Threads -> WorkerPcs]
  /\ chunk \in [Threads -> [start : 0 .. Len(input), end : 0 .. Len(input)]]
  /\ row \in [Threads -> 0 .. Len(input)]
  /\ pointers \in [Threads -> Seq(Pointers)]
  /\ restartFlag \in [Threads -> BOOLEAN]
  /\ hashTables \in [Threads -> Tables]
  /\ preMerge = << >> \/ preMerge \in [Threads -> Tables]
  /\ source \in [Threads -> Threads]
  /\ unread \in [Threads -> SUBSET Keys]
  /\ mergePairs \in [Threads -> SUBSET Pointers]

(* runMorselWithRetry and mergeSingleTable assert that the restart flag is *)
(* down when they begin. A flag left over from compiled code, from an      *)
(* earlier morsel or from an earlier source table would make them repeat a *)
(* primitive whose input is gone.                                          *)
FlagClean ==
  \A t \in Threads : restartFlag[t] =>
    \/ pc[t] \in {"compiled", "cleanUp"}
    \/ pc[t] = "lookup" /\ row[t] > chunk[t].start
    \/ pc[t] = "mergeKeys" /\ mergePairs[t] # {}

(* When the interpreter updates the groups of a morsel, no pointer of the  *)
(* column dangles, however often the table was resized while the column    *)
(* was filled, and the column has one pointer per row of the morsel.       *)
PointersLive ==
  \A t \in Threads : pc[t] = "update" =>
    /\ \A i \in DOMAIN pointers[t] : Live(hashTables[t], pointers[t][i])
    /\ Len(pointers[t]) = chunk[t].end - chunk[t].start

(* Rows of a sequence of keys that belong to group k.                      *)
RowsOf(k, first, last) == Cardinality({i \in first + 1 .. last : input[i] = k})

(* The rows of its morsel that worker t has not yet folded into its table. *)
Outstanding(t, k) ==
  CASE pc[t] = "compiled" -> RowsOf(k, row[t], chunk[t].end)
    [] pc[t] \in {"lookup", "update"} -> RowsOf(k, chunk[t].start, chunk[t].end)
    [] OTHER -> 0

(* Every row that was picked is counted exactly once: in the table of the  *)
(* worker that picked it or, still, in that worker's morsel. A morsel that *)
(* is restarted, or a table that is resized, neither loses nor repeats it. *)
RowsCountedOnce ==
  preMerge = << >> => \A k \in Keys :
    RowsOf(k, 0, Min({startIdx, Len(input)})) =
      SumFunction([t \in Threads |-> hashTables[t].sum[k] + Outstanding(t, k)])

(* After the merge no two tables hold the same group, and every group of   *)
(* the input is found in some table: the reading pipeline scans each once. *)
GroupsUnique ==
  AllAt("read") => \A k \in Keys :
    Cardinality({t \in Threads : k \in hashTables[t].keys})
      = IF \E i \in DOMAIN input : input[i] = k THEN 1 ELSE 0

(* The aggregate of every group that the reading pipeline sees.            *)
Result(k) == SumFunction([t \in Threads |-> hashTables[t].sum[k]])

(* What the aggregation promises: the result counts every row of a group.  *)
(* AggregationMerger.h: "Since the same key can be stored in multiple      *)
(* thread-local hash tables, we need to merge the state."                  *)
MergeExact ==
  AllAt("read") => \A k \in Keys : Result(k) = RowsOf(k, 0, Len(input))

(* The result is exact if no merge table had to be resized, whatever the   *)
(* workers did to their own tables.                                        *)
MergeExactIfSized ==
  (preMerge = << >> \/ \A t \in Threads : hashTables[t].gen = 0) => MergeExact

(* No morsel is restarted for ever: the aggregation ends.                  *)
AggregationEnds == <>AllAt("read")
=============================================================================
