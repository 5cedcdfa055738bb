----------------------------- MODULE PipelineDAG -----------------------------
(***************************************************************************)
(* A plan decays into pipelines of suboperators, and these are run one     *)
(* after the other. Operators append to the last pipeline; table scans and *)
(* aggregations begin a new one. A left outer join leaves a continuation:  *)
(* a pipeline that scans the join's table for rows without a match and     *)
(* goes on with everything the probe pipeline does after the lookup, with  *)
(* the same suboperators. Runtime tasks, noted with the pipeline they      *)
(* follow, build the tables of joins and merge those of aggregations.      *)
(*                                                                         *)
(* Running a pipeline moves rows. A row is described, as in QueryPlans, by *)
(* the scans it stems from; an aggregation keeps what its groups stem from.*)
(***************************************************************************)
EXTENDS Naturals, Sequences, SequencesExt

CONSTANTS
  Plans,        (* plans by name, each a root operator of QueryPlans      *)
  Runs,         (* <<name, number of threads>> to consider                *)
  WidthOf(_)    (* the bytes a sequence of IUs takes when packed          *)

ASSUME DAGAssumption ==
  \A r \in Runs : r[1] \in DOMAIN Plans /\ r[2] \in Nat \ {0}

(* Plans are trees, and decay goes through them children first: a leaf, a  *)
(* table scan, comes first. An operator decays in one call, or, a join, in *)
(* two; what decays between the two begins with a leaf of the probe side.  *)
(* Lists of IUs, of expression nodes and of granules are sequences.        *)
IsSeq(list) == list \in Seq(ToSet(list))
ListsOK(c) ==
  CASE c.call \in {"TableScan", "Print"} -> IsSeq(c.ius)
    [] c.call = "ExpressionOp" -> IsSeq(c.nodes)
    [] c.call = "Filter" -> IsSeq(c.old)
    [] c.call = "JoinBuild" -> IsSeq(c.row)
    [] c.call = "JoinProbe" -> IsSeq(c.row) /\ IsSeq(c.outLeft) /\ IsSeq(c.outRight)
    [] c.call = "Aggregation" ->
         IsSeq(c.groupBy) /\ IsSeq(c.granules) /\ IsSeq(c.keys) /\ IsSeq(c.results)
    [] OTHER -> FALSE
BeginsPipeline(c) == c.call \in {"TableScan", "Aggregation"}
ASSUME PlanAssumption ==
  \A r \in Runs :
    LET cs == Plans[r[1]].calls
    IN /\ Plans[r[1]].outs = << >>
       /\ IsSeq(cs) /\ cs # << >> /\ cs[1].call = "TableScan"
       /\ \A i \in DOMAIN cs :
            /\ ListsOK(cs[i])
            /\ \A j \in 1 .. i - 1 :
                 cs[j].op = cs[i].op => cs[j].call = "JoinBuild" /\ cs[i].call = "JoinProbe"
            /\ cs[i].call = "JoinProbe" =>
                 \E k \in 1 .. i - 1 :
                   BeginsPipeline(cs[k]) /\ \A j \in k .. i - 1 : cs[j].op # cs[i].op

(* Columns, too, go up the tree. The IUs an operator makes are its own, and*)
(* no others. It reads those of the operator below it, which are those that*)
(* expressions and filters add to what the operator below them provides.   *)
(* The second call of a join provides what it unpacks; its first, nothing. *)
MadeIUs(c) ==
  CASE c.call = "TableScan" -> c.ius
    [] c.call = "ExpressionOp" -> [i \in DOMAIN c.nodes |-> c.nodes[i].out]
    [] c.call = "Filter" -> [i \in DOMAIN c.old |-> c.new[i]]
    [] c.call = "JoinProbe" -> c.outLeft \o c.outRight
    [] c.call = "Aggregation" -> c.keys \o c.results
    [] OTHER -> << >>
ReadsOnly(c, ius) ==
  CASE c.call = "ExpressionOp" ->
         \A i \in DOMAIN c.nodes :
           ToSet(c.nodes[i].ins) \subseteq ius \cup {c.nodes[j].out : j \in 1 .. i - 1}
    [] c.call = "Filter" -> {c.cond} \cup ToSet(c.old) \subseteq ius
    [] c.call \in {"JoinBuild", "JoinProbe"} -> ToSet(c.row) \subseteq ius
    [] c.call = "Aggregation" ->
         ToSet(c.groupBy) \cup {c.granules[i].iu : i \in DOMAIN c.granules} \subseteq ius
    [] c.call = "Print" -> ToSet(c.ius) \subseteq ius
    [] OTHER -> TRUE
Visible(cs, n) ==
  UNION {ToSet(MadeIUs(cs[i])) :
           i \in {j \in 1 .. n : \A k \in j + 1 .. n : cs[k].call \in {"ExpressionOp", "Filter"}}}

(* What suboperators name the IUs that they make for themselves.           *)
OwnParts == {"loop", "pseudo", "filter_pseudo", "lookup_left", "scratch_pad_right", "hash_right",
             "lookup_right", "filtered_build", "filtered_probe", "packed_ht_key",
             "agg_pointer_result", "ht_scan_result"}

(* A scan begins a plan and the probe side of a join, and nothing else; the*)
(* printer ends it. Joins build on columns; an aggregation computes some   *)
(* (asserted in Aggregation::plan), a semi join has no payload on the probe*)
(* side (asserted in Join::plan), a printer has columns (or it throws).    *)
ASSUME ColumnsAssumption ==
  \A r \in Runs :
    LET cs == Plans[r[1]].calls
    IN \A i \in DOMAIN cs :
         /\ \A j \in DOMAIN MadeIUs(cs[i]) :
              /\ MadeIUs(cs[i])[j].op = cs[i].op /\ MadeIUs(cs[i])[j].part \notin OwnParts
              /\ \A k \in 1 .. j - 1 : MadeIUs(cs[i])[k] # MadeIUs(cs[i])[j]
         /\ ReadsOnly(cs[i], Visible(cs, i - 1))
         /\ i > 1 => (cs[i].call = "TableScan" <=> cs[i - 1].call = "JoinBuild")
         /\ cs[i].call = "Print" <=> i = Len(cs)
         /\ cs[i].call = "JoinBuild" => cs[i].row # << >>
         /\ cs[i].call = "JoinProbe" /\ cs[i].type = "LeftSemi" => cs[i].outRight = << >>
         /\ cs[i].call = "Aggregation" => cs[i].granules # << >>
         /\ cs[i].call = "Print" => cs[i].ius # << >>

VARIABLES
  plan, threads,   (* the query: its root, and how many threads run it    *)
  decayed,         (* calls of decay done so far                          *)
  pipelines,       (* PipelineDAG::pipelines                              *)
  continuations,   (* PipelineDAG::continuations                          *)
  runtimeTasks,    (* PipelineDAG::runtime_tasks                          *)
  phase,           (* what the query does                                 *)
  pipeIdx,         (* StepwiseExecutor::runQuery's pipeline_idx, from 0   *)
  nextTask,        (* its rt_tasks_it                                     *)
  written,         (* rows that threads have written, by operator         *)
  built,           (* rows in the tables that runtime tasks make          *)
  printed          (* rows that reached the printer                       *)

dagVars == <<decayed, pipelines, continuations, runtimeTasks>>
runVars == <<pipeIdx, nextTask, written, built, printed>>
vars == <<plan, threads, dagVars, phase, runVars>>

calls == plan.calls
Operators == {calls[i].op : i \in DOMAIN calls}

Init ==
  /\ \E r \in Runs : plan = Plans[r[1]] /\ threads = r[2]
  /\ decayed = 0
  /\ pipelines = << >> /\ continuations = << >> /\ runtimeTasks = << >>
  /\ phase = "decay"
  /\ pipeIdx = 0 /\ nextTask = 1
  /\ written = [o \in Operators |-> {}]
  /\ built = [o \in Operators |-> {}]
  /\ printed = {}

-----------------------------------------------------------------------------
(* Suboperators: what they are, the operator they stem from, the IUs they  *)
(* read and provide, and the bytes of a packed row that they touch, as     *)
(* pairs of an offset (their runtime parameter) and a width. Some call a   *)
(* function, or take one of a type: fct names it, ty the type.             *)

Subop(sort, op, ins, outs, bytes) ==
  [sort |-> sort, op |-> op, ins |-> ins, outs |-> outs, bytes |-> bytes,
   fct |-> "", ty |-> ""]
Calling(fct, ty, s) == [s EXCEPT !.fct = fct, !.ty = ty]
IsSource(s) == s.ins = << >>
IsSink(s) == s.outs = << >>

Internal(op, part, ty, size) ==
  [op |-> op, part |-> part, id |-> <<"", 0>>, ty |-> ty, size |-> size]
Pseudo(op, i) == [Internal(op, "pseudo", "void", 0) EXCEPT !.id = <<"", i>>]
Pointer(op, part) == Internal(op, part, "ptr", 8)
ByteArray(op, part, row) == Internal(op, part, "bytes", WidthOf(row))

(* The bytes of the i-th when the first of them starts at base.            *)
BytesOf(base, row, i) == << <<base + WidthOf(SubSeq(row, 1, i - 1)), row[i].size>> >>

Pack(op, row, into, pseudo) ==
  [i \in DOMAIN row |->
     Subop("KeyPacker", op, <<row[i], into>>, pseudo[i], BytesOf(0, row, i))]
Unpack(op, from, row) ==
  [i \in DOMAIN row |->
     Subop("KeyUnpacker", op, <<from>>, <<row[i]>>, BytesOf(0, row, i))]
NoPseudo(row) == [i \in DOMAIN row |-> << >>]
PseudoIUs(op, row) == [i \in DOMAIN row |-> Pseudo(op, i)]
PseudoFor(op, row) == [i \in DOMAIN row |-> <<Pseudo(op, i)>>]

ScanSubops(c) ==
  LET loop == Internal(c.op, "loop", "u8", 8)
  IN <<Subop("TScanDriver", c.op, << >>, <<loop>>, << >>)>>
       \o [i \in DOMAIN c.ius |-> Subop("TScanIUProvider", c.op, <<loop>>, <<c.ius[i]>>, << >>)]

ExpressionSubops(c) ==
  [i \in DOMAIN c.nodes |->
     LET n == c.nodes[i]
         sort == IF Len(n.ins) = 1 THEN "RuntimeExpression" ELSE "Expression"
     IN Calling(n.code, n.ty, Subop(sort, c.op, n.ins, <<n.out>>, << >>))]

(* Rows are filtered under a pseudo IU that stands for the if.             *)
FilterSubops(op, ty, cond, pseudo, old, new) ==
  <<Subop("ColumnFilterScope", op, <<cond>>, <<pseudo>>, << >>)>>
    \o [i \in DOMAIN old |->
          Calling(IF ty = "ptr" /\ old[i] = cond THEN "filters_itself" ELSE "", ty,
            Subop("ColumnFilterLogic", op, <<pseudo, old[i]>>, <<new[i]>>, << >>))]
FilterPseudo(op) == Internal(op, "filter_pseudo", "void", 0)

BuildSubops(c) ==
  LET slot == Pointer(c.op, "lookup_left")
  IN <<Calling("materialize_tuple", "", Subop("materialize_tuple", c.op, c.row, <<slot>>, << >>))>>
       \o Pack(c.op, c.row, slot, NoPseudo(c.row))

(* The probe side of a join, up to the lookup and from the lookup on.      *)
ScratchPad(c) == ByteArray(c.op, "scratch_pad_right", c.row)
LookupResult(c) == Pointer(c.op, "lookup_right")
HashFunction(keyWidth) ==
  CASE keyWidth = 4 -> "ht_at_sk_compute_hash_and_prefetch_fixed_4"
    [] keyWidth = 8 -> "ht_at_sk_compute_hash_and_prefetch_fixed_8"
    [] OTHER -> "ht_at_sk_compute_hash_and_prefetch"
LookupFunction(c) ==
  IF c.type = "LeftSemi" THEN "ht_at_sk_lookup_with_hash_disable"
  ELSE "ht_at_sk_lookup_with_hash"
LookupSubops(c) ==
  LET hash == Internal(c.op, "hash_right", "u8", 8)
  IN <<Subop("ScratchPad", c.op, << >>, <<ScratchPad(c)>>, << >>)>>
       \o Pack(c.op, c.row, ScratchPad(c), PseudoFor(c.op, c.row))
       \o <<Calling(HashFunction(c.keyWidth), "", Subop("hash_and_prefetch", c.op,
              <<ScratchPad(c)>> \o PseudoIUs(c.op, c.row), <<hash>>, << >>)),
            Calling(LookupFunction(c), "", Subop("lookup_with_hash", c.op,
              <<ScratchPad(c), hash>>, <<LookupResult(c)>>, << >>))>>
MatchSubops(c) ==
  LET build == Pointer(c.op, "filtered_build")
      probe == Pointer(c.op, "filtered_probe")
      semi == c.type = "LeftSemi"
  IN FilterSubops(c.op, "ptr", LookupResult(c), FilterPseudo(c.op),
       <<LookupResult(c)>> \o (IF semi THEN << >> ELSE <<ScratchPad(c)>>),
       <<build>> \o (IF semi THEN << >> ELSE <<probe>>))
     \o Unpack(c.op, build, c.outLeft) \o Unpack(c.op, probe, c.outRight)
UnmatchedSource(c) ==
  Calling("at_sk", "",
    Subop("AtomicHashTableSource", c.op, << >>, <<LookupResult(c), ScratchPad(c)>>, << >>))

(* The pipeline that aggregates, and the one that reads the groups. Only a *)
(* single key is not packed: the table stores it as it is. If that key is a*)
(* string, the table is one that compares what keys point to.              *)
ComplexKey(keys) == Len(keys) = 1 /\ keys[1].ty = "str"
AggregateSubops(c) ==
  LET packed == ByteArray(c.op, "packed_ht_key", c.groupBy)
      group == Pointer(c.op, "agg_pointer_result")
      pseudo == PseudoFor(c.op, c.groupBy)
      function == CASE c.groupBy = << >> -> "ht_nk_lookup"
                    [] ComplexKey(c.groupBy) -> "ht_ck_lookup_or_insert"
                    [] OTHER -> "ht_sk_lookup_or_insert"
      Lookup(ins, bytes) ==
        <<Calling(function, "", Subop("lookup_or_insert", c.op, ins, <<group>>, bytes))>>
  IN (IF Len(c.groupBy) = 1 THEN Lookup(c.groupBy, BytesOf(0, c.groupBy, 1))
      ELSE <<Subop("ScratchPad", c.op, << >>, <<packed>>, << >>)>>
             \o Pack(c.op, c.groupBy, packed, pseudo)
             \o Lookup(IF c.groupBy = << >> THEN <<c.granules[1].iu>>
                       ELSE <<packed>> \o PseudoIUs(c.op, c.groupBy), << >>))
     \o [i \in DOMAIN c.granules |->
           Calling(c.granules[i].state, "", Subop("Aggregator", c.op,
             <<group, c.granules[i].iu>>, << >>, BytesOf(c.first, c.granules, i)))]
ReadGroupsSubops(c) ==
  LET group == Pointer(c.op, "ht_scan_result")
  IN <<Calling(IF ComplexKey(c.keys) THEN "ck" ELSE "sk", "",
         Subop("HashTableSource", c.op, << >>, <<group>>, << >>))>>
       \o Unpack(c.op, group, c.keys)
       \o [i \in DOMAIN c.results |->
             Calling(IF Len(c.reads[i]) = 1 THEN "unpack" ELSE "avg", c.types[i],
               Subop("AggReader", c.op, <<group>>, <<c.results[i]>>, c.reads[i]))]

PrintSubops(c) == [i \in DOMAIN c.ius |-> Subop("FuseChunkSink", c.op, <<c.ius[i]>>, << >>, << >>)]

-----------------------------------------------------------------------------
(* Building the DAG.                                                       *)

EmptyPipeline == [subops |-> << >>, parallel |-> TRUE]
AppendTo(pipe, subops) == [pipe EXCEPT !.subops = @ \o subops]
Attach(pipes, subops) == [pipes EXCEPT ![Len(pipes)] = AppendTo(@, subops)]

(* Continuations get what the last pipeline did from their index on.       *)
CloseContinuation_OneTooMany(pipes, c) ==
  LET current == Last(pipes).subops
  IN Append(pipes, AppendTo(c.pipe, SubSeq(current, c.index, Len(current))))
CloseContinuation_PushFront(pipes, c) ==
  LET current == Last(pipes).subops
  IN Front(pipes) \o <<AppendTo(c.pipe, SubSeq(current, c.index + 1, Len(current))), Last(pipes)>>
CloseContinuation(pipes, c) ==
  LET current == Last(pipes).subops
  IN Append(pipes, AppendTo(c.pipe, SubSeq(current, c.index + 1, Len(current))))
BuildNewPipeline_Forgets(pipes) == Append(pipes, EmptyPipeline)
BuildNewPipeline(pipes) ==
  Append(FoldLeft(CloseContinuation, pipes, continuations), EmptyPipeline)

(* Neither the pipeline nor its continuation may generate code in parallel *)
(* with others: they share suboperators.                                   *)
StopParallelCodegen_Missing(pipes) == pipes
StopParallelCodegen(pipes) == [pipes EXCEPT ![Len(pipes)].parallel = FALSE]
AttachContinuation(index, source) ==
  Append(continuations,
    [index |-> index, pipe |-> [subops |-> <<source>>, parallel |-> FALSE]])

(* A task that follows what is then the last pipeline, numbered from 0.    *)
AddRuntimeTask_OffByOne(op, does) ==
  Append(runtimeTasks, [op |-> op, does |-> does, after |-> Len(pipelines)])
AddRuntimeTask_PushFront(op, does) ==
  <<[op |-> op, does |-> does, after |-> Len(pipelines) - 1]>> \o runtimeTasks
AddRuntimeTask(op, does) ==
  Append(runtimeTasks, [op |-> op, does |-> does, after |-> Len(pipelines) - 1])

(* The next call of decay, one of this kind.                               *)
NextCall == calls[decayed + 1]
Decaying(call) ==
  /\ phase = "decay" /\ decayed < Len(calls) /\ NextCall.call = call
  /\ decayed' = decayed + 1
  /\ UNCHANGED <<plan, threads, phase, runVars>>

AttachToCurrent(subops) ==
  /\ pipelines' = Attach(pipelines, subops)
  /\ UNCHANGED <<continuations, runtimeTasks>>

DecayTableScan ==
  /\ Decaying("TableScan")
  /\ pipelines' = Attach(BuildNewPipeline(pipelines), ScanSubops(NextCall))
  /\ continuations' = << >>
  /\ UNCHANGED runtimeTasks

DecayExpressionOp ==
  /\ Decaying("ExpressionOp") /\ AttachToCurrent(ExpressionSubops(NextCall))

DecayFilter ==
  /\ Decaying("Filter")
  /\ LET c == NextCall
     IN AttachToCurrent(FilterSubops(c.op, "bool", c.cond, FilterPseudo(c.op), c.old, c.new))

DecayBuildSide ==
  /\ Decaying("JoinBuild")
  /\ pipelines' = Attach(pipelines, BuildSubops(NextCall))
  /\ runtimeTasks' = AddRuntimeTask(NextCall.op, "build")
  /\ UNCHANGED continuations

DecayProbeSide ==
  /\ Decaying("JoinProbe") /\ NextCall.type # "LeftOuter"
  /\ AttachToCurrent(LookupSubops(NextCall) \o MatchSubops(NextCall))

(* The continuation is attached between the lookup and the filter.         *)
DecayOuterProbeSide ==
  /\ Decaying("JoinProbe") /\ NextCall.type = "LeftOuter"
  /\ LET upToLookup == Attach(pipelines, LookupSubops(NextCall))
         at == Len(Last(upToLookup).subops)
     IN /\ pipelines' =
             Attach(StopParallelCodegen(upToLookup), MatchSubops(NextCall))
        /\ continuations' = AttachContinuation(at, UnmatchedSource(NextCall))
  /\ UNCHANGED runtimeTasks

DecayAggregation ==
  /\ Decaying("Aggregation")
  /\ LET aggregating == Attach(pipelines, AggregateSubops(NextCall))
     IN pipelines' = Attach(BuildNewPipeline(aggregating), ReadGroupsSubops(NextCall))
  /\ continuations' = << >>
  /\ runtimeTasks' = AddRuntimeTask(NextCall.op, "merge")

DecayPrint ==
  /\ Decaying("Print") /\ AttachToCurrent(PrintSubops(NextCall))

(* All executors are set up, then the query runs.                          *)
Decayed == phase = "decay" /\ decayed = Len(calls)
PrepareQuery ==
  /\ Decayed
  /\ phase' = "run"
  /\ UNCHANGED <<plan, threads, dagVars, runVars>>

-----------------------------------------------------------------------------
(* Running the pipelines.                                                  *)

Current == pipelines[pipeIdx + 1].subops

(* What the source of a pipeline finds: a single thread's groups are read  *)
(* where they were made.                                                   *)
Readable(s) ==
  IF s.sort = "HashTableSource" /\ threads = 1 THEN written[s.op] ELSE built[s.op]

(* What a table scan, the reader of a table and a lookup make of the rows  *)
(* that reach them. Other suboperators change columns and nothing else     *)
(* here: a filter drops rows, but no kind of row for good.                 *)
RowsAfter(rows, s) ==
  CASE s.sort = "TScanDriver" -> {{s.op}}
    [] s.sort \in {"HashTableSource", "AtomicHashTableSource"} -> Readable(s)
    [] s.sort = "lookup_with_hash" -> {row \cup match : row \in rows, match \in built[s.op]}
    [] OTHER -> rows
RowsReaching(i) == FoldLeft(RowsAfter, {}, SubSeq(Current, 1, i - 1))
RowsAt(sorts, op) ==
  UNION {RowsReaching(i) : i \in {j \in DOMAIN Current : Current[j].sort \in sorts /\ Current[j].op = op}}

RunPipeline ==
  /\ phase = "run"
  /\ written' = [o \in Operators |->
                   written[o] \cup RowsAt({"materialize_tuple", "lookup_or_insert"}, o)]
  /\ printed' = printed \cup UNION {RowsAt({"FuseChunkSink"}, o) : o \in Operators}
  /\ phase' = "tasks"
  /\ UNCHANGED <<plan, threads, dagVars, pipeIdx, nextTask, built>>

(* A build moves what was materialized into the join's table; so does a    *)
(* merge, from the tables of the threads into those that are read. A single*)
(* thread has nothing to merge.                                            *)
Due == nextTask \in DOMAIN runtimeTasks /\ runtimeTasks[nextTask].after <= pipeIdx
RunRuntimeTask ==
  /\ phase = "tasks" /\ Due
  /\ LET task == runtimeTasks[nextTask]
     IN built' = IF task.does = "merge" /\ threads = 1 THEN built
                 ELSE [built EXCEPT ![task.op] = written[task.op]]
  /\ nextTask' = nextTask + 1
  /\ UNCHANGED <<plan, threads, dagVars, phase, pipeIdx, written, printed>>

NextPipeline ==
  /\ phase = "tasks" /\ ~Due
  /\ pipeIdx' = pipeIdx + 1
  /\ phase' = IF pipeIdx' = Len(pipelines) THEN "done" ELSE "run"
  /\ UNCHANGED <<plan, threads, dagVars, nextTask, written, built, printed>>

Decay ==
  \/ DecayTableScan \/ DecayExpressionOp \/ DecayFilter
  \/ DecayBuildSide \/ DecayProbeSide \/ DecayOuterProbeSide
  \/ DecayAggregation \/ DecayPrint

Next ==
  \/ Decay
  \/ PrepareQuery \/ RunPipeline \/ RunRuntimeTask \/ NextPipeline

Spec == Init /\ [][Next]_vars

-----------------------------------------------------------------------------
(* Properties. Those of the pipelines are stated where all of them are     *)
(* built: they do not change when the query runs.                          *)

(* Types: calls are counted, continuations point into the last pipeline,   *)
(* tasks name pipelines.                                                   *)
TypeOK ==
  /\ plan.outs = << >> /\ threads \in Nat \ {0}
  /\ phase \in {"decay", "run", "tasks", "done"}
  /\ decayed \in 0..Len(calls)
  /\ \A i \in DOMAIN pipelines : pipelines[i].parallel \in BOOLEAN
  /\ \A i \in DOMAIN continuations :
       continuations[i].index \in 0..Len(Last(pipelines).subops)
  /\ \A i \in DOMAIN runtimeTasks : runtimeTasks[i].after \in 0..(Len(pipelines) - 1)
  /\ pipeIdx \in 0..Len(pipelines) /\ nextTask \in 1..(Len(runtimeTasks) + 1)
  /\ \A rows \in {printed} \cup {written[o] : o \in Operators} \cup {built[o] : o \in Operators} :
       rows \subseteq SUBSET Operators

(* A pipeline, a continuation too, can be compiled on its own: it begins   *)
(* with a source and ends in sinks (PipelineExecutor's assertions), every  *)
(* IU that a suboperator reads comes from one before it, and no IU from two*)
(* ("IU SSA" in Pipeline::repipe).                                         *)
Provided(subops, i) == UNION {ToSet(subops[j].outs) : j \in 1..(i - 1)}
Closed ==
  Decayed => \A p \in DOMAIN pipelines :
    LET subops == pipelines[p].subops
    IN /\ subops # << >> /\ IsSource(Head(subops)) /\ IsSink(Last(subops))
       /\ \A i \in DOMAIN subops :
            /\ ToSet(subops[i].ins) \subseteq Provided(subops, i)
            /\ ToSet(subops[i].outs) \cap Provided(subops, i) = {}

(* Closed holds of plans in which every pipeline probes for one left outer *)
(* join at most: a second continuation is not closed from the pipeline that*)
(* probed, but from the first one.                                         *)
OuterProbe(c) == c.call = "JoinProbe" /\ c.type = "LeftOuter"
OneOuterJoin ==
  \A i, j \in DOMAIN calls :
    i < j /\ OuterProbe(calls[i]) /\ OuterProbe(calls[j]) =>
      \E k \in i + 1 .. j - 1 : BeginsPipeline(calls[k])

(* What is unpacked from a row, or read from a group's state, was put there*)
(* at the same bytes, by suboperators of another pipeline that computed    *)
(* their offsets on their own; and no two of those touch the same byte.    *)
RowOf == [lookup_left |-> "build", filtered_build |-> "build",
          scratch_pad_right |-> "probe", filtered_probe |-> "probe",
          packed_ht_key |-> "group", agg_pointer_result |-> "group",
          ht_scan_result |-> "group"]
BytesIn(s, ptr) == {[op |-> s.op, row |-> RowOf[ptr.part], from |-> b[1], width |-> b[2]] : b \in ToSet(s.bytes)}
AllSubops == UNION {ToSet(pipelines[p].subops) : p \in DOMAIN pipelines}
PutBy(s) == CASE s.sort = "KeyPacker" -> BytesIn(s, s.ins[2])
              [] s.sort = "Aggregator" -> BytesIn(s, s.ins[1])
              [] s.sort = "lookup_or_insert" -> BytesIn(s, s.outs[1])
              [] OTHER -> {}
ReadBy(s) == IF s.sort \in {"KeyUnpacker", "AggReader"} THEN BytesIn(s, s.ins[1]) ELSE {}
BytesPut == UNION {PutBy(s) : s \in AllSubops}
BytesRead == UNION {ReadBy(s) : s \in AllSubops}
RowsAgree ==
  Decayed =>
    /\ BytesRead \subseteq BytesPut
    /\ \A a, b \in BytesPut :
         a # b /\ a.op = b.op /\ a.row = b.row =>
           a.from + a.width <= b.from \/ b.from + b.width <= a.from

(* Pipelines that share a suboperator never generate code in parallel:     *)
(* the suboperator holds the state of a single compilation.                *)
SharedNotParallel ==
  Decayed => \A p, q \in DOMAIN pipelines :
    p # q /\ ToSet(pipelines[p].subops) \cap ToSet(pipelines[q].subops) # {} =>
      ~pipelines[p].parallel /\ ~pipelines[q].parallel

(* The pipelines are in a topological order (PipelineDAG's comment): what  *)
(* reads the table of an operator comes after everything that fills it, and*)
(* the reader of the rows without a match after all lookups that mark them.*)
Has(p, sorts, op) == \E s \in ToSet(pipelines[p].subops) : s.sort \in sorts /\ s.op = op
TopologicalOrder ==
  Decayed => \A p, q \in DOMAIN pipelines, o \in Operators :
    \/ /\ Has(p, {"lookup_with_hash", "HashTableSource", "AtomicHashTableSource"}, o)
       /\ Has(q, {"materialize_tuple", "lookup_or_insert"}, o)
    \/ Has(p, {"AtomicHashTableSource"}, o) /\ Has(q, {"lookup_with_hash"}, o)
    => q < p

(* A runtime task runs right after the pipeline it was noted for: the      *)
(* assertion in runQuery, which holds if the tasks are noted in the order  *)
(* of their pipelines. None is left when the query ends.                   *)
TasksOnTime ==
  /\ phase = "tasks" /\ Due => runtimeTasks[nextTask].after = pipeIdx
  /\ phase = "done" => nextTask = Len(runtimeTasks) + 1

(* What is printed is what the plan says, every kind of row included.      *)
ResultComplete == phase = "done" => printed = plan.rows
=============================================================================
