------------------------------- MODULE ChunkFlow -------------------------------
(***************************************************************************)
(* The rows of one pipeline on their way through a thread's fuse chunk: a  *)
(* column per IU, which runners read and append to. The interpreter runs   *)
(* one suboperator after the other on a morsel, relaxed operator fusion    *)
(* compiled intervals and lookups between them, compiled code everything at*)
(* once. A hybrid pipeline begins with the interpreter, and uses either    *)
(* from when the code is there. They share the chunk, morsel by morsel.    *)
(*                                                                         *)
(* The interpreter does not copy what it scans: it points the column into  *)
(* the table. So a column is its length and where its data is: in memory of*)
(* its own (0), or in the table from a row on. Sinks write where a column's*)
(* data was when they were set up.                                         *)
(*                                                                         *)
(* A value is the row it was computed from; 0 is a value that is wrong.    *)
(* Every row finds one partner, and at most one filter drops rows.         *)
(***************************************************************************)
EXTENDS Repiping

CONSTANTS
  MorselRows,  (* DEFAULT_CHUNK_SIZE                                        *)
  SourceRows   (* rows of the pipeline's source                             *)

ASSUME ChunkAssumption == MorselRows \in Nat \ {0} /\ SourceRows \in Nat \ {0}

VARIABLES
  flow,          (* the pipeline that runs, in which mode, and what it drops*)
  columns,       (* Column, by IU: where its data is, its size, its memory  *)
  stored,        (* the columns of the table that is scanned                *)
  saved,         (* ZeroCopyScanState::fuse_chunk_ptrs, by IU               *)
  interpreters,  (* PipelineExecutor::interpreters, by suboperator          *)
  compiled,      (* AsyncCompileState::compiled, by interval                *)
  picked,        (* rows that were picked so far                            *)
  morsel,        (* those of the current morsel                             *)
  pending,       (* runners that the morsel has still to go through         *)
  output         (* rows that were printed                                  *)

chunkVars == <<columns, stored, saved>>
runnerVars == <<interpreters, compiled>>
morselVars == <<picked, morsel, pending, output>>
flowVars == <<flow, chunkVars, runnerVars, morselVars>>

NoFlow == [mode |-> "none", subops |-> << >>, drops |-> {}]
NotStarted ==
  /\ flow = NoFlow /\ columns = << >> /\ stored = << >> /\ saved = << >>
  /\ interpreters = << >> /\ compiled = << >>
  /\ picked = 0 /\ morsel = << >> /\ pending = << >> /\ output = << >>

-----------------------------------------------------------------------------
(* Columns: FuseChunk, and the chunk that ExecutionContext sets up.        *)

Own == 0
NewColumn == [at |-> Own, size |-> 0, memory |-> [k \in 1..MorselRows |-> 0]]
IUsOf(ops) == UNION {ToSet(NotVoid(s.outs)) : s \in ToSet(ops)}
NewChunk(ops) == [iu \in IUsOf(ops) |-> NewColumn]
Scanned(ops) == UNION {ToSet(s.outs) : s \in {p \in ToSet(ops) : p.sort = "TScanIUProvider"}}

ClearColumns_Keeps(cols) == cols
ClearColumns(cols) == [iu \in DOMAIN cols |-> [cols[iu] EXCEPT !.size = 0]]

ValueAt(memory, k) == IF k \in DOMAIN memory THEN memory[k] ELSE 0
Slot(iu, k) ==
  IF columns[iu].at = Own THEN ValueAt(columns[iu].memory, k)
  ELSE ValueAt(stored[iu], columns[iu].at + k - 1)
Content(iu) == [k \in 1..columns[iu].size |-> Slot(iu, k)]

(* What is in memory after values were written to it, from a slot on.      *)
Over(memory, from, rows) ==
  [k \in DOMAIN memory |-> IF k - from + 1 \in DOMAIN rows THEN rows[k - from + 1] ELSE memory[k]]

-----------------------------------------------------------------------------
(* Runners: a pipeline, with the states its suboperators were set up with. *)
(* A sink keeps the address of its column's data at that time.             *)

Runner(ops, cols) ==
  LET OfSort(sort) == SelectSeq(ops, LAMBDA s : s.sort = sort)
      sinks == OfSort("FuseChunkSink")
      providers == OfSort("FuseChunkSourceIUProvider")
  IN [reads |-> [k \in DOMAIN providers |-> providers[k].outs[1]],
      sinks |-> [iu \in {s.ins[1] : s \in ToSet(sinks)} |-> cols[iu].at],
      filters |-> ToSet(OfSort("ColumnFilterScope")),
      packsInto |-> {s.ins[2] : s \in ToSet(OfSort("KeyPacker"))},
      scans |-> OfSort("TScanDriver") # << >>,
      restarts |-> \E s \in ToSet(ops) : s.fct \in {"ht_sk_lookup_or_insert", "ht_ck_lookup_or_insert"}]

(* What a morsel goes through: an interpreter, by its suboperator, or the  *)
(* code of an interval.                                                    *)
Step(kind, k) == [kind |-> kind, k |-> k, again |-> FALSE]
Steps(kind, ks) == [j \in DOMAIN ks |-> Step(kind, ks[j])]
InterpretedSteps(ops) ==
  Steps("interpreted", SelectSeq([k \in DOMAIN ops |-> k], LAMBDA k : k \in Interpreted(ops)))
FusedSteps == Steps("compiled", <<1>>)
ROFSteps(ops) ==
  LET intervals == JITIntervals(ops)
      BeginsAt(k) == SelectSeq([j \in DOMAIN intervals |-> j], LAMBDA j : intervals[j][1] + 1 = k)
      Inside(k) == \E j \in DOMAIN intervals : k \in (intervals[j][1] + 1)..intervals[j][2]
  IN FlattenSeq([k \in DOMAIN ops |->
       Steps("compiled", BeginsAt(k))
         \o (IF k \in Interpreted(ops) /\ ~Inside(k) THEN <<Step("interpreted", k)>> ELSE << >>)])

-----------------------------------------------------------------------------
(* runPipeline: what is set up before the first morsel.                    *)

Modes == {"Interpreted", "Fused", "Hybrid", "ROF"}
Start(ops, mode, dropping) ==
  LET chunk == NewChunk(ops)
      rof == ROFPipelines(ops)
  IN /\ flow' = [mode |-> mode, subops |-> ops, drops |-> dropping]
     /\ columns' = chunk
     /\ stored' = [iu \in Scanned(ops) |-> [row \in 1..SourceRows |-> row]]
     /\ saved' = [iu \in Scanned(ops) |-> << >>]
     /\ interpreters' = IF mode = "Fused" THEN << >>
                        ELSE [k \in Interpreted(ops) |-> Runner(InterpretedPipeline(ops, k), chunk)]
     /\ compiled' = CASE mode = "Fused" -> <<Runner(FusedPipeline(ops), chunk)>>
                      [] mode = "ROF" -> [j \in DOMAIN rof |-> Runner(rof[j], chunk)]
                      [] OTHER -> << >>
     /\ UNCHANGED morselVars
Filters(ops) == {s \in ToSet(ops) : s.sort = "ColumnFilterScope"}
StartFlow ==
  /\ phase = "run" /\ flow = NoFlow
  /\ \E p \in DOMAIN pipelines, mode \in Modes :
       \E dropping \in {{}} \cup {{s} : s \in Filters(pipelines[p].subops)} :
         Start(pipelines[p].subops, mode, dropping)
  /\ UNCHANGED vars

Flowing == flow.mode \in Modes /\ UNCHANGED <<vars, flow>>
BetweenMorsels == morsel = << >>

(* The source is shared by the runners, and so is the morsel.              *)
Pick(steps) ==
  LET end == IF picked + MorselRows < SourceRows THEN picked + MorselRows ELSE SourceRows
  IN /\ picked < SourceRows
     /\ picked' = end
     /\ morsel' = [k \in 1..(end - picked) |-> picked + k]
     /\ pending' = steps
     /\ UNCHANGED output

(* The barrier of hybrid workers: code that has become ready is set up when*)
(* at least one morsel was interpreted, and runs the next.                 *)
SetUpCode ==
  /\ Flowing /\ flow.mode = "Hybrid" /\ BetweenMorsels
  /\ picked > 0 /\ compiled = << >>
  /\ compiled' = <<Runner(FusedPipeline(flow.subops), columns)>>
  /\ \/ Pick(FusedSteps)
     \/ picked = SourceRows /\ UNCHANGED morselVars
  /\ UNCHANGED <<chunkVars, interpreters>>

(* Measured throughputs decide what a hybrid pipeline uses: either may be. *)
PickMorsel ==
  /\ Flowing /\ BetweenMorsels
  /\ \/ flow.mode \in {"Interpreted", "Hybrid"} /\ Pick(InterpretedSteps(flow.subops))
     \/ flow.mode \in {"Fused", "Hybrid"} /\ compiled # << >> /\ Pick(FusedSteps)
     \/ flow.mode = "ROF" /\ Pick(ROFSteps(flow.subops))
  /\ UNCHANGED <<chunkVars, runnerVars>>

-----------------------------------------------------------------------------
(* A runner's turn.                                                        *)

turn == Head(pending)
InTurn == Flowing /\ pending # << >>
runner == IF turn.kind = "interpreted" THEN interpreters[turn.k] ELSE compiled[turn.k]
IsZeroCopyScan == turn.kind = "interpreted" /\ runner.scans
Done == pending' = Tail(pending) /\ UNCHANGED <<picked, morsel, output>>

(* The rows a runner loops over: as many as the first column it reads has. *)
Looped == IF runner.reads = << >> THEN morsel ELSE Content(runner.reads[1])
Drops(row) == row % 2 = 1
Passing(rows) == SelectSeq(rows, LAMBDA row : ~Drops(row))
Emitted == IF flow.drops \cap runner.filters = {} THEN Looped ELSE Passing(Looped)

(* Appending to the sinks' columns. Keys are packed in place, into a column*)
(* whose size the interpreter sets when it picks the morsel.               *)
Appended(cols, rows) ==
  [iu \in DOMAIN cols |->
     IF iu \in DOMAIN runner.sinks
     THEN [cols[iu] EXCEPT !.size = @ + Len(rows),
             !.memory = IF runner.sinks[iu] = Own THEN Over(@, cols[iu].size + 1, rows) ELSE @]
     ELSE IF turn.kind = "interpreted" /\ iu \in runner.packsInto
     THEN [cols[iu] EXCEPT !.size = Len(rows), !.memory = Over(@, 1, rows)]
     ELSE cols[iu]]
Sunk(cols, rows) ==
  [iu \in DOMAIN stored |->
     IF iu \in DOMAIN runner.sinks /\ runner.sinks[iu] # Own
     THEN Over(stored[iu], runner.sinks[iu] + cols[iu].size, rows) ELSE stored[iu]]

(* The first scan keeps the address of the column's own memory.            *)
Keep_Last(iu) == <<columns[iu].at>>
Keep(iu) == IF saved[iu] = << >> THEN <<columns[iu].at>> ELSE saved[iu]
RunZeroCopyScan ==
  /\ InTurn /\ IsZeroCopyScan
  /\ \E iu \in DOMAIN runner.sinks :
       /\ saved' = [saved EXCEPT ![iu] = Keep(iu)]
       /\ columns' = [columns EXCEPT ![iu].size = Len(morsel), ![iu].at = Head(morsel)]
  /\ Done
  /\ UNCHANGED <<stored, runnerVars>>

(* prepareForRerun purges the sinks' columns.                              *)
Purged_Not(cols) == cols
Purged(cols) ==
  [iu \in DOMAIN cols |-> IF iu \in DOMAIN runner.sinks THEN [cols[iu] EXCEPT !.size = 0] ELSE cols[iu]]
RunRunner ==
  /\ InTurn /\ ~IsZeroCopyScan
  /\ LET cols == IF turn.again THEN Purged(columns) ELSE columns
     IN columns' = Appended(cols, Emitted) /\ stored' = Sunk(cols, Emitted)
  /\ Done
  /\ UNCHANGED <<saved, runnerVars>>

(* A table grows under a runner that collects pointers into it: these are  *)
(* wrong, the restart flag is raised, and the interpreter runs it again.   *)
RunRestarted ==
  /\ InTurn /\ turn.kind = "interpreted" /\ runner.restarts /\ ~turn.again
  /\ LET wrong == [k \in DOMAIN Emitted |-> 0]
     IN columns' = Appended(columns, wrong) /\ stored' = Sunk(columns, wrong)
  /\ pending' = <<[turn EXCEPT !.again = TRUE]>> \o Tail(pending)
  /\ UNCHANGED <<saved, runnerVars, picked, morsel, output>>

(* The printer reads the columns of its sinks, the first for their length. *)
PrintedIUs ==
  LET sinks == SelectSeq(flow.subops, LAMBDA s : s.sort = "FuseChunkSink")
  IN [k \in DOMAIN sinks |-> sinks[k].ins[1]]
MarkMorselDone ==
  IF PrintedIUs = << >> THEN << >>
  ELSE [k \in 1..columns[PrintedIUs[1]].size |-> {Slot(iu, k) : iu \in ToSet(PrintedIUs)}]
FinishMorsel ==
  /\ Flowing /\ ~BetweenMorsels /\ pending = << >>
  /\ output' = output \o MarkMorselDone
  /\ columns' = ClearColumns(columns)
  /\ morsel' = << >>
  /\ UNCHANGED <<stored, saved, runnerVars, picked, pending>>

(* When the interpreters are destroyed, columns get their own memory back, *)
(* which is freed with them.                                               *)
EndFlow ==
  /\ flow.mode \in Modes /\ BetweenMorsels /\ picked = SourceRows
  /\ flow' = [flow EXCEPT !.mode = "ended"]
  /\ columns' = [iu \in DOMAIN columns |->
                   IF iu \in DOMAIN saved /\ saved[iu] # << >>
                   THEN [columns[iu] EXCEPT !.at = saved[iu][1]] ELSE columns[iu]]
  /\ interpreters' = << >> /\ compiled' = << >>
  /\ UNCHANGED <<vars, stored, saved, morselVars>>

Flow ==
  \/ SetUpCode \/ PickMorsel
  \/ RunZeroCopyScan \/ RunRunner \/ RunRestarted
  \/ FinishMorsel \/ EndFlow

-----------------------------------------------------------------------------
(* Properties.                                                             *)

(* Whatever runs a morsel, and whatever ran those before: every column that*)
(* a runner reads holds the rows of this morsel, all of them or those that *)
(* passed the filter, as many as every other; the columns it appends to    *)
(* are empty, and it appends where their readers will look. The table that *)
(* is scanned does not change, and columns end with memory of their own    *)
(* (Column's destructor frees it).                                         *)
InputsFresh ==
  pending # << >> =>
    /\ \A k \in DOMAIN runner.reads :
         runner.reads[k] \notin runner.packsInto => Content(runner.reads[k]) = Looped
    /\ Looped \in {morsel, Passing(morsel)}
SinksFresh ==
  pending # << >> /\ ~IsZeroCopyScan =>
    \A iu \in DOMAIN runner.sinks :
      /\ runner.sinks[iu] = columns[iu].at
      /\ ~turn.again => columns[iu].size = 0
TableUnchanged == \A iu \in DOMAIN stored : \A row \in DOMAIN stored[iu] : stored[iu][row] = row
MemoryOwned == flow.mode = "ended" => \A iu \in DOMAIN columns : columns[iu].at = Own

(* After every morsel, the rows that were picked and passed are printed,   *)
(* each once and in all of its columns, in every mode: the result that     *)
(* test_scan_expr_filter.cpp expects of each of them.                      *)
PrintedFresh ==
  BetweenMorsels /\ PrintedIUs # << >> =>
    LET rows == [k \in 1..picked |-> k]
        passed == IF flow.drops = {} THEN rows ELSE Passing(rows)
    IN output = [k \in DOMAIN passed |-> {passed[k]}]

ColumnsFresh == InputsFresh /\ SinksFresh /\ TableUnchanged /\ MemoryOwned /\ PrintedFresh
=============================================================================
