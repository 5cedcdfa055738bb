------------------------------- MODULE Repiping -------------------------------
(***************************************************************************)
(* How a range of a pipeline's suboperators becomes a pipeline of its own: *)
(* the columns it needs come from fuse chunks, those it leaves go to fuse  *)
(* chunks. Pipelines are repiped as a whole for compiled code, from the end*)
(* of one lookup to the next for relaxed operator fusion, and suboperator  *)
(* by suboperator for the interpreter.                                     *)
(***************************************************************************)
EXTENDS PipelineDAG, FiniteSetsExt

IsVoid(iu) == iu.ty = "void"
NotVoid(ius) == SelectSeq(ius, LAMBDA iu : ~IsVoid(iu))
Once(ius) == FoldLeft(LAMBDA done, iu : IF Contains(done, iu) THEN done ELSE Append(done, iu), << >>, ius)

(* Suboperators that cannot be separated from the one that reads them, or  *)
(* from the one they read.                                                 *)
OutgoingStrongLinks(s) ==
  s.sort \in {"TScanDriver", "FuseChunkSourceDriver", "ColumnFilterScope", "ScratchPad"}
IncomingStrongLinks(s) ==
  s.sort \in {"TScanIUProvider", "FuseChunkSourceIUProvider", "ColumnFilterLogic"}

-----------------------------------------------------------------------------
(* The graph of a pipeline: one edge per IU that is read and provided here.*)

Producers(subops, i) ==
  LET Providers(iu) == {j \in 1..(i - 1) : Contains(subops[j].outs, iu)}
      read == SelectSeq(subops[i].ins, LAMBDA iu : Providers(iu) # {})
  IN [k \in DOMAIN read |-> Max(Providers(read[k]))]
Consumers(subops, i) ==
  FlattenSeq([j \in DOMAIN subops |-> SelectSeq(
    [k \in DOMAIN Producers(subops, j) |-> IF Producers(subops, j)[k] = i THEN j ELSE 0],
    LAMBDA c : c # 0)])

-----------------------------------------------------------------------------
(* Repiping.                                                               *)

DriverIU == Internal("", "driver_idx", "u8", 8)
FuseChunkSourceDriver == Subop("FuseChunkSourceDriver", "", << >>, <<DriverIU>>, << >>)
FuseChunkSourceIUProvider(iu) ==
  Subop("FuseChunkSourceIUProvider", "", <<DriverIU>>, <<iu>>, << >>)
FuseChunkSink(iu) == Subop("FuseChunkSink", "", <<iu>>, << >>, << >>)

(* The driver is built for any IU that is missing, pseudo IUs included;    *)
(* these have no column.                                                   *)
FuseChunkSources(ius) ==
  IF ius = << >> THEN << >>
  ELSE <<FuseChunkSourceDriver>>
         \o [i \in DOMAIN NotVoid(ius) |-> FuseChunkSourceIUProvider(NotVoid(ius)[i])]

(* What is read in the range and not provided by it, in the order in which *)
(* it is first read; the materializer, if first, reads one IU only.        *)
RequiredIn(incoming, range) ==
  LET given == IF incoming = << >> THEN {} ELSE {incoming[1].outs[1]}
      Missing(i) == SelectSeq(range[i].ins, LAMBDA iu : iu \notin given \cup Provided(range, i))
  IN IF Head(range).sort = "materialize_tuple" THEN <<Head(range).ins[1]>>
     ELSE Once(FlattenSeq([i \in DOMAIN incoming |-> incoming[i].ins])
                 \o FlattenSeq([i \in DOMAIN range |-> Missing(i)]))

Repipe(subops, start, end, materialize) ==
  LET range == SubSeq(subops, start + 1, end)
      incoming == IF IncomingStrongLinks(Head(range))
                  THEN <<subops[Producers(subops, start + 1)[1]]>> ELSE << >>
      outgoing == IF OutgoingStrongLinks(Last(range))
                  THEN <<subops[Consumers(subops, end)[1]]>> ELSE << >>
  IN IF range = << >> THEN << >>
     ELSE FuseChunkSources(RequiredIn(incoming, range)) \o incoming \o range \o outgoing
            \o [i \in DOMAIN materialize |-> FuseChunkSink(materialize[i])]

(* The sinks come from a set that has no order; here, in that of the IUs.  *)
RepipeAll(subops, start, end) ==
  Repipe(subops, start, end,
    FlattenSeq([i \in 1..(end - start) |->
      LET s == subops[start + i] IN IF OutgoingStrongLinks(s) THEN << >> ELSE NotVoid(s.outs)]))
ReadAfter(subops, end) ==
  UNION {ToSet(subops[i].ins) : i \in (end + 1)..Len(subops)}
RepipeRequired(subops, start, end) ==
  LET provided == FlattenSeq([i \in 1..(end - start) |-> NotVoid(subops[start + i].outs)])
  IN Repipe(subops, start, end, SelectSeq(provided, LAMBDA iu : iu \in ReadAfter(subops, end)))

-----------------------------------------------------------------------------
(* What the backends make of a pipeline.                                   *)

FusedPipeline(subops) == RepipeRequired(subops, 0, Len(subops))

(* ROF: code is compiled up to a lookup's hash, and again after the lookup.*)
BeginsVectorized(s) == s.sort = "hash_and_prefetch"
EndsVectorized(s) == s.sort = "lookup_with_hash"
JITIntervals(subops) ==
  LET Visit(st, k) ==
        IF BeginsVectorized(subops[k])
        THEN [st EXCEPT !.vectorized = TRUE, !.done = Append(@, <<st.start, k - 1>>)]
        ELSE IF EndsVectorized(subops[k])
        THEN [st EXCEPT !.vectorized = FALSE, !.start = k]
        ELSE st
      last == FoldLeft(Visit, [start |-> 0, vectorized |-> FALSE, done |-> << >>],
                [k \in DOMAIN subops |-> k])
  IN IF last.vectorized THEN last.done ELSE Append(last.done, <<last.start, Len(subops)>>)
ROFPipelines(subops) ==
  LET intervals == JITIntervals(subops)
  IN [i \in DOMAIN intervals |-> RepipeRequired(subops, intervals[i][1], intervals[i][2])]

(* The interpreter: every suboperator on its own, but for those that have  *)
(* to be with their reader and those at fuse chunks.                       *)
IsInterpreted(s) ==
  ~OutgoingStrongLinks(s) /\ s.sort \notin {"FuseChunkSink", "FuseChunkSourceIUProvider"}
Interpreted(subops) == {k \in DOMAIN subops : IsInterpreted(subops[k])}
InterpretedPipeline(subops, k) == RepipeAll(subops, k - 1, k)

(* PipelineRunner's assertions.                                            *)
Runnable(subops) ==
  /\ subops # << >> /\ IsSource(Head(subops))
  /\ IsSink(Last(subops)) \/ IsVoid(Last(subops).outs[1])
=============================================================================
