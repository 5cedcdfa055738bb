---------------------------- MODULE SuboperatorCode ----------------------------
(***************************************************************************)
(* The code that a suboperator s at position i of a pipeline generates. It *)
(* appends to the function's outermost block (root) and to the one that is *)
(* being built (here). Code for the interpreter knows no runtime params    *)
(* (params is FALSE) and reads them from the suboperator's state.          *)
(***************************************************************************)
EXTENDS Repiping, CodeIR

Code(root, here) == [root |-> root, here |-> here]
IsArray(iu) == iu.ty = "bytes"

(* WithRuntimeParams: a constant, or a member of the state.                *)
Resolve(params, i, struct, param) ==
  IF params THEN Const(FieldType(struct, param)) ELSE Load(i, struct, param)

-----------------------------------------------------------------------------
(* Loops. Their state is copied into variables in the outermost block; the *)
(* loop advances at the end of its body.                                   *)

IsLoop(s) ==
  s.sort \in {"TScanDriver", "FuseChunkSourceDriver", "HashTableSource", "AtomicHashTableSource"}
IsTableIterator(s) == s.sort \in {"HashTableSource", "AtomicHashTableSource"}

LoopEnd(i) == OpVar(i, "end", UI8)
LoopDriverRoot(i, s) ==
  LET index == IUVar(s.outs[1])
  IN <<Declare(index), Declare(LoopEnd(i)),
       Assign(index, Load(i, "LoopDriverState", "start")),
       Assign(LoopEnd(i), Load(i, "LoopDriverState", "end"))>>
LoopDriverCondition(i, s) == Arith("Less", VarRef(IUVar(s.outs[1])), VarRef(LoopEnd(i)))
LoopDriverAdvance(i, s) ==
  LET index == IUVar(s.outs[1]) IN Assign(index, Plus(VarRef(index), Const(UI8)))

TableEnd(i) == OpVar(i, "it_ptr_end", Ptr(Char))
TableIndex(i) == OpVar(i, "it_idx", UI8)
Table(i) == OpVar(i, "ht", Ptr(Void))
Marker(s) ==
  IF Len(s.outs) # 2 THEN << >>
  ELSE Define(IUVar(s.outs[2]), Invoke("inkfuse_malloc", <<Const(UI8)>>))
TableIteratorRoot(i, s) ==
  LET From(v, field) == Assign(v, Load(i, "HashTableSourceState", field))
  IN <<Declare(IUVar(s.outs[1])), Declare(TableEnd(i)), Declare(TableIndex(i)), Declare(Table(i))>>
       \o Marker(s)
       \o <<From(IUVar(s.outs[1]), "it_ptr_start"), From(TableEnd(i), "it_ptr_end"),
            From(TableIndex(i), "it_idx_start"), From(Table(i), "hash_table")>>
TableIteratorCondition(i, s) == Arith("Neq", VarRef(IUVar(s.outs[1])), VarRef(TableEnd(i)))
ItAdvance == [sk |-> "ht_sk_it_advance", ck |-> "ht_ck_it_advance", dl |-> "ht_dl_it_advance",
              at_sk |-> "ht_at_sk_it_advance"]
TableIteratorAdvance(i, s) ==
  Do(Invoke(ItAdvance[s.fct],
       <<VarRef(Table(i)), RefTo(VarRef(IUVar(s.outs[1]))), RefTo(VarRef(TableIndex(i)))>>))

LoopRoot(i, s) == IF IsTableIterator(s) THEN TableIteratorRoot(i, s) ELSE LoopDriverRoot(i, s)
LoopCondition(i, s) ==
  IF IsTableIterator(s) THEN TableIteratorCondition(i, s) ELSE LoopDriverCondition(i, s)
LoopAdvance(i, s) ==
  IF IsTableIterator(s) THEN TableIteratorAdvance(i, s) ELSE LoopDriverAdvance(i, s)

-----------------------------------------------------------------------------
(* Columns and scratch pads. A value of fixed width is found by the loop's *)
(* index; byte arrays by an iterator that steps by their width.            *)

IndexedIUProviderCode(i, s) ==
  LET iu == IUVar(s.outs[1])
      array == IsArray(s.outs[1])
      start == OpVar(i, "start", IF array THEN Ptr(Char) ELSE Ptr(iu.type))
      iterator == OpVar(i, "iterator", UI8)
  IN Code(Define(start, Cast(Deref(Load(i, "IndexedIUProviderState", "start")), start.type))
            \o (IF array THEN Define(iterator, Const(UI8)) ELSE << >>),
          IF array
          THEN Define(iu, Plus(VarRef(start), VarRef(iterator)))
                 \o <<Assign(iterator, Plus(VarRef(iterator),
                                            Load(i, "IndexedIUProviderState", "type_param")))>>
          ELSE Define(iu, Deref(Plus(VarRef(start), VarRef(IUVar(s.ins[1]))))))

FuseChunkSinkCode(i, s) ==
  LET iu == IUVar(s.ins[1])
      array == IsArray(s.ins[1])
      data == OpVar(i, "raw_data", Ptr(iu.type))
      size == OpVar(i, "size", Ptr(UI8))
      iterator == OpVar(i, "iterator", UI8)
      rows == Deref(VarRef(size))
  IN Code(Define(data, Cast(Load(i, "FuseChunkSinkState", "start"), data.type))
            \o Define(size, Load(i, "FuseChunkSinkState", "size"))
            \o (IF array THEN Define(iterator, Const(UI8)) ELSE << >>),
          (IF array
           THEN <<Do(Memcpy(Plus(Cast(VarRef(data), Ptr(Char)), VarRef(iterator)), VarRef(iu), Const(UI8))),
                  Assign(iterator, Plus(VarRef(iterator), Const(UI8)))>>
           ELSE <<Store(Deref(Plus(VarRef(data), rows)), VarRef(iu))>>)
          \o <<Store(rows, Plus(rows, Const(UI8)))>>)

CountingSinkCode(i) ==
  LET count == Load(i, "CountingState", "count")
  IN Code(<< >>, <<Store(count, Plus(count, Const(UI8)))>>)
CopyCode(s) == Code(<< >>, Define(IUVar(s.outs[1]), VarRef(IUVar(s.ins[1]))))

ScratchPadCode(s) ==
  Code(Define(IUVar(s.outs[1]), Invoke("inkfuse_malloc", <<Const(UI8)>>)), << >>)

-----------------------------------------------------------------------------
(* Filters, expressions and calls of the runtime.                          *)

FilterCondition(s) == VarRef(IUVar(s.ins[1]))
ColumnFilterLogicCode(s) == Code(<< >>, Define(IUVar(s.outs[1]), VarRef(IUVar(s.ins[2]))))

ExpressionCode(s) ==
  LET out == IUVar(s.outs[1])
      child == [k \in DOMAIN s.ins |-> VarRef(IUVar(s.ins[k]))]
  IN Code(<< >>, Define(out, IF s.fct = "Cast" THEN Cast(child[1], out.type)
                             ELSE Arith(s.fct, child[1], child[2])))

(* Lists of strings cannot be written into the code.                       *)
IsList(s) == s.fct \in {"InList", "NotLikeTokens"}
ParamType(s) == IF IsList(s) THEN Ptr(Char) ELSE IRTypes[s.ty]
RuntimeExpressionCode(params, i, s) ==
  LET constant == OpVar(i, "rt_constant", ParamType(s))
      child == VarRef(IUVar(s.ins[1]))
      erased == Load(i, "RuntimeExpressionState", "data_erased")
      value == IF params /\ ~IsList(s) THEN Const(ParamType(s))
               ELSE Deref(Cast(erased, Ptr(ParamType(s))))
  IN Code(Define(constant, value),
          Define(IUVar(s.outs[1]),
            IF s.fct = "Constant" THEN VarRef(constant) ELSE Arith(s.fct, VarRef(constant), child)))

(* Keys that are not packed are passed by their address.                   *)
IsCall(s) ==
  s.sort \in {"materialize_tuple", "hash_and_prefetch", "lookup_with_hash", "lookup_or_insert"}
IUArguments(s) ==
  CASE s.fct \in {"materialize_tuple", "ht_nk_lookup"} -> << >>
    [] s.sort = "lookup_with_hash" -> s.ins
    [] OTHER -> <<s.ins[1]>>
IsAddress(iu) == iu.ty \in {"bytes", "ptr"}
KeyArgument_ByValue(iu) == VarRef(IUVar(iu))
KeyArgument(iu) ==
  IF IsAddress(iu) THEN VarRef(IUVar(iu)) ELSE Cast(RefTo(VarRef(IUVar(iu))), Ptr(Char))
RuntimeFunctionCode(i, s) ==
  LET ius == IUArguments(s)
      args == [k \in DOMAIN ius |-> IF k = 1 THEN KeyArgument(ius[k]) ELSE VarRef(IUVar(ius[k]))]
      call == Invoke(s.fct, <<Load(i, "RuntimeFunctionSubopState", "this_object")>> \o args)
  IN Code(<< >>, IF IsSink(s) THEN <<Do(call)>> ELSE Define(IUVar(s.outs[1]), call))

-----------------------------------------------------------------------------
(* Rows and aggregates.                                                    *)

At(ptr, offset, type) == Deref(Cast(Plus(VarRef(ptr), VarRef(offset)), Ptr(type)))
Offset(i) == OpVar(i, "rt_offset", UI2)
LoadOffset(params, i) ==
  Define(Offset(i), Resolve(params, i, "RuntimeKeyExpressionState", "offset"))

KeyPackerCode(params, i, s) ==
  LET packed == IUVar(s.ins[1])
  IN Code(LoadOffset(params, i),
          <<Store(At(IUVar(s.ins[2]), Offset(i), packed.type), VarRef(packed))>>)
KeyUnpackerCode(params, i, s) ==
  LET out == IUVar(s.outs[1])
  IN Code(LoadOffset(params, i), Define(out, At(IUVar(s.ins[1]), Offset(i), out.type)))

(* A key against the one in a row.                                         *)
RuntimeKeyExpressionCode(params, i, s) ==
  LET elem == IUVar(s.ins[1])
      loc == Plus(VarRef(IUVar(s.ins[2])), Resolve(params, i, "RuntimeKeyExpressionState", "offset"))
  IN Code(<< >>, Define(IUVar(s.outs[1]), Arith("Eq", Deref(Cast(loc, Ptr(elem.type))), VarRef(elem))))

AggStateSum(state, val) ==
  LET sum == Deref(Cast(VarRef(state), Ptr(val.type))) IN <<Store(sum, Plus(VarRef(val), sum))>>
AggStateCount(state) ==
  LET count == Deref(Cast(VarRef(state), Ptr(I8))) IN <<Store(count, Plus(Const(I8), count))>>
AggregatorCode(params, i, s) ==
  LET state == OpVar(i, "packed_state", Ptr(Char))
  IN Code(LoadOffset(params, i),
          Define(state, Plus(VarRef(IUVar(s.ins[1])), VarRef(Offset(i))))
            \o (IF s.fct = "sum" THEN AggStateSum(state, IUVar(s.ins[2])) ELSE AggStateCount(state)))

(* Both offsets are loaded, the second if there is a second granule too.   *)
AggComputeUnpack(out, state) ==
  <<Assign(out, Deref(Cast(Plus(VarRef(state), Const(UI2)), Ptr(out.type))))>>
AggComputeAvg(out, type, sum, count) ==
  <<Assign(out, Arith("Divide", Cast(Deref(Cast(VarRef(sum), Ptr(type))), F8),
                                Deref(Cast(VarRef(count), Ptr(UI8)))))>>
AggReaderCode(params, i, s) ==
  LET out == IUVar(s.outs[1])
      two == "RuntimeKeyExpressionStateTwo"
      offset == [k \in 1..2 |-> OpVar(i, IF k = 1 THEN "rt_offset_1" ELSE "rt_offset_2", UI2)]
      state == [k \in 1..2 |-> OpVar(i, IF k = 1 THEN "packed_state_1" ELSE "packed_state_2", Ptr(Char))]
      Granule(k) == Define(state[k], Plus(VarRef(IUVar(s.ins[1])), VarRef(offset[k])))
  IN Code(Define(offset[1], Resolve(params, i, two, "offset_1"))
            \o Define(offset[2], Resolve(params /\ s.fct = "avg", i, two, "offset_2")),
          <<Declare(out)>> \o Granule(1)
            \o (IF s.fct = "avg" THEN Granule(2) \o AggComputeAvg(out, IRTypes[s.ty], state[1], state[2])
                ELSE AggComputeUnpack(out, state[1])))

-----------------------------------------------------------------------------
(* The struct a suboperator declares as its state, if it has one.          *)
StateOf(s) ==
  CASE s.sort \in {"TScanDriver", "FuseChunkSourceDriver"} -> "LoopDriverState"
    [] s.sort \in {"TScanIUProvider", "FuseChunkSourceIUProvider"} -> "IndexedIUProviderState"
    [] IsTableIterator(s) -> "HashTableSourceState"
    [] s.sort = "FuseChunkSink" -> "FuseChunkSinkState"
    [] s.sort = "RuntimeExpression" -> "RuntimeExpressionState"
    [] IsCall(s) -> "RuntimeFunctionSubopState"
    [] s.sort = "CountingSink" -> "CountingState"
    [] s.sort \in {"KeyPacker", "KeyUnpacker", "Aggregator", "RuntimeKeyExpression"} ->
         "RuntimeKeyExpressionState"
    [] s.sort = "AggReader" -> "RuntimeKeyExpressionStateTwo"
    [] OTHER -> "EmptyState"
=============================================================================
