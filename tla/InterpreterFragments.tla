------------------------- MODULE InterpreterFragments -------------------------
(***************************************************************************)
(* The interpreter does not generate code for a query. When the program    *)
(* starts, fragmentizers enumerate the suboperators that exist, for every  *)
(* type they are defined on; each is repiped into a pipeline of its own and*)
(* compiled. A runner asks for the code by the id of its suboperator, and  *)
(* calls it with the states of the suboperators of the pipeline it repiped *)
(* itself: the two pipelines never meet, they have to be alike.            *)
(***************************************************************************)
EXTENDS SuboperatorCode

(* What a fragment is called, and a runner asks for.                       *)
TypesOf(ius) == [k \in DOMAIN ius |-> ius[k].ty]
IsFilter(s) == s.sort = "ColumnFilterLogic"
ParamId(s) == IF IsList(s) THEN "ptr" ELSE s.ty
FunctionId(s) == <<"rt_fct", s.fct>> \o TypesOf(IUArguments(s)) \o TypesOf(s.outs)
Id(s) ==
  CASE s.sort = "TScanIUProvider" -> <<"TScanIUProvider", s.outs[1].ty>>
    [] IsFilter(s) -> <<IF s.fct = "filters_itself" THEN "ColumnSelfFilterLogic" ELSE "ColumnFilterLogic",
                        s.ty, s.ins[2].ty>>
    [] s.sort = "Expression" -> <<"expr", s.fct>> \o TypesOf(s.ins) \o TypesOf(s.outs)
    [] s.sort = "RuntimeExpression" ->
         <<"runtime_expr", s.fct>> \o TypesOf(s.ins) \o <<ParamId(s)>> \o TypesOf(s.outs)
    [] s.sort = "KeyPacker" -> <<"key_packer">> \o TypesOf(s.ins)
    [] s.sort = "KeyUnpacker" -> <<"key_unpacker">> \o TypesOf(s.ins) \o TypesOf(s.outs)
    [] s.sort = "Aggregator" -> IF s.fct = "sum" THEN <<"agg_state_sum", s.ins[2].ty>> ELSE <<"agg_state_count">>
    [] s.sort = "AggReader" ->
         IF s.fct = "avg" THEN <<"agg_compute_avg", s.ty>> ELSE <<"agg_compute_unpack", s.outs[1].ty>>
    [] IsTableIterator(s) -> <<"hash_table_source", s.fct>>
    [] s.sort = "RuntimeKeyExpression" -> <<"runtime_key_expr_eq">> \o TypesOf(s.ins)
    [] s.sort = "CountingSink" -> <<"CountingSink">>
    [] s.sort = "Copy" -> <<"Copy", s.outs[1].ty>>
    [] IsCall(s) -> FunctionId(s)

-----------------------------------------------------------------------------
(* TypeDecorator.                                                          *)

Integers == {"i8", "i4", "i2", "i1", "u8", "u4", "u2", "u1"}
NumericTypes == Integers \cup {"f4", "f8", "date"}
AllTypes == NumericTypes \cup {"char", "bool"}

-----------------------------------------------------------------------------
(* The fragmentizers. A fragment's IUs stand for columns of a type.        *)

AnyIU(part, ty) == Internal("", part, ty, 0)
Fragment(sort, fct, ty, ins, outs) == Calling(fct, ty, Subop(sort, "", ins, outs, << >>))
In(ty) == AnyIU("in", ty)
Group == AnyIU("group", "ptr")
Result(ty) == AnyIU("result", ty)

AggregationFragments ==
  {<<Fragment("Aggregator", "count", "", <<Group, In("i8")>>, << >>)>>}
    \cup {<<Fragment("Aggregator", "sum", "", <<Group, In(t)>>, << >>)>> : t \in NumericTypes}
    \cup {<<Fragment("AggReader", "unpack", t, <<Group>>, <<Result(t)>>)>> : t \in AllTypes}
    \cup {<<Fragment("AggReader", "avg", t, <<Group>>, <<Result("f8")>>)>> : t \in NumericTypes}

Loop == AnyIU("loop", "u8")
TScanFragments ==
  {<<Fragment("TScanDriver", "", "", << >>, <<Loop>>),
     Fragment("TScanIUProvider", "", "", <<Loop>>, <<Result(t)>>)>> : t \in AllTypes \cup {"str"}}

(* A scope and what it filters: something else, or the condition itself. A *)
(* byte array is not copied: what is left of it is a pointer.              *)
ConditionTypes == {"bool", "ptr"}
FilterFragment(condition, fct, in, out) ==
  LET filter == AnyIU("filter", condition)
      pseudo == AnyIU("filter_pseudo", "void")
      target == IF fct = "filters_itself" THEN filter ELSE In(in)
  IN <<Fragment("ColumnFilterScope", "", "", <<filter>>, <<pseudo>>),
       Fragment("ColumnFilterLogic", fct, condition, <<pseudo, target>>, <<Result(out)>>)>>
ColumnFilterFragments ==
  {FilterFragment(c, "", t, t) : c \in ConditionTypes, t \in AllTypes \cup {"str", "ptr"}}
    \cup {FilterFragment(c, "filters_itself", c, c) : c \in ConditionTypes}
    \cup {FilterFragment(c, "", "bytes", "ptr") : c \in ConditionTypes}

ArithmeticOps == {"Add", "Subtract", "Multiply", "Divide"}
ComparisonOps == {"Eq", "Neq", "Less", "LessEqual", "Greater", "GreaterEqual"}
DerivedType(op, ty) == IF op \in ArithmeticOps THEN ty ELSE "bool"
ExpressionFragments ==
  {<<Fragment("Expression", op, "", <<AnyIU("left", t), AnyIU("right", t)>>, <<Result(DerivedType(op, t))>>)>> :
     op \in ArithmeticOps \cup ComparisonOps \cup {"And", "Or"}, t \in AllTypes}
    \cup {<<Fragment("Expression", "Cast", "", <<In(t)>>, <<Result(u)>>)>> : t \in AllTypes, u \in AllTypes}
    \cup {<<Fragment("Expression", "StrEquals", "", <<AnyIU("left", "str"), AnyIU("right", "str")>>, <<Result("bool")>>)>>}
WithRuntimeParam(op, in, param, out) ==
  <<Fragment("RuntimeExpression", op, param, <<In(in)>>, <<Result(out)>>)>>
RuntimeExpressionFragments ==
  {WithRuntimeParam(op, t, t, DerivedType(op, t)) : op \in ArithmeticOps \cup ComparisonOps, t \in NumericTypes}
    \cup {WithRuntimeParam("Constant", t, "u1", "u1") : t \in NumericTypes}
    \cup {WithRuntimeParam(op, "str", "str", "bool") : op \in {"StrEquals", "InList", "NotLikeTokens"}}

PackedInto_Pointers == {"ptr"}
PackedInto == {"ptr", "bytes"}
KeyPackingFragments ==
  {<<Fragment("KeyPacker", "", "", <<In(t), AnyIU("compound_key", p)>>, << >>)>> :
     t \in AllTypes \cup {"str"}, p \in PackedInto}
    \cup {<<Fragment("KeyUnpacker", "", "", <<AnyIU("compound_key", p)>>, <<Result(t)>>)>> :
            t \in AllTypes \cup {"str"}, p \in PackedInto}

(* Compares a key with one in a row; counts rows, of any column; copies one.*)
RuntimeKeyExpressionFragments ==
  {<<Fragment("RuntimeKeyExpression", "", "", <<AnyIU("compare", t), AnyIU("data_ptrs", "ptr")>>,
              <<Result("bool")>>)>> : t \in AllTypes}
CountingSinkFragments == {<<Fragment("CountingSink", "", "", <<In("char")>>, << >>)>>}
CopyFragments == {<<Fragment("Copy", "", "", <<In(t)>>, <<Result(t)>>)>> : t \in AllTypes}

(* The marker of rows without a match has five bytes in every fragment.    *)
HashTableSourceFragments ==
  {<<Fragment("HashTableSource", table, "", << >>, <<Group>>)>> : table \in {"sk", "ck", "dl"}}
    \cup {<<Fragment("AtomicHashTableSource", "at_sk", "", << >>, <<Group, Internal("", "marker", "bytes", 5)>>)>>}

(* Calls of tables, by what they do; some once more without a result.      *)
KeyTypes == AllTypes \cup {"bytes", "ptr"}
Hash == AnyIU("hash", "u8")
CallFragment(sort, f, ins, outs) == <<Fragment(sort, f, "", ins, outs)>>
Lookups == {"ht_sk_lookup", "ht_dl_lookup", "ht_at_sk_lookup"}
Hashes == {"ht_at_sk_compute_hash_and_prefetch", "ht_at_sk_compute_hash_and_prefetch_fixed_4",
           "ht_at_sk_compute_hash_and_prefetch_fixed_8"}
LookupsWithHash == {"ht_at_sk_lookup_with_hash", "ht_at_sk_lookup_with_hash_disable"}
Inserts == {"ht_sk_insert", "ht_sk_lookup_or_insert", "ht_dl_lookup_or_insert"}
OnStrings == {"ht_ck_lookup", "ht_ck_lookup_or_insert"}
RuntimeFunctionFragments ==
  {CallFragment("lookup_or_insert", f, <<In(t)>>, <<Result("ptr")>>) : f \in Lookups \cup Inserts, t \in KeyTypes}
    \cup {CallFragment("lookup_or_insert", f, <<In(t)>>, << >>) : f \in Inserts, t \in KeyTypes}
    \cup {CallFragment("hash_and_prefetch", f, <<In(t)>>, <<Result("u8")>>) : f \in Hashes, t \in KeyTypes}
    \cup {CallFragment("lookup_with_hash", f, <<In(t), Hash>>, <<Result("ptr")>>) : f \in LookupsWithHash, t \in KeyTypes}
    \cup {CallFragment("materialize_tuple", "materialize_tuple", <<In("char")>>, <<Result("ptr")>>),
          CallFragment("lookup_or_insert", "ht_nk_lookup", <<In("char")>>, <<Result("ptr")>>)}
    \cup {CallFragment("lookup_or_insert", f, <<In("str")>>, <<Result("ptr")>>) : f \in OnStrings}

(* FragmentGenerator::build: what a fragment is called, and its pipeline.  *)
AllFragments ==
  AggregationFragments \cup TScanFragments \cup ExpressionFragments \cup HashTableSourceFragments
    \cup RuntimeExpressionFragments \cup KeyPackingFragments \cup ColumnFilterFragments
    \cup RuntimeFunctionFragments \cup RuntimeKeyExpressionFragments
    \cup CountingSinkFragments \cup CopyFragments
Fragments == {[id |-> Id(Last(f)), subops |-> RepipeAll(f, 0, Len(f))] : f \in AllFragments}

-----------------------------------------------------------------------------
(* A fragment is called with the states of the suboperators that a runner  *)
(* has: each is of the struct that the code takes it for, and each column  *)
(* holds what the code reads from it or writes. What a fragment needs only *)
(* to have something to read may be of any type.                           *)
ReadsNothing(s) == s.fct \in {"count", "materialize_tuple", "ht_nk_lookup"}
Untouched(fragment) == {Last(s.ins) : s \in {x \in ToSet(fragment) : ReadsNothing(x)}}
Alike(f, r, untouched) ==
  /\ f.sort = r.sort /\ f.fct = r.fct /\ StateOf(f) = StateOf(r)
  /\ f.sort = "FuseChunkSourceIUProvider" => f.outs[1] \in untouched \/ f.outs[1].ty = r.outs[1].ty
  /\ f.sort = "FuseChunkSink" =>
       f.ins[1].ty = r.ins[1].ty /\ (IsArray(r.ins[1]) => f.ins[1].size = r.ins[1].size)
Matches(fragment, own) ==
  /\ Len(fragment) = Len(own)
  /\ \A i \in DOMAIN own : Alike(fragment[i], own[i], Untouched(fragment))
FragmentCache ==
  [id \in {f.id : f \in Fragments} |-> {f.subops : f \in {g \in Fragments : g.id = id}}]
FragmentsWithId(id) == IF id \in DOMAIN FragmentCache THEN FragmentCache[id] ELSE {}
=============================================================================
