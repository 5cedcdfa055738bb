--------------------------- MODULE RuntimeLibrary ---------------------------
(***************************************************************************)
(* What generated code finds in the include that the global runtime makes: *)
(* the types of the IR, the structs that suboperators keep their state in, *)
(* and the functions it may call. A type is a sequence that begins with    *)
(* "Ptr" once for every level of indirection; structs are types too.       *)
(***************************************************************************)
EXTENDS Naturals, Sequences

Char == <<"Char">>
Void == <<"Void">>
Bool == <<"Bool">>
UI1 == <<"UI1">>
UI2 == <<"UI2">>
UI4 == <<"UI4">>
UI8 == <<"UI8">>
I8 == <<"I8">>
F8 == <<"F8">>
Str == <<"String">>
Array == <<"ByteArray">>
Ptr(t) == <<"Ptr">> \o t
IsPtr(t) == t # << >> /\ t[1] = "Ptr"

(* The IR type of an IU.                                                   *)
IRTypes == [i1 |-> <<"I1">>, i2 |-> <<"I2">>, i4 |-> <<"I4">>, i8 |-> I8,
            u1 |-> UI1, u2 |-> UI2, u4 |-> UI4, u8 |-> UI8, f4 |-> <<"F4">>, f8 |-> F8,
            date |-> <<"Date">>, char |-> Char, bool |-> Bool, str |-> Str,
            ptr |-> Ptr(Char), void |-> Void, bytes |-> Array]

-----------------------------------------------------------------------------
(* In C, strings and byte arrays are char pointers, dates are integers.    *)
CType(t) ==
  CASE t \in {Str, Array} -> Ptr(Char)
    [] t = <<"Date">> -> <<"I4">>
    [] OTHER -> t
Floats == {<<"F4">>, F8}
Arithmetic == {Char, Bool, UI1, UI2, UI4, UI8, <<"I1">>, <<"I2">>, <<"I4">>, I8} \cup Floats
IsNumber(t) == CType(t) \in Arithmetic
IsInteger(t) == CType(t) \in Arithmetic \ Floats

(* C accepts a value of type u where it wants one of type t, and does not  *)
(* read the same bytes as something else.                                  *)
Fits(t, u) ==
  \/ CType(t) = CType(u)
  \/ IsNumber(t) /\ IsNumber(u)
  \/ IsPtr(CType(t)) /\ IsPtr(CType(u)) /\ Ptr(Void) \in {t, u}

-----------------------------------------------------------------------------
(* Structs: the state that a suboperator's code is called with.            *)

LoopDriverState == [start |-> UI8, end |-> UI8]
IndexedIUProviderState == [start |-> Ptr(Ptr(Char)), type_param |-> UI8]
RuntimeKeyExpressionState == [offset |-> UI2]
RuntimeKeyExpressionStateTwo == [offset_1 |-> UI2, offset_2 |-> UI2]
FuseChunkSinkState == [start |-> Ptr(Void), size |-> Ptr(UI8)]
CountingState == [count |-> UI8]
RuntimeExpressionState == [data_erased |-> Ptr(Void)]
RuntimeFunctionSubopState == [this_object |-> Ptr(Void)]
HashTableSourceState ==
  [hash_table |-> Ptr(Void), it_ptr_start |-> Ptr(Char), it_ptr_end |-> Ptr(Char),
   it_idx_start |-> UI8, it_idx_end |-> UI8]

Structs ==
  [LoopDriverState |-> LoopDriverState,
   IndexedIUProviderState |-> IndexedIUProviderState,
   RuntimeKeyExpressionState |-> RuntimeKeyExpressionState,
   RuntimeKeyExpressionStateTwo |-> RuntimeKeyExpressionStateTwo,
   FuseChunkSinkState |-> FuseChunkSinkState,
   CountingState |-> CountingState,
   RuntimeExpressionState |-> RuntimeExpressionState,
   RuntimeFunctionSubopState |-> RuntimeFunctionSubopState,
   HashTableSourceState |-> HashTableSourceState]
HasField(s, f) == s \in DOMAIN Structs /\ f \in DOMAIN Structs[s]
FieldType(s, f) == IF HasField(s, f) THEN Structs[s][f] ELSE << >>

-----------------------------------------------------------------------------
(* Functions: the types of their arguments, and what they return.          *)

Function(args, returns) == [args |-> args, returns |-> returns]
OnKey == Function(<<Ptr(Void), Ptr(Char)>>, Ptr(Char))
HashesKey == Function(<<Ptr(Void), Ptr(Char)>>, UI8)
OnKeyAndHash == Function(<<Ptr(Void), Ptr(Char), UI8>>, Ptr(Char))
OnTable == Function(<<Ptr(Void)>>, Ptr(Char))
Prefetches == Function(<<Ptr(Void), UI8>>, Void)
AdvancesIterator == Function(<<Ptr(Void), Ptr(Ptr(Char)), Ptr(UI8)>>, Ptr(Char))

HashTableFunctions ==
  [ht_sk_insert |-> OnKey, ht_sk_lookup |-> OnKey, ht_sk_lookup_disable |-> OnKey,
   ht_sk_lookup_or_insert |-> OnKey, ht_sk_it_advance |-> AdvancesIterator,
   ht_sk_lookup_or_insert_with_init |->
     Function(<<Ptr(Void), Ptr(Ptr(Char)), Ptr(Bool), Ptr(Char)>>, Void),
   ht_nk_lookup |-> OnTable,
   ht_ck_lookup |-> OnKey, ht_ck_lookup_or_insert |-> OnKey,
   ht_ck_it_advance |-> AdvancesIterator,
   ht_dl_lookup |-> OnKey, ht_dl_lookup_or_insert |-> OnKey,
   ht_dl_it_advance |-> AdvancesIterator,
   ht_at_sk_lookup |-> OnKey, ht_at_sk_lookup_disable |-> OnKey, ht_at_ck_lookup |-> OnKey,
   ht_at_sk_compute_hash_and_prefetch |-> HashesKey,
   ht_at_sk_compute_hash_and_prefetch_fixed_4 |-> HashesKey,
   ht_at_sk_compute_hash_and_prefetch_fixed_8 |-> HashesKey,
   ht_at_sk_slot_prefetch |-> Prefetches,
   ht_at_sk_lookup_with_hash |-> OnKeyAndHash,
   ht_at_sk_lookup_with_hash_disable |-> OnKeyAndHash,
   ht_at_sk_it_advance |-> AdvancesIterator,
   ht_at_ck_compute_hash_and_prefetch |-> HashesKey,
   ht_at_ck_slot_prefetch |-> Prefetches,
   ht_at_ck_lookup_with_hash |-> OnKeyAndHash,
   ht_at_ck_lookup_with_hash_disable |-> OnKeyAndHash]
MaterializeTuple == OnTable
InkfuseMalloc == Function(<<UI8>>, Ptr(Void))

Functions ==
  [f \in DOMAIN HashTableFunctions \cup {"materialize_tuple", "inkfuse_malloc"} |->
     CASE f = "materialize_tuple" -> MaterializeTuple
       [] f = "inkfuse_malloc" -> InkfuseMalloc
       [] OTHER -> HashTableFunctions[f]]
IsFunction(f) == f \in DOMAIN Functions
=============================================================================
