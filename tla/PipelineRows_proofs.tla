------------------------- MODULE PipelineRows_proofs -------------------------
(***************************************************************************)
(* Proof that suboperators agree on the bytes of packed rows (RowsAgree),  *)
(* for every plan whose rows are laid out by QueryPlans (PlansLaidOut).    *)
(*                                                                         *)
(* The argument follows bytes. The suboperators of a call of decay put and *)
(* read the bytes that the layout of the call's rows gives (CallPuts and   *)
(* CallReads); pipelines, continuations too, those of the calls that made  *)
(* them and no others, as closing a continuation copies suboperators and   *)
(* its source touches no row. So the rows of a plan can be compared call by*)
(* call: an IU begins where those before it end, in every row as wide.     *)
(***************************************************************************)
EXTENDS PipelineDAG_proofs, QueryPlans

-----------------------------------------------------------------------------
(* What suboperators put and read.                                         *)

Does(kind, s) == IF kind = "put" THEN PutBy(s) ELSE ReadBy(s)
BySubops(kind, b) == UNION {Does(kind, s) : s \in ToSet(b)}
ByPipes(kind, pipes) ==
  UNION {BySubops(kind, pipes[p].subops) : p \in 1 .. Len(pipes)}

(* A list of suboperators that put and read these bytes.                   *)
Touches(b, put, read) == IsSeq(b) /\ BySubops("put", b) = put /\ BySubops("read", b) = read

(* The bytes of a row from an offset on.                                   *)
Begin(from, row, i) == from + WidthOf(SubSeq(row, 1, i - 1))
Place(op, name, from, row, i) ==
  [op |-> op, row |-> name, from |-> Begin(from, row, i), width |-> row[i].size]
Places(op, name, from, row) == {Place(op, name, from, row, i) : i \in DOMAIN row}

(* The bytes that a call's suboperators put and read.                      *)
ReadPlaces(c) ==
  {[op |-> c.op, row |-> "group", from |-> b[1], width |-> b[2]] :
     b \in UNION {ToSet(c.reads[k]) : k \in DOMAIN c.results}}
CallPuts(c) ==
  CASE c.call = "JoinBuild" -> Places(c.op, "build", 0, c.row)
    [] c.call = "JoinProbe" -> Places(c.op, "probe", 0, c.row)
    [] c.call = "Aggregation" ->
         Places(c.op, "group", 0, c.groupBy) \cup Places(c.op, "group", c.first, c.granules)
    [] OTHER -> {}
CallReads(c) ==
  CASE c.call = "JoinProbe" ->
         Places(c.op, "build", 0, c.outLeft) \cup Places(c.op, "probe", 0, c.outRight)
    [] c.call = "Aggregation" -> Places(c.op, "group", 0, c.keys) \cup ReadPlaces(c)
    [] OTHER -> {}
CallDoes(kind, c) == IF kind = "put" THEN CallPuts(c) ELSE CallReads(c)

LEMMA SubopsElements ==
  ASSUME NEW kind, NEW b
  PROVE  \A x : x \in BySubops(kind, b) <=> \E s \in ToSet(b) : x \in Does(kind, s)
  BY DEF BySubops

LEMMA PipesElements ==
  ASSUME NEW kind, NEW pipes
  PROVE  \A x : x \in ByPipes(kind, pipes) <=>
           \E p \in 1 .. Len(pipes) : \E s \in ToSet(pipes[p].subops) : x \in Does(kind, s)
<1>1. \A p : \A x : x \in BySubops(kind, pipes[p].subops) <=>
        \E s \in ToSet(pipes[p].subops) : x \in Does(kind, s)
  BY SubopsElements
<1> QED BY <1>1 DEF ByPipes

(* One after the other.                                                    *)
LEMMA TouchesConcat ==
  ASSUME NEW a, NEW b, NEW put, NEW read, NEW put2, NEW read2,
         Touches(a, put, read), Touches(b, put2, read2)
  PROVE  Touches(a \o b, put \cup put2, read \cup read2)
<1>1. IsSeq(a \o b) /\ ToSet(a \o b) = ToSet(a) \cup ToSet(b)
  BY SeqConcat DEF Touches
<1>2. \A kind : BySubops(kind, a \o b) = BySubops(kind, a) \cup BySubops(kind, b)
  BY <1>1 DEF BySubops
<1> QED BY <1>1, <1>2 DEF Touches

(* A suboperator on its own.                                               *)
LEMMA TouchesOne ==
  ASSUME NEW s
  PROVE  Touches(<<s>>, PutBy(s), ReadBy(s))
<1>1. IsSeq(<<s>>) /\ ToSet(<<s>>) = {s}
  BY SeqOne
<1>2. \A kind : BySubops(kind, <<s>>) = Does(kind, s)
  BY <1>1 DEF BySubops
<1> QED BY <1>1, <1>2 DEF Touches, Does

(* Suboperators that touch no row.                                         *)
Rowless == {"TScanDriver", "TScanIUProvider", "RuntimeExpression", "Expression",
            "ColumnFilterScope", "ColumnFilterLogic", "materialize_tuple", "ScratchPad",
            "hash_and_prefetch", "lookup_with_hash", "HashTableSource",
            "AtomicHashTableSource", "FuseChunkSink"}
LEMMA RowlessTouches ==
  ASSUME NEW s, s.sort \in Rowless
  PROVE  \A kind : Does(kind, s) = {}
<1>1. PutBy(s) = {}
  BY DEF Rowless, PutBy
<1>2. ReadBy(s) = {}
  BY DEF Rowless, ReadBy
<1> QED BY <1>1, <1>2 DEF Does

LEMMA TouchesNone ==
  ASSUME NEW b, NEW op, NEW sorts, NEW name, MadeBy(b, op, sorts, name), sorts \subseteq Rowless
  PROVE  Touches(b, {}, {})
<1>1. \A s \in ToSet(b) : s.sort \in Rowless
  BY DEF MadeBy
<1>2. \A kind : BySubops(kind, b) = {}
  BY <1>1, RowlessTouches DEF BySubops
<1> QED BY <1>2 DEF Touches, MadeBy

(* A suboperator for every element of a list.                              *)
LEMMA TouchesEach ==
  ASSUME NEW q, IsSeq(q), NEW f, DOMAIN f = DOMAIN q, f = [i \in DOMAIN q |-> f[i]]
  PROVE  Touches(f, UNION {PutBy(f[i]) : i \in DOMAIN q}, UNION {ReadBy(f[i]) : i \in DOMAIN q})
<1>1. Len(q) \in Nat /\ DOMAIN q = 1 .. Len(q)
  BY SeqElements
<1>2. IsSeq(f)
  BY <1>1, SeqMade
<1>3. ToSet(f) = {f[i] : i \in DOMAIN q}
  BY DEF ToSet
<1>4. \A kind : BySubops(kind, f) = UNION {Does(kind, f[i]) : i \in DOMAIN q}
  BY <1>3 DEF BySubops
<1>5. /\ BySubops("put", f) = UNION {PutBy(f[i]) : i \in DOMAIN q}
      /\ BySubops("read", f) = UNION {ReadBy(f[i]) : i \in DOMAIN q}
  BY <1>4 DEF Does
<1> QED BY <1>2, <1>5 DEF Touches

-----------------------------------------------------------------------------
(* The suboperators of an operator.                                        *)

(* A suboperator's sort, operator, IUs and bytes, whether or not it calls a*)
(* function.                                                               *)
Is(s, sort, op, ins, outs, bytes) ==
  /\ s.sort = sort /\ s.op = op /\ s.ins = ins /\ s.outs = outs /\ s.bytes = bytes
LEMMA SubopParts ==
  ASSUME NEW sort, NEW op, NEW ins, NEW outs, NEW bytes, NEW fct, NEW ty
  PROVE  /\ Is(Subop(sort, op, ins, outs, bytes), sort, op, ins, outs, bytes)
         /\ Is(Calling(fct, ty, Subop(sort, op, ins, outs, bytes)), sort, op, ins, outs, bytes)
  BY DEF Is, Subop, Calling

(* Suboperators that touch one IU of a packed row, through a pointer.      *)
LEMMA BytesOne ==
  ASSUME NEW s, NEW ptr, NEW from, NEW row, NEW i, s.bytes = BytesOf(from, row, i), NEW name,
         RowOf[ptr.part] = name
  PROVE  BytesIn(s, ptr) = {Place(s.op, name, from, row, i)}
<1> DEFINE begin == Begin(from, row, i)
           width == row[i].size
<1>1. s.bytes = << <<begin, width>> >>
  BY DEF BytesOf, Begin
<1> HIDE DEF begin, width
<1>2. ToSet(s.bytes) = {<<begin, width>>}
  <2> DEFINE b == <<begin, width>>
  <2> HIDE DEF b
  <2>1. ToSet(<<b>>) = {b}
    BY SeqOne
  <2> QED BY <1>1, <2>1 DEF b
<1>3. BytesIn(s, ptr) = {[op |-> s.op, row |-> name, from |-> begin, width |-> width]}
  BY <1>2 DEF BytesIn
<1> QED BY <1>3 DEF Place, begin, width

(* Packers put every IU of a row.                                          *)
LEMMA PackTouches ==
  ASSUME NEW op, NEW row, IsSeq(row), NEW into, NEW pseudo, NEW name, RowOf[into.part] = name
  PROVE  Touches(Pack(op, row, into, pseudo), Places(op, name, 0, row), {})
<1> DEFINE f == Pack(op, row, into, pseudo)
<1>1. DOMAIN f = DOMAIN row /\ f = [i \in DOMAIN row |-> f[i]]
  BY DEF Pack
<1>2. ASSUME NEW i \in DOMAIN row
      PROVE  PutBy(f[i]) = {Place(op, name, 0, row, i)} /\ ReadBy(f[i]) = {}
  <2> DEFINE s == f[i]
             ins == <<row[i], into>>
             outs == pseudo[i]
             bytes == BytesOf(0, row, i)
  <2>1. s = Subop("KeyPacker", op, ins, outs, bytes)
    BY DEF Pack
  <2> HIDE DEF s, f, ins, outs, bytes
  <2>2. s.sort = "KeyPacker" /\ s.op = op /\ s.ins = ins /\ s.bytes = bytes
    BY <2>1, SubopParts DEF Is
  <2>3. ins[2] = into
    BY DEF ins
  <2>4. BytesIn(s, into) = {Place(op, name, 0, row, i)}
    BY <2>2, BytesOne DEF bytes
  <2>5. PutBy(s) = BytesIn(s, s.ins[2]) /\ ReadBy(s) = {}
    BY <2>2 DEF PutBy, ReadBy
  <2> QED BY <2>2, <2>3, <2>4, <2>5 DEF s
<1> HIDE DEF f
<1>3. Touches(f, UNION {PutBy(f[i]) : i \in DOMAIN row}, UNION {ReadBy(f[i]) : i \in DOMAIN row})
  BY <1>1, TouchesEach
<1>4. UNION {PutBy(f[i]) : i \in DOMAIN row} = Places(op, name, 0, row)
  BY <1>2 DEF Places
<1>5. UNION {ReadBy(f[i]) : i \in DOMAIN row} = {}
  BY <1>2
<1> QED BY <1>3, <1>4, <1>5 DEF f

(* Unpackers read every IU of a row.                                       *)
LEMMA UnpackTouches ==
  ASSUME NEW op, NEW row, IsSeq(row), NEW from, NEW name, RowOf[from.part] = name
  PROVE  Touches(Unpack(op, from, row), {}, Places(op, name, 0, row))
<1> DEFINE f == Unpack(op, from, row)
<1>1. DOMAIN f = DOMAIN row /\ f = [i \in DOMAIN row |-> f[i]]
  BY DEF Unpack
<1>2. ASSUME NEW i \in DOMAIN row
      PROVE  ReadBy(f[i]) = {Place(op, name, 0, row, i)} /\ PutBy(f[i]) = {}
  <2> DEFINE s == f[i]
             ins == <<from>>
             outs == <<row[i]>>
             bytes == BytesOf(0, row, i)
  <2>1. s = Subop("KeyUnpacker", op, ins, outs, bytes)
    BY DEF Unpack
  <2> HIDE DEF s, f, ins, outs, bytes
  <2>2. s.sort = "KeyUnpacker" /\ s.op = op /\ s.ins = ins /\ s.bytes = bytes
    BY <2>1, SubopParts DEF Is
  <2>3. ins[1] = from
    BY DEF ins
  <2>4. BytesIn(s, from) = {Place(op, name, 0, row, i)}
    BY <2>2, BytesOne DEF bytes
  <2>5. ReadBy(s) = BytesIn(s, s.ins[1]) /\ PutBy(s) = {}
    BY <2>2 DEF PutBy, ReadBy
  <2> QED BY <2>2, <2>3, <2>4, <2>5 DEF s
<1> HIDE DEF f
<1>3. Touches(f, UNION {PutBy(f[i]) : i \in DOMAIN row}, UNION {ReadBy(f[i]) : i \in DOMAIN row})
  BY <1>1, TouchesEach
<1>4. UNION {ReadBy(f[i]) : i \in DOMAIN row} = Places(op, name, 0, row)
  BY <1>2 DEF Places
<1>5. UNION {PutBy(f[i]) : i \in DOMAIN row} = {}
  BY <1>2
<1> QED BY <1>3, <1>4, <1>5 DEF f

(* The pointers to rows.                                                   *)
LEMMA Pointers ==
  ASSUME NEW op, NEW row
  PROVE  /\ RowOf[Pointer(op, "lookup_left").part] = "build"
         /\ RowOf[Pointer(op, "filtered_build").part] = "build"
         /\ RowOf[ByteArray(op, "scratch_pad_right", row).part] = "probe"
         /\ RowOf[Pointer(op, "filtered_probe").part] = "probe"
         /\ RowOf[ByteArray(op, "packed_ht_key", row).part] = "group"
         /\ RowOf[Pointer(op, "agg_pointer_result").part] = "group"
         /\ RowOf[Pointer(op, "ht_scan_result").part] = "group"
<1>1. /\ Pointer(op, "lookup_left").part = "lookup_left"
      /\ Pointer(op, "filtered_build").part = "filtered_build"
      /\ ByteArray(op, "scratch_pad_right", row).part = "scratch_pad_right"
      /\ Pointer(op, "filtered_probe").part = "filtered_probe"
      /\ ByteArray(op, "packed_ht_key", row).part = "packed_ht_key"
      /\ Pointer(op, "agg_pointer_result").part = "agg_pointer_result"
      /\ Pointer(op, "ht_scan_result").part = "ht_scan_result"
  BY DEF Pointer, ByteArray, Internal
<1>2. /\ RowOf["lookup_left"] = "build" /\ RowOf["filtered_build"] = "build"
      /\ RowOf["scratch_pad_right"] = "probe" /\ RowOf["filtered_probe"] = "probe"
      /\ RowOf["packed_ht_key"] = "group" /\ RowOf["agg_pointer_result"] = "group"
      /\ RowOf["ht_scan_result"] = "group"
  BY DEF RowOf
<1> QED BY <1>1, <1>2

(* The build side of a join packs its row (Join::decay).                   *)
LEMMA BuildTouches ==
  ASSUME NEW c, IsSeq(c.row)
  PROVE  Touches(BuildSubops(c), Places(c.op, "build", 0, c.row), {})
<1> DEFINE slot == Pointer(c.op, "lookup_left")
           s == Calling("materialize_tuple", "",
                  Subop("materialize_tuple", c.op, c.row, <<slot>>, << >>))
           pack == Pack(c.op, c.row, slot, NoPseudo(c.row))
           put == Places(c.op, "build", 0, c.row)
<1>1. BuildSubops(c) = <<s>> \o pack
  BY DEF BuildSubops
<1>2. PutBy(s) = {} /\ ReadBy(s) = {}
  <2>1. s.sort = "materialize_tuple"
    BY DEF Subop, Calling
  <2> HIDE DEF s
  <2> QED BY <2>1 DEF PutBy, ReadBy
<1>3. Touches(pack, put, {})
  <2>1. RowOf[slot.part] = "build"
    BY Pointers
  <2> DEFINE row == c.row
             pseudo == NoPseudo(c.row)
  <2>2. IsSeq(row)
    OBVIOUS
  <2> HIDE DEF slot, row, pseudo
  <2>3. Touches(Pack(c.op, row, slot, pseudo), Places(c.op, "build", 0, row), {})
    BY <2>1, <2>2, PackTouches
  <2> QED BY <2>3 DEF row, pseudo
<1> HIDE DEF s, pack, put
<1>4. Touches(<<s>>, {}, {})
  BY <1>2, TouchesOne
<1>5. Touches(<<s>> \o pack, {} \cup put, {} \cup {})
  BY <1>3, <1>4, TouchesConcat
<1> QED BY <1>1, <1>5 DEF put

(* The probe side packs its row, up to the lookup.                         *)
LEMMA LookupTouches ==
  ASSUME NEW c, IsSeq(c.row)
  PROVE  Touches(LookupSubops(c), Places(c.op, "probe", 0, c.row), {})
<1> DEFINE hash == Internal(c.op, "hash_right", "u8", 8)
           pad == Subop("ScratchPad", c.op, << >>, <<ScratchPad(c)>>, << >>)
           pack == Pack(c.op, c.row, ScratchPad(c), PseudoFor(c.op, c.row))
           prefetch == Calling(HashFunction(c.keyWidth), "", Subop("hash_and_prefetch", c.op,
                         <<ScratchPad(c)>> \o PseudoIUs(c.op, c.row), <<hash>>, << >>))
           lookup == Calling(LookupFunction(c), "", Subop("lookup_with_hash", c.op,
                       <<ScratchPad(c), hash>>, <<LookupResult(c)>>, << >>))
           put == Places(c.op, "probe", 0, c.row)
<1>1. LookupSubops(c) = (<<pad>> \o pack) \o <<prefetch, lookup>>
  BY DEF LookupSubops
<1>2. pad.sort = "ScratchPad"
  BY DEF Subop
<1>3. prefetch.sort = "hash_and_prefetch"
  BY DEF Subop, Calling
<1>4. lookup.sort = "lookup_with_hash"
  BY DEF Subop, Calling
<1>5. Touches(pack, put, {})
  <2> DEFINE into == ScratchPad(c)
             row == c.row
             pseudo == PseudoFor(c.op, c.row)
  <2>1. RowOf[into.part] = "probe"
    BY Pointers DEF ScratchPad
  <2>2. IsSeq(row)
    OBVIOUS
  <2> HIDE DEF into, row, pseudo
  <2>3. Touches(Pack(c.op, row, into, pseudo), Places(c.op, "probe", 0, row), {})
    BY <2>1, <2>2, PackTouches
  <2> QED BY <2>3 DEF row, into, pseudo
<1> HIDE DEF pad, pack, prefetch, lookup, put
<1>6. Touches(<<pad>>, {}, {})
  BY <1>2, TouchesOne DEF PutBy, ReadBy
<1>7. Touches(<<prefetch, lookup>>, {}, {})
  <2>1. ToSet(<<prefetch, lookup>>) = {prefetch, lookup}
    BY DEF ToSet
  <2>2. IsSeq(<<prefetch, lookup>>)
    BY <2>1 DEF IsSeq
  <2>3. prefetch.sort \in Rowless /\ lookup.sort \in Rowless
    BY <1>3, <1>4 DEF Rowless
  <2>4. \A kind : Does(kind, prefetch) = {} /\ Does(kind, lookup) = {}
    BY <2>3, RowlessTouches
  <2>5. \A kind : BySubops(kind, <<prefetch, lookup>>) = {}
    BY <2>1, <2>4 DEF BySubops
  <2> QED BY <2>2, <2>5 DEF Touches
<1>8. Touches(<<pad>> \o pack, {} \cup put, {} \cup {})
  BY <1>5, <1>6, TouchesConcat
<1> DEFINE first == <<pad>> \o pack
           second == <<prefetch, lookup>>
<1> HIDE DEF first, second
<1>9. Touches(first, put, {}) /\ Touches(second, {}, {})
  BY <1>7, <1>8 DEF first, second
<1>10. Touches(first \o second, put \cup {}, {} \cup {})
  BY <1>9, TouchesConcat
<1> QED BY <1>1, <1>10 DEF first, second, put

(* After the lookup, it unpacks the rows of both sides.                    *)
LEMMA MatchTouches ==
  ASSUME NEW c, IsSeq(c.outLeft), IsSeq(c.outRight)
  PROVE  Touches(MatchSubops(c), {},
                 Places(c.op, "build", 0, c.outLeft) \cup Places(c.op, "probe", 0, c.outRight))
<1> DEFINE build == Pointer(c.op, "filtered_build")
           probe == Pointer(c.op, "filtered_probe")
           semi == c.type = "LeftSemi"
           from == <<LookupResult(c)>> \o (IF semi THEN << >> ELSE <<ScratchPad(c)>>)
           to == <<build>> \o (IF semi THEN << >> ELSE <<probe>>)
           filter == FilterSubops(c.op, "ptr", LookupResult(c), FilterPseudo(c.op), from, to)
           left == Unpack(c.op, build, c.outLeft)
           right == Unpack(c.op, probe, c.outRight)
           readLeft == Places(c.op, "build", 0, c.outLeft)
           readRight == Places(c.op, "probe", 0, c.outRight)
<1>1. MatchSubops(c) = (filter \o left) \o right
  BY DEF MatchSubops
<1>2. IsSeq(from)
  <2> DEFINE result == LookupResult(c)
             pad == ScratchPad(c)
  <2> HIDE DEF result, pad
  <2>1. IsSeq(<<result>>) /\ IsSeq(<<pad>>) /\ IsSeq(<< >>)
    BY SeqOne, SeqNone
  <2>2. IsSeq(<<result>> \o << >>) /\ IsSeq(<<result>> \o <<pad>>)
    BY <2>1, SeqConcat
  <2> QED BY <2>2 DEF result, pad
<1>3. MadeBy(filter, c.op, {"ColumnFilterScope", "ColumnFilterLogic"}, "none")
  <2> HIDE DEF from, to
  <2> QED BY <1>2, FilterMade
<1>4. Touches(filter, {}, {})
  <2> HIDE DEF filter
  <2>1. {"ColumnFilterScope", "ColumnFilterLogic"} \subseteq Rowless
    BY DEF Rowless
  <2> QED BY <1>3, <2>1, TouchesNone
<1>5. Touches(left, {}, readLeft) /\ Touches(right, {}, readRight)
  <2>1. RowOf[build.part] = "build" /\ RowOf[probe.part] = "probe"
    BY Pointers
  <2> DEFINE rowLeft == c.outLeft
             rowRight == c.outRight
  <2>2. IsSeq(rowLeft) /\ IsSeq(rowRight)
    OBVIOUS
  <2> HIDE DEF build, probe, rowLeft, rowRight
  <2>3. Touches(Unpack(c.op, build, rowLeft), {}, Places(c.op, "build", 0, rowLeft))
    BY <2>1, <2>2, UnpackTouches
  <2>4. Touches(Unpack(c.op, probe, rowRight), {}, Places(c.op, "probe", 0, rowRight))
    BY <2>1, <2>2, UnpackTouches
  <2> QED BY <2>3, <2>4 DEF rowLeft, rowRight
<1> HIDE DEF filter, left, right, readLeft, readRight
<1>6. Touches(filter \o left, {} \cup {}, {} \cup readLeft)
  BY <1>4, <1>5, TouchesConcat
<1> DEFINE first == filter \o left
<1> HIDE DEF first
<1>7. Touches(first, {}, readLeft)
  BY <1>6 DEF first
<1>8. Touches(first \o right, {} \cup {}, readLeft \cup readRight)
  BY <1>5, <1>7, TouchesConcat
<1> QED BY <1>1, <1>8 DEF first, readLeft, readRight

(* An aggregation puts its keys, packed or as the one that it looks up, and*)
(* the granules after them (Aggregation::decay).                           *)
LEMMA AggregateTouches ==
  ASSUME NEW c, IsSeq(c.groupBy), IsSeq(c.granules)
  PROVE  Touches(AggregateSubops(c),
                 Places(c.op, "group", 0, c.groupBy)
                   \cup Places(c.op, "group", c.first, c.granules), {})
<1> DEFINE packed == ByteArray(c.op, "packed_ht_key", c.groupBy)
           group == Pointer(c.op, "agg_pointer_result")
           pseudo == PseudoFor(c.op, c.groupBy)
           function == CASE c.groupBy = << >> -> "ht_nk_lookup"
                         [] ComplexKey(c.groupBy) -> "ht_ck_lookup_or_insert"
                         [] OTHER -> "ht_sk_lookup_or_insert"
           LookedUp(ins, bytes) ==
             Calling(function, "", Subop("lookup_or_insert", c.op, ins, <<group>>, bytes))
           single == LookedUp(c.groupBy, BytesOf(0, c.groupBy, 1))
           pad == Subop("ScratchPad", c.op, << >>, <<packed>>, << >>)
           pack == Pack(c.op, c.groupBy, packed, pseudo)
           compound == LookedUp(IF c.groupBy = << >> THEN <<c.granules[1].iu>>
                                ELSE <<packed>> \o PseudoIUs(c.op, c.groupBy), << >>)
           f == [i \in DOMAIN c.granules |->
                  Calling(c.granules[i].state, "", Subop("Aggregator", c.op,
                    <<group, c.granules[i].iu>>, << >>, BytesOf(c.first, c.granules, i)))]
           lookup == IF Len(c.groupBy) = 1 THEN <<single>>
                     ELSE (<<pad>> \o pack) \o <<compound>>
           keys == Places(c.op, "group", 0, c.groupBy)
           payload == Places(c.op, "group", c.first, c.granules)
<1>1. AggregateSubops(c) = lookup \o f
  BY DEF AggregateSubops
<1>2. RowOf[group.part] = "group" /\ RowOf[packed.part] = "group"
  BY Pointers
<1>3. PutBy(pad) = {} /\ ReadBy(pad) = {}
  <2>1. pad.sort = "ScratchPad"
    BY DEF Subop
  <2> HIDE DEF pad
  <2> QED BY <2>1 DEF PutBy, ReadBy
<1>4. ASSUME NEW s, NEW ins, NEW bytes, s = LookedUp(ins, bytes)
      PROVE  /\ s.op = c.op /\ s.bytes = bytes
             /\ PutBy(s) = BytesIn(s, group) /\ ReadBy(s) = {}
  <2> DEFINE outs == <<group>>
  <2> HIDE DEF function, group, outs
  <2>1. s = Calling(function, "", Subop("lookup_or_insert", c.op, ins, outs, bytes))
    BY <1>4 DEF outs
  <2>2. s.sort = "lookup_or_insert" /\ s.op = c.op /\ s.outs = outs /\ s.bytes = bytes
    <3>1. Is(s, "lookup_or_insert", c.op, ins, outs, bytes)
      BY <2>1, SubopParts, Zenon
    <3> QED BY <3>1 DEF Is
  <2>3. outs[1] = group
    BY DEF outs
  <2>4. PutBy(s) = BytesIn(s, s.outs[1]) /\ ReadBy(s) = {}
    BY <2>2 DEF PutBy, ReadBy
  <2> QED BY <2>2, <2>3, <2>4
<1>5. PutBy(compound) = {} /\ ReadBy(compound) = {}
  <2>1. compound.bytes = << >> /\ PutBy(compound) = BytesIn(compound, group) /\ ReadBy(compound) = {}
    BY <1>4
  <2> HIDE DEF compound, group
  <2>2. BytesIn(compound, group) = {}
    BY <2>1, SeqNone DEF BytesIn
  <2> QED BY <2>1, <2>2
<1>6. Len(c.groupBy) = 1 => PutBy(single) = keys /\ ReadBy(single) = {}
  <2> SUFFICES ASSUME Len(c.groupBy) = 1 PROVE PutBy(single) = keys /\ ReadBy(single) = {}
    OBVIOUS
  <2>1. /\ single.op = c.op /\ single.bytes = BytesOf(0, c.groupBy, 1)
        /\ PutBy(single) = BytesIn(single, group) /\ ReadBy(single) = {}
    BY <1>4
  <2> HIDE DEF single, group
  <2>2. BytesIn(single, group) = {Place(c.op, "group", 0, c.groupBy, 1)}
    BY <1>2, <2>1, BytesOne
  <2>3. DOMAIN c.groupBy = {1}
    BY SeqElements
  <2>4. keys = {Place(c.op, "group", 0, c.groupBy, 1)}
    BY <2>3 DEF Places
  <2> HIDE DEF keys
  <2> QED BY <2>1, <2>2, <2>4
<1>7. Touches(pack, keys, {})
  <2> DEFINE row == c.groupBy
  <2>1. IsSeq(row)
    OBVIOUS
  <2> HIDE DEF packed, pseudo, row
  <2>2. Touches(Pack(c.op, row, packed, pseudo), Places(c.op, "group", 0, row), {})
    BY <1>2, <2>1, PackTouches
  <2> QED BY <2>2 DEF row
<1>8. ASSUME NEW i \in DOMAIN c.granules
      PROVE  PutBy(f[i]) = {Place(c.op, "group", c.first, c.granules, i)} /\ ReadBy(f[i]) = {}
  <2> DEFINE s == f[i]
             state == c.granules[i].state
             ins == <<group, c.granules[i].iu>>
             bytes == BytesOf(c.first, c.granules, i)
  <2>1. s = Calling(state, "", Subop("Aggregator", c.op, ins, << >>, bytes))
    OBVIOUS
  <2> HIDE DEF s, f, state, ins, bytes
  <2>2. s.sort = "Aggregator" /\ s.op = c.op /\ s.ins = ins /\ s.bytes = bytes
    <3>1. Is(s, "Aggregator", c.op, ins, << >>, bytes)
      BY <2>1, SubopParts, Zenon
    <3> QED BY <3>1 DEF Is
  <2>3. ins[1] = group
    BY DEF ins
  <2> HIDE DEF group
  <2>4. BytesIn(s, group) = {Place(c.op, "group", c.first, c.granules, i)}
    BY <1>2, <2>2, BytesOne DEF bytes
  <2>5. PutBy(s) = BytesIn(s, s.ins[1]) /\ ReadBy(s) = {}
    BY <2>2 DEF PutBy, ReadBy
  <2> QED BY <2>2, <2>3, <2>4, <2>5 DEF s
<1>9. Touches(f, payload, {})
  <2>1. DOMAIN f = DOMAIN c.granules /\ f = [i \in DOMAIN c.granules |-> f[i]]
    OBVIOUS
  <2> DEFINE q == c.granules
  <2> HIDE DEF f
  <2>2. Touches(f, UNION {PutBy(f[i]) : i \in DOMAIN q}, UNION {ReadBy(f[i]) : i \in DOMAIN q})
    BY <2>1, TouchesEach
  <2>3. UNION {PutBy(f[i]) : i \in DOMAIN q} = payload /\ UNION {ReadBy(f[i]) : i \in DOMAIN q} = {}
    BY <1>8 DEF Places
  <2> QED BY <2>2, <2>3
<1> HIDE DEF single, compound, pad, pack, f, keys, payload, LookedUp
<1>10. Touches(<<pad>>, {}, {}) /\ Touches(<<compound>>, {}, {})
  BY <1>3, <1>5, TouchesOne
<1>11. Touches(<<pad>> \o pack, {} \cup keys, {} \cup {})
  BY <1>7, <1>10, TouchesConcat
<1> DEFINE first == <<pad>> \o pack
           second == <<compound>>
<1>12. Touches(first \o second, keys \cup {}, {} \cup {})
  <2> HIDE DEF first, second
  <2>1. Touches(first, keys, {}) /\ Touches(second, {}, {})
    BY <1>10, <1>11 DEF first, second
  <2> QED BY <2>1, TouchesConcat
<1>13. Touches(lookup, keys, {})
  <2>1. CASE Len(c.groupBy) = 1
    <3>1. Touches(<<single>>, keys, {})
      BY <1>6, <2>1, TouchesOne
    <3> QED BY <2>1, <3>1
  <2>2. CASE Len(c.groupBy) # 1
    BY <1>12, <2>2
  <2> QED BY <2>1, <2>2
<1> HIDE DEF lookup
<1>14. Touches(lookup \o f, keys \cup payload, {} \cup {})
  BY <1>9, <1>13, TouchesConcat
<1> QED BY <1>1, <1>14 DEF keys, payload

(* Behind the table, the keys and the granules of results are read.        *)
LEMMA ReadGroupsTouches ==
  ASSUME NEW c, IsSeq(c.keys), IsSeq(c.results)
  PROVE  Touches(ReadGroupsSubops(c), {}, Places(c.op, "group", 0, c.keys) \cup ReadPlaces(c))
<1> DEFINE group == Pointer(c.op, "ht_scan_result")
           src == Calling(IF ComplexKey(c.keys) THEN "ck" ELSE "sk", "",
                    Subop("HashTableSource", c.op, << >>, <<group>>, << >>))
           unpack == Unpack(c.op, group, c.keys)
           f == [i \in DOMAIN c.results |->
                  Calling(IF Len(c.reads[i]) = 1 THEN "unpack" ELSE "avg", c.types[i],
                    Subop("AggReader", c.op, <<group>>, <<c.results[i]>>, c.reads[i]))]
           keys == Places(c.op, "group", 0, c.keys)
           results == ReadPlaces(c)
           At(b) == [op |-> c.op, row |-> "group", from |-> b[1], width |-> b[2]]
<1>1. ReadGroupsSubops(c) = (<<src>> \o unpack) \o f
  BY DEF ReadGroupsSubops
<1>2. RowOf[group.part] = "group"
  BY Pointers
<1>3. PutBy(src) = {} /\ ReadBy(src) = {}
  <2>1. src.sort = "HashTableSource"
    BY DEF Subop, Calling
  <2> HIDE DEF src
  <2> QED BY <2>1 DEF PutBy, ReadBy
<1>4. Touches(unpack, {}, keys)
  <2> DEFINE row == c.keys
  <2>1. IsSeq(row)
    OBVIOUS
  <2> HIDE DEF group, row
  <2>2. Touches(Unpack(c.op, group, row), {}, Places(c.op, "group", 0, row))
    BY <1>2, <2>1, UnpackTouches
  <2> QED BY <2>2 DEF row
<1>5. ASSUME NEW i \in DOMAIN c.results
      PROVE  PutBy(f[i]) = {} /\ ReadBy(f[i]) = {At(b) : b \in ToSet(c.reads[i])}
  <2> DEFINE s == f[i]
             fct == IF Len(c.reads[i]) = 1 THEN "unpack" ELSE "avg"
             ty == c.types[i]
             ins == <<group>>
             outs == <<c.results[i]>>
             bytes == c.reads[i]
  <2>1. s = Calling(fct, ty, Subop("AggReader", c.op, ins, outs, bytes))
    OBVIOUS
  <2> HIDE DEF s, f, fct, ty, ins, outs, bytes
  <2>2. s.sort = "AggReader" /\ s.op = c.op /\ s.ins = ins /\ s.bytes = bytes
    <3>1. Is(s, "AggReader", c.op, ins, outs, bytes)
      BY <2>1, SubopParts, Zenon
    <3> QED BY <3>1 DEF Is
  <2>3. ins[1] = group
    BY DEF ins
  <2> HIDE DEF group
  <2>4. BytesIn(s, group) = {At(b) : b \in ToSet(bytes)}
    BY <1>2, <2>2 DEF BytesIn
  <2>5. ReadBy(s) = BytesIn(s, s.ins[1]) /\ PutBy(s) = {}
    BY <2>2 DEF PutBy, ReadBy
  <2> QED BY <2>2, <2>3, <2>4, <2>5 DEF s, bytes
<1>6. Touches(f, {}, results)
  <2>1. DOMAIN f = DOMAIN c.results /\ f = [i \in DOMAIN c.results |-> f[i]]
    OBVIOUS
  <2> DEFINE q == c.results
  <2> HIDE DEF f
  <2>2. Touches(f, UNION {PutBy(f[i]) : i \in DOMAIN q}, UNION {ReadBy(f[i]) : i \in DOMAIN q})
    BY <2>1, TouchesEach
  <2>3. UNION {PutBy(f[i]) : i \in DOMAIN q} = {}
    BY <1>5
  <2>4. UNION {ReadBy(f[i]) : i \in DOMAIN q} = {At(b) : b \in UNION {ToSet(c.reads[k]) : k \in DOMAIN q}}
    <3> HIDE DEF At
    <3> QED BY <1>5
  <2> QED BY <2>2, <2>3, <2>4 DEF ReadPlaces
<1> HIDE DEF src, unpack, f, keys, results
<1>7. Touches(<<src>>, {}, {})
  BY <1>3, TouchesOne
<1>8. Touches(<<src>> \o unpack, {} \cup {}, {} \cup keys)
  BY <1>4, <1>7, TouchesConcat
<1> DEFINE first == <<src>> \o unpack
<1> HIDE DEF first
<1>9. Touches(first, {}, keys)
  BY <1>8 DEF first
<1>10. Touches(first \o f, {} \cup {}, keys \cup results)
  BY <1>6, <1>9, TouchesConcat
<1> QED BY <1>1, <1>10 DEF first, keys, results

-----------------------------------------------------------------------------
(* What pipelines put and read.                                            *)

Kinds == {"put", "read"}
BytesDone(pipes, d) ==
  \A kind \in Kinds : ByPipes(kind, pipes) = UNION {CallDoes(kind, calls[i]) : i \in 1 .. d}

(* Attaching suboperators adds what they do to what pipelines do.          *)
LEMMA AttachTouches ==
  ASSUME NEW pipes, PipesOK(pipes), Len(pipes) > 0, NEW subops, IsSeq(subops), NEW kind
  PROVE  ByPipes(kind, Attach(pipes, subops)) = ByPipes(kind, pipes) \cup BySubops(kind, subops)
<1> DEFINE n == Len(pipes)
           to == Attach(pipes, subops)
<1>1. /\ Len(to) = n
      /\ \A p \in 1 .. n : p # n => to[p] = pipes[p]
      /\ ToSet(to[n].subops) = ToSet(pipes[n].subops) \cup ToSet(subops)
  BY Attached
<1>2. n \in 1 .. n
  BY PipeAt
<1> HIDE DEF to, n
<1>3. \A p \in 1 .. n : p # n => BySubops(kind, to[p].subops) = BySubops(kind, pipes[p].subops)
  BY <1>1
<1>4. BySubops(kind, to[n].subops) = BySubops(kind, pipes[n].subops) \cup BySubops(kind, subops)
  BY <1>1 DEF BySubops
<1>5. ASSUME NEW x
      PROVE  (\E p \in 1 .. n : x \in BySubops(kind, to[p].subops))
               <=> (\E p \in 1 .. n : x \in BySubops(kind, pipes[p].subops))
                   \/ x \in BySubops(kind, subops)
  BY <1>2, <1>3, <1>4
<1>6. ByPipes(kind, to) = UNION {BySubops(kind, to[p].subops) : p \in 1 .. n}
  BY <1>1 DEF ByPipes
<1>7. ByPipes(kind, pipes) = UNION {BySubops(kind, pipes[p].subops) : p \in 1 .. n}
  BY DEF ByPipes, n
<1> QED BY <1>5, <1>6, <1>7 DEF to

(* disallowParallelCodegen leaves suboperators as they are.                *)
LEMMA SameTouches ==
  ASSUME NEW pipes, NEW to, Len(to) = Len(pipes),
         \A p \in 1 .. Len(pipes) : to[p].subops = pipes[p].subops, NEW kind
  PROVE  ByPipes(kind, to) = ByPipes(kind, pipes)
  BY DEF ByPipes

(* Closing continuations copies suboperators, and their sources touch no   *)
(* row (PipelineDAG::buildNewPipeline).                                    *)
LEMMA NewTouches ==
  ASSUME NEW pipes, NEW d \in Nat, DagOK(pipes, continuations, d), NEW kind
  PROVE  ByPipes(kind, BuildNewPipeline(pipes)) = ByPipes(kind, pipes)
<1> DEFINE to == BuildNewPipeline(pipes)
<1>1. /\ Len(to) \in Nat /\ Len(to) > Len(pipes)
      /\ \A p \in 1 .. Len(pipes) : to[p] = pipes[p]
      /\ \A p \in 1 .. Len(to) : \A s \in ToSet(to[p].subops) :
           \/ \E q \in 1 .. Len(pipes) : s \in ToSet(pipes[q].subops)
           \/ s.sort = "AtomicHashTableSource"
  BY NewPipelineBuilt
<1>2. Len(pipes) \in Nat
  BY PipeAt DEF DagOK
<1> HIDE DEF to
<1>3. \A x : x \in ByPipes(kind, to) <=>
        \E p \in 1 .. Len(to) : \E s \in ToSet(to[p].subops) : x \in Does(kind, s)
  BY PipesElements
<1>4. \A x : x \in ByPipes(kind, pipes) <=>
        \E p \in 1 .. Len(pipes) : \E s \in ToSet(pipes[p].subops) : x \in Does(kind, s)
  BY PipesElements
<1>5. \A p \in 1 .. Len(pipes) : p \in 1 .. Len(to)
  BY <1>1, <1>2
<1>6. ASSUME NEW x \in ByPipes(kind, pipes) PROVE x \in ByPipes(kind, to)
  <2>1. PICK p \in 1 .. Len(pipes) : \E s \in ToSet(pipes[p].subops) : x \in Does(kind, s)
    BY <1>4
  <2> QED BY <1>1, <1>3, <1>5, <2>1
<1>7. ASSUME NEW x \in ByPipes(kind, to) PROVE x \in ByPipes(kind, pipes)
  <2>1. PICK p \in 1 .. Len(to) : \E s \in ToSet(to[p].subops) : x \in Does(kind, s)
    BY <1>3
  <2>2. PICK s \in ToSet(to[p].subops) : x \in Does(kind, s)
    BY <2>1
  <2>3. s.sort # "AtomicHashTableSource"
    <3>1. "AtomicHashTableSource" \in Rowless
      BY DEF Rowless
    <3> QED BY <2>2, <3>1, RowlessTouches
  <2> QED BY <1>1, <1>4, <2>2, <2>3
<1> QED BY <1>6, <1>7 DEF to

(* A call that adds what its rows say.                                     *)
LEMMA DoneMore ==
  ASSUME NEW pipes, NEW d \in Nat, BytesDone(pipes, d), NEW to,
         \A kind \in Kinds : ByPipes(kind, to) = ByPipes(kind, pipes) \cup CallDoes(kind, calls[d + 1])
  PROVE  BytesDone(to, d + 1)
<1>1. \A i : i \in 1 .. d + 1 <=> i \in 1 .. d \/ i = d + 1
  OBVIOUS
<1>2. ASSUME NEW kind \in Kinds
      PROVE  UNION {CallDoes(kind, calls[i]) : i \in 1 .. d + 1}
               = CallDoes(kind, calls[d + 1]) \cup UNION {CallDoes(kind, calls[i]) : i \in 1 .. d}
  BY <1>1
<1> QED BY <1>2 DEF BytesDone

LEMMA DoneAttached ==
  ASSUME NEW pipes, PipesOK(pipes), Len(pipes) > 0, NEW d \in Nat, BytesDone(pipes, d), NEW subops,
         Touches(subops, CallPuts(calls[d + 1]), CallReads(calls[d + 1]))
  PROVE  BytesDone(Attach(pipes, subops), d + 1)
<1>1. \A kind \in Kinds : BySubops(kind, subops) = CallDoes(kind, calls[d + 1])
  BY DEF Touches, CallDoes, Kinds
<1>2. \A kind : ByPipes(kind, Attach(pipes, subops)) = ByPipes(kind, pipes) \cup BySubops(kind, subops)
  BY AttachTouches DEF Touches
<1> QED BY <1>1, <1>2, DoneMore

(* Calls that touch no row.                                                *)
LEMMA DoneNone ==
  ASSUME NEW pipes, PipesOK(pipes), Len(pipes) > 0, NEW d \in Nat, BytesDone(pipes, d), NEW subops,
         NEW op, NEW sorts, NEW name, MadeBy(subops, op, sorts, name), sorts \subseteq Rowless,
         calls[d + 1].call \in {"TableScan", "ExpressionOp", "Filter", "Print"}
  PROVE  BytesDone(Attach(pipes, subops), d + 1)
<1>1. Touches(subops, {}, {})
  BY TouchesNone
<1>2. CallPuts(calls[d + 1]) = {} /\ CallReads(calls[d + 1]) = {}
  BY DEF CallPuts, CallReads
<1> QED BY <1>1, <1>2, DoneAttached

(* Every call of decay puts and reads what its rows say.                   *)
LEMMA CallsDone ==
  ASSUME DagInv, Decay, BytesDone(pipelines, decayed)
  PROVE  BytesDone(pipelines', decayed + 1)
<1> DEFINE d == decayed
           c == calls[d + 1]
<1>1. ASSUME NEW call, Decaying(call)
      PROVE  /\ PlanInv /\ d \in Nat /\ d + 1 <= Len(calls)
             /\ StageOK(pipelines, continuations, d) /\ DagOK(pipelines, continuations, d)
             /\ PipesOK(pipelines) /\ (c.call # "TableScan" => Len(pipelines) > 0)
             /\ NextCall = c /\ c.call = call /\ ListsOK(c)
  <2>1. /\ PlanInv /\ d \in Nat /\ d + 1 <= Len(calls) /\ StageOK(pipelines, continuations, d)
        /\ NextCall = c /\ NextCall.call = call /\ ListsOK(NextCall)
    BY <1>1, DecayFacts
  <2>2. DagOK(pipelines, continuations, d) /\ PipesOK(pipelines)
    BY <2>1 DEF StageOK, DagOK
  <2>3. c.call # "TableScan" => Len(pipelines) > 0
    BY <2>1, CurrentStage
  <2> QED BY <2>1, <2>2, <2>3
<1>2. CASE DecayTableScan
  <2> DEFINE new == BuildNewPipeline(pipelines)
             subops == ScanSubops(c)
  <2>1. Decaying("TableScan") /\ pipelines' = Attach(BuildNewPipeline(pipelines), ScanSubops(NextCall))
    BY <1>2 DEF DecayTableScan
  <2>2. /\ d \in Nat /\ DagOK(pipelines, continuations, d) /\ NextCall = c
        /\ c.call = "TableScan" /\ ListsOK(c)
    BY <1>1, <2>1
  <2>3. PipesOK(new) /\ Len(new) > 0
    BY <2>2, NewPipelineBuilt DEF DagOK
  <2>4. BytesDone(new, d)
    <3>1. \A kind : ByPipes(kind, new) = ByPipes(kind, pipelines)
      BY <2>2, NewTouches
    <3> HIDE DEF new
    <3> QED BY <3>1 DEF BytesDone
  <2>5. MadeBy(subops, c.op, {"TScanDriver", "TScanIUProvider"}, "none")
    <3>1. IsSeq(c.ius)
      BY <2>2 DEF ListsOK
    <3> HIDE DEF c
    <3> QED BY <3>1, ScanMade
  <2>6. {"TScanDriver", "TScanIUProvider"} \subseteq Rowless
    BY DEF Rowless
  <2>7. pipelines' = Attach(new, subops)
    BY <2>1, <2>2
  <2> HIDE DEF new, subops
  <2>8. BytesDone(Attach(new, subops), d + 1)
    BY <2>2, <2>3, <2>4, <2>5, <2>6, DoneNone
  <2> QED BY <2>7, <2>8
<1>3. CASE DecayExpressionOp
  <2> DEFINE subops == ExpressionSubops(c)
  <2>1. Decaying("ExpressionOp") /\ pipelines' = Attach(pipelines, ExpressionSubops(NextCall))
    BY <1>3 DEF DecayExpressionOp, AttachToCurrent
  <2>2. /\ d \in Nat /\ PipesOK(pipelines) /\ Len(pipelines) > 0 /\ NextCall = c
        /\ c.call = "ExpressionOp" /\ ListsOK(c)
    BY <1>1, <2>1
  <2>3. MadeBy(subops, c.op, {"RuntimeExpression", "Expression"}, "none")
    <3>1. IsSeq(c.nodes)
      BY <2>2 DEF ListsOK
    <3> HIDE DEF c
    <3> QED BY <3>1, ExpressionMade
  <2>4. {"RuntimeExpression", "Expression"} \subseteq Rowless
    BY DEF Rowless
  <2>5. pipelines' = Attach(pipelines, subops)
    BY <2>1, <2>2
  <2> HIDE DEF subops
  <2>6. BytesDone(Attach(pipelines, subops), d + 1)
    BY <2>2, <2>3, <2>4, DoneNone
  <2> QED BY <2>5, <2>6
<1>4. CASE DecayFilter
  <2> DEFINE subops == FilterSubops(c.op, "bool", c.cond, FilterPseudo(c.op), c.old, c.new)
  <2>1. Decaying("Filter")
    BY <1>4 DEF DecayFilter
  <2>2. /\ d \in Nat /\ PipesOK(pipelines) /\ Len(pipelines) > 0 /\ NextCall = c
        /\ c.call = "Filter" /\ ListsOK(c)
    BY <1>1, <2>1
  <2>3. pipelines' = Attach(pipelines, subops)
    BY <1>4, <2>2 DEF DecayFilter, AttachToCurrent
  <2>4. MadeBy(subops, c.op, {"ColumnFilterScope", "ColumnFilterLogic"}, "none")
    <3>1. IsSeq(c.old)
      BY <2>2 DEF ListsOK
    <3> HIDE DEF c
    <3> QED BY <3>1, FilterMade
  <2>5. {"ColumnFilterScope", "ColumnFilterLogic"} \subseteq Rowless
    BY DEF Rowless
  <2> HIDE DEF subops
  <2>6. BytesDone(Attach(pipelines, subops), d + 1)
    BY <2>2, <2>4, <2>5, DoneNone
  <2> QED BY <2>3, <2>6
<1>5. CASE DecayBuildSide
  <2> DEFINE subops == BuildSubops(c)
  <2>1. Decaying("JoinBuild") /\ pipelines' = Attach(pipelines, BuildSubops(NextCall))
    BY <1>5 DEF DecayBuildSide
  <2>2. /\ d \in Nat /\ PipesOK(pipelines) /\ Len(pipelines) > 0 /\ NextCall = c
        /\ c.call = "JoinBuild" /\ ListsOK(c)
    BY <1>1, <2>1
  <2>3. Touches(subops, CallPuts(c), CallReads(c))
    <3>1. IsSeq(c.row)
      BY <2>2 DEF ListsOK
    <3>2. CallPuts(c) = Places(c.op, "build", 0, c.row) /\ CallReads(c) = {}
      BY <2>2 DEF CallPuts, CallReads
    <3> HIDE DEF c
    <3> QED BY <3>1, <3>2, BuildTouches
  <2>4. pipelines' = Attach(pipelines, subops)
    BY <2>1, <2>2
  <2> HIDE DEF subops
  <2>5. BytesDone(Attach(pipelines, subops), d + 1)
    BY <2>2, <2>3, DoneAttached
  <2> QED BY <2>4, <2>5
(* The suboperators of a probe, up to the lookup and after it.             *)
<1>6. ASSUME Decaying("JoinProbe")
      PROVE  /\ Touches(LookupSubops(c), CallPuts(c), {}) /\ Touches(MatchSubops(c), {}, CallReads(c))
  <2>1. c.call = "JoinProbe" /\ ListsOK(c)
    BY <1>1, <1>6
  <2>2. IsSeq(c.row) /\ IsSeq(c.outLeft) /\ IsSeq(c.outRight)
    BY <2>1 DEF ListsOK
  <2>3. /\ CallPuts(c) = Places(c.op, "probe", 0, c.row)
        /\ CallReads(c)
             = Places(c.op, "build", 0, c.outLeft) \cup Places(c.op, "probe", 0, c.outRight)
    BY <2>1 DEF CallPuts, CallReads
  <2> HIDE DEF c
  <2> QED BY <2>2, <2>3, LookupTouches, MatchTouches
<1>7. CASE DecayProbeSide
  <2> DEFINE first == LookupSubops(c)
             second == MatchSubops(c)
             subops == first \o second
  <2>1. Decaying("JoinProbe")
    BY <1>7 DEF DecayProbeSide
  <2>2. /\ d \in Nat /\ PipesOK(pipelines) /\ Len(pipelines) > 0 /\ NextCall = c
        /\ c.call = "JoinProbe"
    BY <1>1, <2>1
  <2>3. pipelines' = Attach(pipelines, subops)
    BY <1>7, <2>2 DEF DecayProbeSide, AttachToCurrent
  <2>4. Touches(subops, CallPuts(c), CallReads(c))
    <3> DEFINE put == CallPuts(c)
               read == CallReads(c)
    <3>1. Touches(first, put, {}) /\ Touches(second, {}, read)
      BY <1>6, <2>1
    <3> HIDE DEF first, second, put, read
    <3>2. Touches(first \o second, put \cup {}, {} \cup read)
      BY <3>1, TouchesConcat
    <3> QED BY <3>2 DEF put, read
  <2> HIDE DEF subops
  <2>5. BytesDone(Attach(pipelines, subops), d + 1)
    BY <2>2, <2>4, DoneAttached
  <2> QED BY <2>3, <2>5
<1>8. CASE DecayOuterProbeSide
  <2> DEFINE first == LookupSubops(c)
             second == MatchSubops(c)
             up == Attach(pipelines, first)
             stopped == StopParallelCodegen(up)
             to == Attach(stopped, second)
  <2>1. Decaying("JoinProbe")
    BY <1>8 DEF DecayOuterProbeSide
  <2>2. /\ PlanInv /\ d \in Nat /\ d + 1 <= Len(calls) /\ StageOK(pipelines, continuations, d)
        /\ PipesOK(pipelines) /\ Len(pipelines) > 0 /\ NextCall = c /\ c.call = "JoinProbe"
    BY <1>1, <2>1
  <2>3. pipelines' = to
    BY <1>8, <2>2, Zenon DEF DecayOuterProbeSide
  <2>4. Touches(first, CallPuts(c), {}) /\ Touches(second, {}, CallReads(c))
    BY <1>6, <2>1
  <2>5. DagOK(up, continuations, d + 1)
    BY <2>2, OuterStage
  <2> HIDE DEF first, second
  <2>6. Len(up) = Len(pipelines)
    BY <2>2, <2>4, Attached DEF Touches
  <2>7. \A kind : ByPipes(kind, up) = ByPipes(kind, pipelines) \cup BySubops(kind, first)
    BY <2>2, <2>4, AttachTouches DEF Touches
  <2> HIDE DEF up
  <2>8. /\ DagOK(stopped, continuations, d + 1) /\ Len(stopped) = Len(up)
        /\ \A p \in 1 .. Len(up) : stopped[p].subops = up[p].subops
    <3> DEFINE e == d + 1
    <3>1. e \in Nat /\ DagOK(up, continuations, e) /\ Len(up) > 0
      BY <2>2, <2>5, <2>6
    <3> HIDE DEF e
    <3> QED BY <3>1, StopOK DEF e
  <2> HIDE DEF stopped
  <2>9. \A kind : ByPipes(kind, stopped) = ByPipes(kind, up)
    BY <2>8, SameTouches
  <2>10. \A kind : ByPipes(kind, to) = ByPipes(kind, stopped) \cup BySubops(kind, second)
    <3>1. PipesOK(stopped) /\ Len(stopped) > 0
      BY <2>2, <2>6, <2>8 DEF DagOK
    <3> QED BY <2>4, <3>1, AttachTouches DEF Touches
  <2>11. \A kind \in Kinds :
           ByPipes(kind, to) = ByPipes(kind, pipelines) \cup CallDoes(kind, c)
    <3>1. \A kind : ByPipes(kind, to)
            = (ByPipes(kind, pipelines) \cup BySubops(kind, first)) \cup BySubops(kind, second)
      BY <2>7, <2>9, <2>10
    <3>2. /\ BySubops("put", first) = CallPuts(c) /\ BySubops("read", first) = {}
          /\ BySubops("put", second) = {} /\ BySubops("read", second) = CallReads(c)
      BY <2>4 DEF Touches
    <3> QED BY <3>1, <3>2 DEF Kinds, CallDoes
  <2> HIDE DEF to
  <2>12. BytesDone(to, d + 1)
    BY <2>2, <2>11, DoneMore
  <2> QED BY <2>3, <2>12
<1>9. CASE DecayAggregation
  <2> DEFINE first == AggregateSubops(c)
             second == ReadGroupsSubops(c)
             agg == Attach(pipelines, first)
             new == BuildNewPipeline(agg)
             to == Attach(new, second)
  <2>1. Decaying("Aggregation")
    BY <1>9 DEF DecayAggregation
  <2>2. /\ PlanInv /\ d \in Nat /\ d + 1 <= Len(calls) /\ StageOK(pipelines, continuations, d)
        /\ PipesOK(pipelines) /\ Len(pipelines) > 0 /\ NextCall = c /\ c.call = "Aggregation"
        /\ ListsOK(c)
    BY <1>1, <2>1
  <2>3. pipelines' = to
    BY <1>9, <2>2, Zenon DEF DecayAggregation
  <2>4. Touches(first, CallPuts(c), {}) /\ Touches(second, {}, CallReads(c))
    <3>1. IsSeq(c.groupBy) /\ IsSeq(c.granules) /\ IsSeq(c.keys) /\ IsSeq(c.results)
      BY <2>2 DEF ListsOK
    <3>2. /\ CallPuts(c) = Places(c.op, "group", 0, c.groupBy)
                             \cup Places(c.op, "group", c.first, c.granules)
          /\ CallReads(c) = Places(c.op, "group", 0, c.keys) \cup ReadPlaces(c)
      BY <2>2 DEF CallPuts, CallReads
    <3> HIDE DEF c
    <3> QED BY <3>1, <3>2, AggregateTouches, ReadGroupsTouches
  <2>5. DagOK(agg, continuations, d + 1)
    BY <2>2, AggregationStage
  <2> HIDE DEF first, second
  <2>6. \A kind : ByPipes(kind, agg) = ByPipes(kind, pipelines) \cup BySubops(kind, first)
    BY <2>2, <2>4, AttachTouches DEF Touches
  <2> HIDE DEF agg
  <2>7. PipesOK(new) /\ Len(new) > 0 /\ \A kind : ByPipes(kind, new) = ByPipes(kind, agg)
    <3> DEFINE e == d + 1
    <3>1. e \in Nat /\ DagOK(agg, continuations, e)
      BY <2>2, <2>5
    <3> HIDE DEF e
    <3>2. PipesOK(new) /\ Len(new) > 0
      BY <3>1, NewPipelineBuilt DEF DagOK
    <3>3. \A kind : ByPipes(kind, new) = ByPipes(kind, agg)
      BY <3>1, NewTouches
    <3> QED BY <3>2, <3>3
  <2> HIDE DEF new
  <2>8. \A kind : ByPipes(kind, to) = ByPipes(kind, new) \cup BySubops(kind, second)
    BY <2>4, <2>7, AttachTouches DEF Touches
  <2>9. \A kind \in Kinds :
           ByPipes(kind, to) = ByPipes(kind, pipelines) \cup CallDoes(kind, c)
    <3>1. \A kind : ByPipes(kind, to)
            = (ByPipes(kind, pipelines) \cup BySubops(kind, first)) \cup BySubops(kind, second)
      BY <2>6, <2>7, <2>8
    <3>2. /\ BySubops("put", first) = CallPuts(c) /\ BySubops("read", first) = {}
          /\ BySubops("put", second) = {} /\ BySubops("read", second) = CallReads(c)
      BY <2>4 DEF Touches
    <3> QED BY <3>1, <3>2 DEF Kinds, CallDoes
  <2> HIDE DEF to
  <2>10. BytesDone(to, d + 1)
    BY <2>2, <2>9, DoneMore
  <2> QED BY <2>3, <2>10
<1>10. CASE DecayPrint
  <2> DEFINE subops == PrintSubops(c)
  <2>1. Decaying("Print") /\ pipelines' = Attach(pipelines, PrintSubops(NextCall))
    BY <1>10 DEF DecayPrint, AttachToCurrent
  <2>2. /\ d \in Nat /\ PipesOK(pipelines) /\ Len(pipelines) > 0 /\ NextCall = c
        /\ c.call = "Print" /\ ListsOK(c)
    BY <1>1, <2>1
  <2>3. MadeBy(subops, c.op, {"FuseChunkSink"}, "none")
    <3>1. IsSeq(c.ius)
      BY <2>2 DEF ListsOK
    <3> HIDE DEF c
    <3> QED BY <3>1, PrintMade
  <2>4. {"FuseChunkSink"} \subseteq Rowless
    BY DEF Rowless
  <2>5. pipelines' = Attach(pipelines, subops)
    BY <2>1, <2>2
  <2> HIDE DEF subops
  <2>6. BytesDone(Attach(pipelines, subops), d + 1)
    BY <2>2, <2>3, <2>4, DoneNone
  <2> QED BY <2>5, <2>6
<1> QED BY <1>2, <1>3, <1>4, <1>5, <1>7, <1>8, <1>9, <1>10 DEF Decay

-----------------------------------------------------------------------------
(* Rows of a plan.                                                         *)

(* Rows are packed: nothing is between two IUs. What a join provides is as *)
(* wide as what it materialized, and the keys of groups as what they group *)
(* by; the granules begin after those, and a result is read from some.     *)
Packed(row) ==
  \A k \in DOMAIN row :
    /\ row[k].size \in Nat
    /\ WidthOf(SubSeq(row, 1, k)) = WidthOf(SubSeq(row, 1, k - 1)) + row[k].size
AsWide(a, b) == Len(a) = Len(b) /\ \A k \in DOMAIN a : a[k].size = b[k].size
RowPacked(cs, i) ==
  LET c == cs[i]
  IN /\ c.call = "JoinBuild" => Packed(c.row)
     /\ c.call = "JoinProbe" =>
          /\ Packed(c.row) /\ Packed(c.outLeft) /\ Packed(c.outRight)
          /\ \E j \in 1 .. i - 1 :
               cs[j].call = "JoinBuild" /\ cs[j].op = c.op /\ AsWide(c.outLeft, cs[j].row)
          /\ c.outRight # << >> => AsWide(c.outRight, c.row)
     /\ c.call = "Aggregation" =>
          /\ Packed(c.groupBy) /\ Packed(c.keys) /\ Packed(c.granules)
          /\ AsWide(c.keys, c.groupBy)
          /\ c.first \in Nat /\ c.first >= WidthOf(c.groupBy)
          /\ \A k \in DOMAIN c.results : \A place \in ToSet(c.reads[k]) :
               \E g \in DOMAIN c.granules :
                 place = <<c.first + WidthOf(SubSeq(c.granules, 1, g - 1)), c.granules[g].size>>

(* An offset grows with what is before it.                                 *)
LEMMA Growing ==
  ASSUME NEW n \in Nat, NEW w, w[0] \in Nat, \A k \in 1 .. n : \E z \in Nat : w[k] = w[k - 1] + z
  PROVE  \A k \in 0 .. n : \A m \in 0 .. k : w[m] \in Nat /\ w[m] <= w[k]
<1> DEFINE A == {k \in Nat : k <= n => \A m \in 0 .. k : w[m] \in Nat /\ w[m] <= w[k]}
<1>1. 0 \in A
  OBVIOUS
<1>2. ASSUME NEW k \in A PROVE k + 1 \in A
  <2> SUFFICES ASSUME k + 1 <= n
               PROVE  \A m \in 0 .. k + 1 : w[m] \in Nat /\ w[m] <= w[k + 1]
    OBVIOUS
  <2>1. /\ k \in Nat /\ k \in 0 .. k /\ k + 1 \in 1 .. n /\ (k + 1) - 1 = k
        /\ \A m \in 0 .. k : w[m] \in Nat /\ w[m] <= w[k]
    OBVIOUS
  <2>2. PICK z \in Nat : w[k + 1] = w[(k + 1) - 1] + z
    BY <2>1
  <2>3. w[k] \in Nat /\ w[k + 1] = w[k] + z
    BY <2>1, <2>2
  <2>4. ASSUME NEW m \in 0 .. k PROVE w[m] \in Nat /\ w[m] <= w[k + 1]
    BY <2>1, <2>3
  <2>5. w[k + 1] \in Nat /\ w[k + 1] <= w[k + 1]
    BY <2>3
  <2>6. \A m \in 0 .. k + 1 : m \in 0 .. k \/ m = k + 1
    BY <2>1
  <2> QED BY <2>4, <2>5, <2>6
<1>3. Nat \subseteq A
  <2> HIDE DEF A
  <2> QED BY <1>1, <1>2, NaturalInduction
<1>4. \A k \in 0 .. n : k \in A /\ k <= n
  BY <1>3
<1> QED BY <1>4

(* Offsets that grow alike are the same.                                   *)
GrowAlike(n, v, w) ==
  /\ v[0] = w[0]
  /\ \A k \in 1 .. n : \E z \in Nat : v[k] = v[k - 1] + z /\ w[k] = w[k - 1] + z
LEMMA GrowingAlike ==
  ASSUME NEW n \in Nat, NEW v, NEW w, GrowAlike(n, v, w)
  PROVE  \A k \in 0 .. n : v[k] = w[k]
<1> DEFINE A == {k \in Nat : k <= n => v[k] = w[k]}
<1>1. 0 \in A
  BY DEF GrowAlike
<1>2. ASSUME NEW k \in A PROVE k + 1 \in A
  <2> SUFFICES ASSUME k + 1 <= n PROVE v[k + 1] = w[k + 1]
    OBVIOUS
  <2>1. k \in Nat /\ k + 1 \in 1 .. n /\ (k + 1) - 1 = k /\ v[k] = w[k]
    OBVIOUS
  <2>2. PICK z \in Nat : v[k + 1] = v[k] + z /\ w[k + 1] = w[k] + z
    BY <2>1 DEF GrowAlike
  <2> QED BY <2>1, <2>2
<1>3. Nat \subseteq A
  <2> HIDE DEF A
  <2> QED BY <1>1, <1>2, NaturalInduction
<1>4. \A k \in 0 .. n : k \in A /\ k <= n
  BY <1>3
<1> QED BY <1>4

(* The first IUs of a row: none, and all of them.                          *)
LEMMA RowPrefixes ==
  ASSUME NEW row, IsSeq(row)
  PROVE  SubSeq(row, 1, 0) = << >> /\ SubSeq(row, 1, Len(row)) = row
<1> DEFINE S == ToSet(row)
<1>1. row \in Seq(S)
  BY DEF IsSeq
<1> HIDE DEF S
<1>2. SubSeq(row, 1, 0) = << >>
  BY <1>1
<1>3. SubSeq(row, 1, Len(row)) = row
  BY <1>1, SubSeqFull
<1> QED BY <1>2, <1>3

(* IUs of a packed row follow one another, up to its width.                *)
LEMMA PackedOffsets ==
  ASSUME NEW row, IsSeq(row), Packed(row), WidthOf(<< >>) = 0, NEW from \in Nat
  PROVE  /\ WidthOf(row) \in Nat
         /\ \A i \in DOMAIN row :
              /\ row[i].size \in Nat /\ Begin(from, row, i) \in Nat /\ Begin(from, row, i) >= from
              /\ Begin(from, row, i) + row[i].size <= from + WidthOf(row)
              /\ \A j \in DOMAIN row :
                   i < j => Begin(from, row, i) + row[i].size <= Begin(from, row, j)
<1> DEFINE n == Len(row)
           w == [k \in 0 .. n |-> WidthOf(SubSeq(row, 1, k))]
<1>1. n \in Nat /\ DOMAIN row = 1 .. n
  BY SeqElements
<1>2. w[0] = 0 /\ w[n] = WidthOf(row)
  <2>1. WidthOf(SubSeq(row, 1, 0)) = 0 /\ WidthOf(SubSeq(row, 1, Len(row))) = WidthOf(row)
    BY RowPrefixes, Zenon
  <2>2. 0 \in 0 .. n /\ n \in 0 .. n
    BY <1>1
  <2> QED BY <2>1, <2>2, Zenon
<1>3. \A k \in 1 .. n : row[k].size \in Nat /\ w[k] = w[k - 1] + row[k].size
  <2> TAKE k \in 1 .. n
  <2>1. k \in 0 .. n /\ k - 1 \in 0 .. n
    BY <1>1
  <2>2. /\ row[k].size \in Nat
        /\ WidthOf(SubSeq(row, 1, k)) = WidthOf(SubSeq(row, 1, k - 1)) + row[k].size
    BY <1>1 DEF Packed
  <2> QED BY <2>1, <2>2
<1>4. \A k \in 1 .. n : Begin(from, row, k) = from + w[k - 1]
  <2> TAKE k \in 1 .. n
  <2>1. k - 1 \in 0 .. n
    BY <1>1
  <2> QED BY <2>1 DEF Begin
<1> HIDE DEF w
<1>5. \A k \in 0 .. n : \A m \in 0 .. k : w[m] \in Nat /\ w[m] <= w[k]
  <2>1. w[0] \in Nat /\ \A k \in 1 .. n : \E z \in Nat : w[k] = w[k - 1] + z
    BY <1>2, <1>3
  <2> HIDE DEF n
  <2> QED BY <1>1, <2>1, Growing
<1> HIDE DEF n
<1>6. WidthOf(row) \in Nat
  BY <1>1, <1>2, <1>5
<1>7. ASSUME NEW i \in 1 .. n
      PROVE  /\ row[i].size \in Nat /\ Begin(from, row, i) \in Nat /\ Begin(from, row, i) >= from
             /\ Begin(from, row, i) + row[i].size <= from + WidthOf(row)
  <2>1. w[i - 1] \in Nat /\ w[i] \in Nat /\ w[i] <= w[n] /\ w[n] \in Nat
    <3>1. i - 1 \in 0 .. n /\ i \in 0 .. n /\ n \in 0 .. n /\ i - 1 \in 0 .. i /\ i \in 0 .. i
      BY <1>1
    <3> QED BY <1>1, <1>5, <3>1
  <2> QED BY <1>2, <1>3, <1>4, <2>1
<1>8. ASSUME NEW i \in 1 .. n, NEW j \in 1 .. n, i < j
      PROVE  Begin(from, row, i) + row[i].size <= Begin(from, row, j)
  <2>1. w[i - 1] \in Nat /\ w[i] \in Nat /\ w[j - 1] \in Nat /\ w[i] <= w[j - 1]
    <3>1. i - 1 \in 0 .. n /\ i \in 0 .. n /\ j - 1 \in 0 .. n /\ i - 1 \in 0 .. i /\ i \in 0 .. j - 1
          /\ j - 1 \in 0 .. j - 1
      BY <1>1, <1>8
    <3> QED BY <1>1, <1>5, <3>1
  <2>2. /\ Begin(from, row, i) = from + w[i - 1] /\ Begin(from, row, j) = from + w[j - 1]
        /\ row[i].size \in Nat /\ w[i] = w[i - 1] + row[i].size
    BY <1>3, <1>4
  <2> QED BY <2>1, <2>2
<1> QED BY <1>1, <1>6, <1>7, <1>8

(* IUs of rows that are as wide are at the same bytes.                     *)
LEMMA SamePlaces ==
  ASSUME NEW a, NEW b, IsSeq(a), IsSeq(b), Packed(a), Packed(b), AsWide(a, b),
         NEW op, NEW name, NEW from
  PROVE  Places(op, name, from, a) = Places(op, name, from, b)
<1> DEFINE n == Len(a)
           v == [k \in 0 .. n |-> WidthOf(SubSeq(a, 1, k))]
           w == [k \in 0 .. n |-> WidthOf(SubSeq(b, 1, k))]
<1>1. n \in Nat /\ DOMAIN a = 1 .. n /\ DOMAIN b = 1 .. n
  BY SeqElements DEF AsWide
<1>2. v[0] = w[0]
  <2>1. WidthOf(SubSeq(a, 1, 0)) = WidthOf(SubSeq(b, 1, 0))
    BY RowPrefixes, Zenon
  <2>2. 0 \in 0 .. n
    BY <1>1
  <2> QED BY <2>1, <2>2, Zenon
<1>3. \A k \in 1 .. n : \E z \in Nat : v[k] = v[k - 1] + z /\ w[k] = w[k - 1] + z
  <2> TAKE k \in 1 .. n
  <2>1. k \in 0 .. n /\ k - 1 \in 0 .. n
    BY <1>1
  <2>2. /\ WidthOf(SubSeq(a, 1, k)) = WidthOf(SubSeq(a, 1, k - 1)) + a[k].size
        /\ WidthOf(SubSeq(b, 1, k)) = WidthOf(SubSeq(b, 1, k - 1)) + b[k].size
    BY <1>1 DEF Packed
  <2>3. a[k].size \in Nat /\ a[k].size = b[k].size
    BY <1>1 DEF AsWide, Packed
  <2>4. v[k] = WidthOf(SubSeq(a, 1, k)) /\ v[k - 1] = WidthOf(SubSeq(a, 1, k - 1))
    BY <2>1
  <2>5. w[k] = WidthOf(SubSeq(b, 1, k)) /\ w[k - 1] = WidthOf(SubSeq(b, 1, k - 1))
    BY <2>1
  <2> HIDE DEF v, w
  <2> QED BY <2>2, <2>3, <2>4, <2>5
<1>4. \A k \in 0 .. n : v[k] = w[k]
  <2>1. n \in Nat /\ GrowAlike(n, v, w)
    BY <1>1, <1>2, <1>3 DEF GrowAlike
  <2> HIDE DEF n, v, w
  <2> QED BY <2>1, GrowingAlike
<1>5. \A k \in 1 .. n : Place(op, name, from, a, k) = Place(op, name, from, b, k)
  <2> TAKE k \in 1 .. n
  <2>1. k - 1 \in 0 .. n
    BY <1>1
  <2>2. WidthOf(SubSeq(a, 1, k - 1)) = WidthOf(SubSeq(b, 1, k - 1)) /\ a[k].size = b[k].size
    BY <1>1, <1>4, <2>1 DEF AsWide
  <2> QED BY <2>2 DEF Place, Begin
<1> QED BY <1>1, <1>5 DEF Places

(* No two IUs of a row touch the same byte.                                *)
Apart(a, b) == a.from + a.width <= b.from \/ b.from + b.width <= a.from
LEMMA PlacesApart ==
  ASSUME NEW row, IsSeq(row), Packed(row), WidthOf(<< >>) = 0, NEW op, NEW name, NEW from \in Nat,
         NEW a \in Places(op, name, from, row), NEW b \in Places(op, name, from, row), a # b
  PROVE  Apart(a, b)
<1>1. PICK i \in DOMAIN row : a = Place(op, name, from, row, i)
  BY DEF Places
<1>2. PICK j \in DOMAIN row : b = Place(op, name, from, row, j)
  BY DEF Places
<1>3. a.from = Begin(from, row, i) /\ a.width = row[i].size
  BY <1>1 DEF Place
<1>4. b.from = Begin(from, row, j) /\ b.width = row[j].size
  BY <1>2 DEF Place
<1>5. i < j \/ j < i
  <2>1. i # j
    BY <1>1, <1>2
  <2>2. i \in Int /\ j \in Int
    BY SeqElements
  <2> QED BY <2>1, <2>2
<1>6. /\ i < j => Begin(from, row, i) + row[i].size <= Begin(from, row, j)
      /\ j < i => Begin(from, row, j) + row[j].size <= Begin(from, row, i)
  BY PackedOffsets
<1> QED BY <1>3, <1>4, <1>5, <1>6 DEF Apart

(* The state of a group begins after its keys.                             *)
LEMMA StateApart ==
  ASSUME NEW keys, IsSeq(keys), Packed(keys), NEW state, IsSeq(state), Packed(state),
         WidthOf(<< >>) = 0, NEW first \in Nat, first >= WidthOf(keys), NEW op, NEW name,
         NEW a \in Places(op, name, 0, keys), NEW b \in Places(op, name, first, state)
  PROVE  Apart(a, b) /\ Apart(b, a)
<1>1. PICK i \in DOMAIN keys : a = Place(op, name, 0, keys, i)
  BY DEF Places
<1>2. PICK j \in DOMAIN state : b = Place(op, name, first, state, j)
  BY DEF Places
<1>3. a.from = Begin(0, keys, i) /\ a.width = keys[i].size
  BY <1>1 DEF Place
<1>4. b.from = Begin(first, state, j)
  BY <1>2 DEF Place
<1>5. /\ Begin(0, keys, i) + keys[i].size <= 0 + WidthOf(keys) /\ WidthOf(keys) \in Nat
      /\ Begin(0, keys, i) \in Nat /\ keys[i].size \in Nat
  BY PackedOffsets
<1>6. Begin(first, state, j) >= first /\ Begin(first, state, j) \in Nat
  BY PackedOffsets
<1>7. a.from + a.width <= b.from
  BY <1>3, <1>4, <1>5, <1>6
<1> QED BY <1>7 DEF Apart

-----------------------------------------------------------------------------
(* The layout that QueryPlans gives its rows.                              *)

(* A width is a sum, one IU after the other.                               *)
LEMMA WidthAdds ==
  ASSUME NEW row, IsSeq(row)
  PROVE  \E e : /\ e[0] = 0
                /\ \A k \in 1 .. Len(row) : e[k] = e[k - 1] + row[k].size
                /\ Width(row) = e[Len(row)]
<1> DEFINE IsFold(f, m) ==
             f = [s \in SUBSET (1 .. m) |->
                    IF s = {} THEN 0 ELSE f[s \ {Max(s)}] + row[Max(s)].size]
           A == {m \in Nat : \E f : IsFold(f, m)}
<1>1. Len(row) \in Nat /\ DOMAIN row = 1 .. Len(row)
  BY SeqElements
<1>2. Width(row) = (CHOOSE f : IsFold(f, Len(row)))[1 .. Len(row)]
  BY <1>1 DEF Width, FoldLeft, MapThenFoldSet
<1>3. 0 \in A
  <2>1. IsFold([s \in {{}} |-> 0], 0)
    OBVIOUS
  <2> HIDE DEF IsFold
  <2> QED BY <2>1
<1>4. ASSUME NEW m \in A PROVE m + 1 \in A
  <2>1. PICK f : IsFold(f, m)
    OBVIOUS
  <2> DEFINE g == [s \in SUBSET (1 .. m + 1) |->
                     IF m + 1 \in s THEN f[s \ {m + 1}] + row[m + 1].size ELSE f[s]]
  <2>2. \A s \in SUBSET (1 .. m + 1) : m + 1 \notin s <=> s \in SUBSET (1 .. m)
    OBVIOUS
  <2>3. \A s \in SUBSET (1 .. m) : g[s] = f[s]
    BY <2>2
  <2>4. ASSUME NEW s \in SUBSET (1 .. m + 1), m + 1 \in s
        PROVE  /\ Max(s) = m + 1 /\ s # {}
               /\ g[s] = g[s \ {Max(s)}] + row[Max(s)].size
    <3>1. \A y \in s : y \in Nat /\ y <= m + 1
      OBVIOUS
    <3>2. \A x \in s : (\A y \in s : x >= y) => x = m + 1
      BY <2>4, <3>1
    <3>3. Max(s) = m + 1
      BY <2>4, <3>1, <3>2 DEF Max
    <3>4. s \ {m + 1} \in SUBSET (1 .. m)
      BY <3>1
    <3>5. g[s] = f[s \ {m + 1}] + row[m + 1].size
      BY <2>4
    <3>6. g[s \ {m + 1}] = f[s \ {m + 1}]
      BY <2>3, <3>4
    <3> QED BY <2>4, <3>3, <3>5, <3>6
  <2>5. ASSUME NEW s \in SUBSET (1 .. m), s # {}
        PROVE  g[s] = g[s \ {Max(s)}] + row[Max(s)].size
    <3>1. g[s] = f[s \ {Max(s)}] + row[Max(s)].size
      BY <2>1, <2>3, <2>5
    <3>2. g[s \ {Max(s)}] = f[s \ {Max(s)}]
      BY <2>3
    <3> QED BY <3>1, <3>2
  <2>6. g[{}] = 0
    BY <2>1, <2>3
  <2>7. g = [s \in SUBSET (1 .. m + 1) |-> g[s]]
    OBVIOUS
  <2>8. IsFold(g, m + 1)
    <3> HIDE DEF g
    <3>1. \A s \in SUBSET (1 .. m + 1) :
            g[s] = IF s = {} THEN 0 ELSE g[s \ {Max(s)}] + row[Max(s)].size
      BY <2>2, <2>4, <2>5, <2>6
    <3> QED BY <2>7, <3>1
  <2> HIDE DEF IsFold, g
  <2> QED BY <2>8
<1>5. Len(row) \in A
  <2> HIDE DEF A
  <2>1. Nat \subseteq A
    BY <1>3, <1>4, NaturalInduction
  <2> QED BY <1>1, <2>1
<1>6. PICK f : IsFold(f, Len(row)) /\ Width(row) = f[1 .. Len(row)]
  <2>1. \E f : IsFold(f, Len(row))
    BY <1>5
  <2> HIDE DEF IsFold
  <2> QED BY <1>2, <2>1
<1> DEFINE n == Len(row)
           e == [k \in 0 .. n |-> f[1 .. k]]
<1>7. e[0] = 0
  BY <1>1, <1>6
<1>8. ASSUME NEW k \in 1 .. n PROVE e[k] = e[k - 1] + row[k].size
  <2>1. k \in Nat /\ 1 .. k \in SUBSET (1 .. n) /\ 1 .. k # {} /\ k \in 0 .. n /\ k - 1 \in 0 .. n
    BY <1>1, SMTT(60)
  <2>2. Max(1 .. k) = k
    <3>1. \A x \in 1 .. k : (\A y \in 1 .. k : x >= y) => x = k
      OBVIOUS
    <3>2. k \in 1 .. k /\ \A y \in 1 .. k : k >= y
      OBVIOUS
    <3> QED BY <3>1, <3>2 DEF Max
  <2>3. (1 .. k) \ {k} = 1 .. k - 1
    BY <2>1
  <2>4. f[1 .. k] = f[1 .. k - 1] + row[k].size
    BY <1>6, <2>1, <2>2, <2>3
  <2> QED BY <2>1, <2>4
<1> HIDE DEF IsFold
<1>9. e[n] = Width(row)
  BY <1>1, <1>6
<1> HIDE DEF e
<1> QED BY <1>7, <1>8, <1>9

(* The first IUs of a row are a row.                                       *)
LEMMA FirstOnes ==
  ASSUME NEW row, IsSeq(row), NEW m \in 0 .. Len(row)
  PROVE  /\ IsSeq(SubSeq(row, 1, m)) /\ Len(SubSeq(row, 1, m)) = m
         /\ \A k \in 1 .. m : SubSeq(row, 1, m)[k] = row[k]
<1> DEFINE a == SubSeq(row, 1, m)
<1>1. Len(row) \in Nat /\ m \in Nat
  BY SeqElements
<1>2. a = [k \in 1 .. m |-> row[k]]
  <2>1. a = [k \in 1 .. (m - 1) + 1 |-> row[k + 1 - 1]]
    BY <1>1
  <2> HIDE DEF a
  <2>2. (m - 1) + 1 = m /\ \A k \in 1 .. m : k + 1 - 1 = k
    BY <1>1
  <2> QED BY <2>1, <2>2
<1> HIDE DEF a
<1>3. DOMAIN a = 1 .. m /\ a = [k \in 1 .. m |-> a[k]] /\ \A k \in 1 .. m : a[k] = row[k]
  BY <1>2
<1>4. IsSeq(a) /\ Len(a) = m
  BY <1>1, <1>3, SeqMade
<1> QED BY <1>3, <1>4 DEF a

(* An IU adds its size to those before it.                                 *)
LEMMA WidthOfOneMore ==
  ASSUME NEW row, IsSeq(row), NEW k \in 1 .. Len(row), \A i \in 1 .. Len(row) : row[i].size \in Nat
  PROVE  Width(SubSeq(row, 1, k)) = Width(SubSeq(row, 1, k - 1)) + row[k].size
<1> DEFINE a == SubSeq(row, 1, k)
           b == SubSeq(row, 1, k - 1)
<1>1. Len(row) \in Nat /\ k \in Nat /\ k - 1 \in Nat /\ k \in 0 .. Len(row) /\ k - 1 \in 0 .. Len(row)
  BY SeqElements
<1>2. IsSeq(a) /\ Len(a) = k /\ \A i \in 1 .. k : a[i] = row[i]
  BY <1>1, FirstOnes
<1>3. IsSeq(b) /\ Len(b) = k - 1 /\ \A i \in 1 .. k - 1 : b[i] = row[i]
  BY <1>1, FirstOnes
<1> HIDE DEF a, b
<1>4. PICK v : v[0] = 0 /\ (\A i \in 1 .. k : v[i] = v[i - 1] + a[i].size) /\ Width(a) = v[k]
  BY <1>2, WidthAdds
<1>5. PICK w : /\ w[0] = 0 /\ (\A i \in 1 .. k - 1 : w[i] = w[i - 1] + b[i].size)
               /\ Width(b) = w[k - 1]
  BY <1>3, WidthAdds
<1>6. \A i \in 1 .. k - 1 : \E z \in Nat : v[i] = v[i - 1] + z /\ w[i] = w[i - 1] + z
  <2> TAKE i \in 1 .. k - 1
  <2>1. i \in 1 .. k /\ i \in 1 .. Len(row)
    BY <1>1
  <2>2. row[i].size \in Nat /\ v[i] = v[i - 1] + row[i].size /\ w[i] = w[i - 1] + row[i].size
    BY <1>2, <1>3, <1>4, <1>5, <2>1
  <2> QED BY <2>2
<1>7. v[k - 1] = w[k - 1]
  <2> DEFINE n == k - 1
  <2>1. n \in Nat /\ n \in 0 .. n
    BY <1>1
  <2>2. GrowAlike(n, v, w)
    BY <1>4, <1>5, <1>6 DEF GrowAlike
  <2> HIDE DEF n
  <2>3. \A i \in 0 .. n : v[i] = w[i]
    BY <2>1, <2>2, GrowingAlike
  <2> QED BY <2>1, <2>3 DEF n
<1>8. v[k] = v[k - 1] + row[k].size
  <2>1. k \in 1 .. k
    BY <1>1
  <2> QED BY <1>2, <1>4, <2>1
<1> QED BY <1>4, <1>5, <1>7, <1>8 DEF a, b

(* What the theorem is about: plans whose rows are laid out by QueryPlans. *)
PlansLaidOut ==
  /\ \A ius : WidthOf(ius) = Width(ius)
  /\ \A r \in Runs : \A i \in DOMAIN Plans[r[1]].calls : LaidOut(Plans[r[1]].calls, i)

(* Their rows are packed, and so is what is provided of them, as wide.     *)
LEMMA SizedPacked ==
  ASSUME PlansLaidOut, NEW row, IsSeq(row), \A k \in DOMAIN row : row[k].size \in Nat
  PROVE  Packed(row)
<1>1. DOMAIN row = 1 .. Len(row)
  BY SeqElements
<1>2. \A k \in 1 .. Len(row) : Width(SubSeq(row, 1, k)) = Width(SubSeq(row, 1, k - 1)) + row[k].size
  BY <1>1, WidthOfOneMore
<1>3. \A ius : WidthOf(ius) = Width(ius)
  BY DEF PlansLaidOut
<1> QED BY <1>1, <1>2, <1>3 DEF Packed

LEMMA TypesSized ==
  ASSUME NEW row, Typed(row)
  PROVE  \A k \in DOMAIN row : row[k].size \in Nat
<1>1. \A ty \in DOMAIN TypeSize : TypeSize[ty] \in Nat
  BY DEF TypeSize
<1> QED BY <1>1 DEF Typed

LEMMA ProvidedPacked ==
  ASSUME PlansLaidOut, NEW op, NEW role, NEW row, IsSeq(row), Typed(row),
         NEW outs, Provides(op, role, outs, row)
  PROVE  Packed(outs) /\ AsWide(outs, row)
<1>1. Len(row) \in Nat /\ DOMAIN row = 1 .. Len(row) /\ DOMAIN outs = DOMAIN row
  BY SeqElements DEF Provides
<1>2. \A k \in DOMAIN row : outs[k].size = row[k].size
  BY DEF Provides, Typed, Like, IU, SizedIU
<1>3. outs = [k \in 1 .. Len(row) |-> outs[k]]
  BY <1>1 DEF Provides
<1>4. IsSeq(outs) /\ Len(outs) = Len(row)
  BY <1>1, <1>3, SeqMade
<1>5. Packed(outs)
  BY <1>1, <1>2, <1>4, TypesSized, SizedPacked
<1> QED BY <1>1, <1>2, <1>4, <1>5 DEF AsWide

(* State begins at the first multiple of a granule's size behind the keys. *)
LEMMA StateBehindKeys ==
  ASSUME NEW groupBy, Width(groupBy) \in Nat, NEW granules, Last(granules).size \in {1, 4, 8}
  PROVE  StateBegin(groupBy, granules) \in Nat /\ StateBegin(groupBy, granules) >= Width(groupBy)
<1> DEFINE w == Width(groupBy)
           step == Last(granules).size
           end == step * ((w + step - 1) \div step)
<1>1. w \in Nat
  OBVIOUS
<1>2. StateBegin(groupBy, granules) = w + (end - w)
  BY DEF StateBegin, PayloadOffset
<1> HIDE DEF w
<1>3. end \in Nat /\ end >= w
  <2>1. CASE step = 1
    BY <1>1, <2>1
  <2>2. CASE step = 4
    BY <1>1, <2>2
  <2>3. CASE step = 8
    BY <1>1, <2>3
  <2> QED BY <2>1, <2>2, <2>3
<1> HIDE DEF end
<1>4. w + (end - w) = end
  BY <1>1, <1>3
<1> QED BY <1>2, <1>3, <1>4 DEF w

(* Results are read where granules are.                                    *)
LEMMA ReadsGranules ==
  ASSUME PlansLaidOut, NEW agg, NEW granules, NEW first,
         ToSet(GranulesOf(agg)) \subseteq ToSet(granules),
         NEW place \in ToSet(ReadsOf(agg, granules, first))
  PROVE  \E g \in DOMAIN granules :
           place = <<first + WidthOf(SubSeq(granules, 1, g - 1)), granules[g].size>>
<1> DEFINE gs == GranulesOf(agg)
           Index(x) == CHOOSE k \in DOMAIN granules : granules[k] = x
           reads == ReadsOf(agg, granules, first)
<1>1. reads = [i \in DOMAIN gs |-> <<first + OffsetIn(granules, Index(gs[i])), gs[i].size>>]
  BY DEF ReadsOf
<1>2. PICK i \in DOMAIN gs : place = reads[i]
  BY <1>1 DEF ToSet
<1>3. \E k \in DOMAIN granules : granules[k] = gs[i]
  BY DEF ToSet
<1>4. Index(gs[i]) \in DOMAIN granules /\ granules[Index(gs[i])] = gs[i]
  BY <1>3
<1> DEFINE g == Index(gs[i])
<1>5. place = <<first + OffsetIn(granules, g), gs[i].size>>
  BY <1>1, <1>2
<1>6. OffsetIn(granules, g) = WidthOf(SubSeq(granules, 1, g - 1))
  BY DEF OffsetIn, PlansLaidOut
<1> HIDE DEF g
<1>7. g \in DOMAIN granules /\ granules[g] = gs[i]
  BY <1>4 DEF g
<1> QED BY <1>5, <1>6, <1>7

-----------------------------------------------------------------------------
(* Calls of a plan.                                                        *)

LayoutInv == WidthOf(<< >>) = 0 /\ \A i \in 1 .. Len(calls) : RowPacked(calls, i)

(* A query begins with a plan that is laid out.                            *)
LEMMA InitLayout ==
  ASSUME PlanInv, PlansLaidOut, NEW r \in Runs, plan = Plans[r[1]]
  PROVE  LayoutInv
<1>1. /\ calls = Plans[r[1]].calls /\ Len(calls) \in Nat /\ DOMAIN calls = 1 .. Len(calls)
      /\ \A i \in 1 .. Len(calls) : ListsOK(calls[i])
  BY SeqElements DEF calls, PlanInv
<1>2. \A i \in 1 .. Len(calls) : LaidOut(calls, i)
  <2>1. \A i \in DOMAIN Plans[r[1]].calls : LaidOut(Plans[r[1]].calls, i)
    BY Zenon DEF PlansLaidOut
  <2> QED BY <1>1, <2>1, Zenon
<1>3. \A i \in 1 .. Len(calls) : calls[i].call = "Aggregation" => calls[i].granules # << >>
  <2>1. \A i \in DOMAIN Plans[r[1]].calls :
          Plans[r[1]].calls[i].call = "Aggregation" => Plans[r[1]].calls[i].granules # << >>
    BY ColumnsAssumption, Zenon
  <2> QED BY <1>1, <2>1, Zenon
<1>4. WidthOf(<< >>) = 0
  <2>1. IsSeq(<< >>) /\ Len(<< >>) = 0
    BY SeqNone
  <2>2. Width(<< >>) = 0
    BY <2>1, WidthAdds
  <2> QED BY <2>2 DEF PlansLaidOut
<1>5. Packed(<< >>)
  BY DEF Packed
<1>6. ASSUME NEW i \in 1 .. Len(calls) PROVE RowPacked(calls, i)
  <2> DEFINE c == calls[i]
  <2>1. LaidOut(calls, i) /\ ListsOK(c)
    BY <1>1, <1>2
  <2>2. ASSUME c.call = "JoinBuild" PROVE Packed(c.row)
    <3>1. Typed(c.row) /\ IsSeq(c.row)
      BY <2>1, <2>2 DEF LaidOut, ListsOK
    <3> QED BY <3>1, TypesSized, SizedPacked
  <2>3. ASSUME c.call = "JoinProbe"
        PROVE  /\ Packed(c.row) /\ Packed(c.outLeft) /\ Packed(c.outRight)
               /\ \E j \in 1 .. i - 1 :
                    calls[j].call = "JoinBuild" /\ calls[j].op = c.op /\ AsWide(c.outLeft, calls[j].row)
               /\ c.outRight # << >> => AsWide(c.outRight, c.row)
    <3>1. /\ Typed(c.row) /\ IsSeq(c.row)
          /\ c.outRight = << >> \/ Provides(c.op, "right", c.outRight, c.row)
          /\ \E j \in 1 .. i - 1 :
               /\ calls[j].call = "JoinBuild" /\ calls[j].op = c.op
               /\ Provides(c.op, "left", c.outLeft, calls[j].row)
      BY <2>1, <2>3 DEF LaidOut, ListsOK
    <3>2. Packed(c.row)
      BY <3>1, TypesSized, SizedPacked
    <3>3. Packed(c.outRight) /\ (c.outRight # << >> => AsWide(c.outRight, c.row))
      <4>1. CASE c.outRight = << >>
        BY <1>5, <4>1
      <4>2. CASE Provides(c.op, "right", c.outRight, c.row)
        BY <3>1, <4>2, ProvidedPacked
      <4> QED BY <3>1, <4>1, <4>2
    <3>4. PICK j \in 1 .. i - 1 :
            /\ calls[j].call = "JoinBuild" /\ calls[j].op = c.op
            /\ Provides(c.op, "left", c.outLeft, calls[j].row)
      BY <3>1
    <3>5. j \in 1 .. Len(calls)
      BY <1>1
    <3>6. Typed(calls[j].row) /\ IsSeq(calls[j].row)
      BY <1>1, <1>2, <3>4, <3>5 DEF LaidOut, ListsOK
    <3>7. Packed(c.outLeft) /\ AsWide(c.outLeft, calls[j].row)
      BY <3>4, <3>6, ProvidedPacked
    <3> QED BY <3>2, <3>3, <3>4, <3>7
  <2>4. ASSUME c.call = "Aggregation"
        PROVE  /\ Packed(c.groupBy) /\ Packed(c.keys) /\ Packed(c.granules)
               /\ AsWide(c.keys, c.groupBy)
               /\ c.first \in Nat /\ c.first >= WidthOf(c.groupBy)
               /\ \A k \in DOMAIN c.results : \A place \in ToSet(c.reads[k]) :
                    \E g \in DOMAIN c.granules :
                      place = <<c.first + WidthOf(SubSeq(c.granules, 1, g - 1)), c.granules[g].size>>
    <3>1. /\ Typed(c.groupBy) /\ Provides(c.op, "key", c.keys, c.groupBy)
          /\ \A k \in DOMAIN c.granules : c.granules[k].size \in {1, 4, 8}
          /\ c.first = StateBegin(c.groupBy, c.granules)
      BY <2>1, <2>4 DEF LaidOut
    <3>2. IsSeq(c.groupBy) /\ IsSeq(c.granules) /\ c.granules # << >>
      BY <1>3, <2>1, <2>4 DEF ListsOK
    <3>3. Packed(c.groupBy) /\ Packed(c.keys) /\ AsWide(c.keys, c.groupBy)
      BY <3>1, <3>2, TypesSized, SizedPacked, ProvidedPacked
    <3>4. Packed(c.granules)
      <4>1. \A k \in DOMAIN c.granules : c.granules[k].size \in Nat
        BY <3>1
      <4> QED BY <3>2, <4>1, SizedPacked
    <3>5. c.first \in Nat /\ c.first >= WidthOf(c.groupBy)
      <4>1. WidthOf(c.groupBy) \in Nat /\ WidthOf(c.groupBy) = Width(c.groupBy)
        <5>1. 0 \in Nat
          OBVIOUS
        <5> HIDE DEF c
        <5> QED BY <1>4, <3>2, <3>3, <5>1, PackedOffsets DEF PlansLaidOut
      <4>2. Last(c.granules).size \in {1, 4, 8}
        <5> DEFINE q == c.granules
        <5>1. DOMAIN q = 1 .. Len(q) /\ Len(q) \in Nat
          BY <3>2, SeqElements
        <5>2. Len(q) # 0
          <6> DEFINE S == ToSet(q)
          <6>1. q \in Seq(S) /\ q # << >>
            BY <3>2 DEF IsSeq
          <6> HIDE DEF q, S
          <6> QED BY <6>1
        <5>3. Len(q) \in DOMAIN q
          BY <5>1, <5>2
        <5> QED BY <3>1, <5>3 DEF Last
      <4> QED BY <3>1, <4>1, <4>2, StateBehindKeys
    <3>6. ASSUME NEW k \in DOMAIN c.results, NEW place \in ToSet(c.reads[k])
          PROVE  \E g \in DOMAIN c.granules :
                   place = <<c.first + WidthOf(SubSeq(c.granules, 1, g - 1)), c.granules[g].size>>
      <4>1. \E agg : /\ ToSet(GranulesOf(agg)) \subseteq ToSet(c.granules)
                     /\ c.reads[k] = ReadsOf(agg, c.granules, c.first)
        BY <2>1, <2>4 DEF LaidOut
      <4>2. PICK agg : /\ ToSet(GranulesOf(agg)) \subseteq ToSet(c.granules)
                       /\ c.reads[k] = ReadsOf(agg, c.granules, c.first)
        BY <4>1
      <4> QED BY <4>2, ReadsGranules
    <3> QED BY <3>3, <3>4, <3>5, <3>6
  <2> QED BY <2>2, <2>3, <2>4 DEF RowPacked
<1> QED BY <1>4, <1>6 DEF LayoutInv

(* The bytes that a call puts are of its operator, and of one row.         *)
LEMMA PutsOf ==
  ASSUME NEW c, NEW x \in CallPuts(c)
  PROVE  /\ x.op = c.op /\ c.call \in {"JoinBuild", "JoinProbe", "Aggregation"}
         /\ c.call = "JoinBuild" => x.row = "build"
         /\ c.call = "JoinProbe" => x.row = "probe"
<1>1. \A op, name, from, row : \A y \in Places(op, name, from, row) : y.op = op /\ y.row = name
  BY DEF Places, Place
<1>2. CASE c.call = "JoinBuild"
  BY <1>1, <1>2 DEF CallPuts
<1>3. CASE c.call = "JoinProbe"
  BY <1>1, <1>3 DEF CallPuts
<1>4. CASE c.call = "Aggregation"
  BY <1>1, <1>4 DEF CallPuts
<1>5. CASE c.call \notin {"JoinBuild", "JoinProbe", "Aggregation"}
  BY <1>5 DEF CallPuts
<1> QED BY <1>2, <1>3, <1>4, <1>5

(* A call puts no two things at the same byte.                             *)
LEMMA CallApart ==
  ASSUME NEW i, RowPacked(calls, i), ListsOK(calls[i]), WidthOf(<< >>) = 0,
         NEW a \in CallPuts(calls[i]), NEW b \in CallPuts(calls[i]), a # b
  PROVE  Apart(a, b)
<1> DEFINE c == calls[i]
<1>1. c.call \in {"JoinBuild", "JoinProbe", "Aggregation"}
  BY PutsOf
<1>2. CASE c.call = "JoinBuild"
  <2>1. IsSeq(c.row) /\ Packed(c.row)
    BY <1>2 DEF ListsOK, RowPacked
  <2>2. CallPuts(c) = Places(c.op, "build", 0, c.row)
    BY <1>2 DEF CallPuts
  <2> HIDE DEF c
  <2> QED BY <2>1, <2>2, PlacesApart DEF c
<1>3. CASE c.call = "JoinProbe"
  <2>1. IsSeq(c.row) /\ Packed(c.row)
    BY <1>3 DEF ListsOK, RowPacked
  <2>2. CallPuts(c) = Places(c.op, "probe", 0, c.row)
    BY <1>3 DEF CallPuts
  <2> QED BY <2>1, <2>2, PlacesApart
<1>4. CASE c.call = "Aggregation"
  <2>1. /\ IsSeq(c.groupBy) /\ Packed(c.groupBy) /\ IsSeq(c.granules) /\ Packed(c.granules)
        /\ c.first \in Nat /\ c.first >= WidthOf(c.groupBy)
    BY <1>4 DEF ListsOK, RowPacked
  <2> DEFINE K == Places(c.op, "group", 0, c.groupBy)
             G == Places(c.op, "group", c.first, c.granules)
  <2>2. CallPuts(c) = K \cup G
    BY <1>4 DEF CallPuts
  <2>3. \A x, y \in K : x # y => Apart(x, y)
    BY <2>1, PlacesApart
  <2>4. \A x, y \in G : x # y => Apart(x, y)
    BY <2>1, PlacesApart
  <2>5. \A x \in K, y \in G : Apart(x, y) /\ Apart(y, x)
    BY <2>1, StateApart
  <2> HIDE DEF K, G
  <2> QED BY <2>2, <2>3, <2>4, <2>5
<1> QED BY <1>1, <1>2, <1>3, <1>4

(* Neither do two calls, in one row.                                       *)
LEMMA CallsApart ==
  ASSUME PlanInv, LayoutInv, NEW i \in 1 .. Len(calls), NEW j \in 1 .. Len(calls),
         NEW a \in CallPuts(calls[i]), NEW b \in CallPuts(calls[j]),
         a # b, a.op = b.op, a.row = b.row
  PROVE  Apart(a, b)
<1>1. Len(calls) \in Nat
  BY SeqElements DEF PlanInv
<1>2. calls[i].op = calls[j].op
  BY PutsOf
<1>3. ASSUME NEW x \in 1 .. Len(calls), NEW y \in 1 .. Len(calls), x < y,
             calls[x].op = calls[y].op
      PROVE  calls[x].call = "JoinBuild" /\ calls[y].call = "JoinProbe"
  <2>1. x \in 1 .. y - 1
    BY <1>1, <1>3
  <2> QED BY <1>3, <2>1 DEF PlanInv
<1>4. ~(i < j)
  BY <1>2, <1>3, PutsOf
<1>5. ~(j < i)
  BY <1>2, <1>3, PutsOf
<1>6. i = j
  BY <1>1, <1>4, <1>5
<1>7. RowPacked(calls, i) /\ ListsOK(calls[i]) /\ WidthOf(<< >>) = 0
  BY DEF LayoutInv, PlanInv
<1> QED BY <1>6, <1>7, CallApart

(* What a call reads was put there: by the same call or, by the second call*)
(* of a join, by its first.                                                *)
LEMMA ReadsWerePut ==
  ASSUME PlanInv, LayoutInv, NEW i \in 1 .. Len(calls), NEW x \in CallReads(calls[i])
  PROVE  \E j \in 1 .. Len(calls) : x \in CallPuts(calls[j])
<1> DEFINE c == calls[i]
<1>1. Len(calls) \in Nat /\ ListsOK(c) /\ RowPacked(calls, i)
  BY SeqElements DEF PlanInv, LayoutInv
<1>2. c.call \in {"JoinProbe", "Aggregation"}
  BY DEF CallReads
<1>3. CASE c.call = "JoinProbe"
  <2>1. IsSeq(c.row) /\ IsSeq(c.outLeft) /\ IsSeq(c.outRight)
    BY <1>1, <1>3 DEF ListsOK
  <2>2. /\ Packed(c.row) /\ Packed(c.outLeft) /\ Packed(c.outRight)
        /\ \E j \in 1 .. i - 1 :
             calls[j].call = "JoinBuild" /\ calls[j].op = c.op /\ AsWide(c.outLeft, calls[j].row)
        /\ c.outRight # << >> => AsWide(c.outRight, c.row)
    BY <1>1, <1>3 DEF RowPacked
  <2>3. CallPuts(c) = Places(c.op, "probe", 0, c.row)
    BY <1>3 DEF CallPuts
  <2>4. x \in Places(c.op, "build", 0, c.outLeft) \/ x \in Places(c.op, "probe", 0, c.outRight)
    BY <1>3 DEF CallReads
  <2>5. CASE x \in Places(c.op, "build", 0, c.outLeft)
    <3>1. PICK j \in 1 .. i - 1 :
            calls[j].call = "JoinBuild" /\ calls[j].op = c.op /\ AsWide(c.outLeft, calls[j].row)
      BY <2>2
    <3> DEFINE b == calls[j]
    <3>2. j \in 1 .. Len(calls)
      BY <1>1
    <3>3. ListsOK(b) /\ RowPacked(calls, j)
      BY <3>2 DEF PlanInv, LayoutInv
    <3>4. IsSeq(b.row) /\ Packed(b.row) /\ CallPuts(b) = Places(c.op, "build", 0, b.row)
      BY <3>1, <3>3 DEF ListsOK, RowPacked, CallPuts
    <3>5. Places(c.op, "build", 0, c.outLeft) = Places(c.op, "build", 0, b.row)
      <4>1. AsWide(c.outLeft, b.row)
        BY <3>1
      <4> HIDE DEF b, c
      <4> QED BY <2>1, <2>2, <3>4, <4>1, SamePlaces
    <3> QED BY <2>5, <3>2, <3>4, <3>5
  <2>6. CASE x \in Places(c.op, "probe", 0, c.outRight)
    <3>1. c.outRight # << >>
      <4>1. Places(c.op, "probe", 0, << >>) = {}
        BY DEF Places
      <4> QED BY <2>6, <4>1
    <3>2. Places(c.op, "probe", 0, c.outRight) = Places(c.op, "probe", 0, c.row)
      <4> HIDE DEF c
      <4> QED BY <2>1, <2>2, <3>1, SamePlaces
    <3> QED BY <2>3, <2>6, <3>2
  <2> QED BY <2>4, <2>5, <2>6
<1>4. CASE c.call = "Aggregation"
  <2>1. IsSeq(c.groupBy) /\ IsSeq(c.keys) /\ IsSeq(c.granules)
    BY <1>1, <1>4 DEF ListsOK
  <2>2. /\ Packed(c.groupBy) /\ Packed(c.keys) /\ AsWide(c.keys, c.groupBy)
        /\ \A k \in DOMAIN c.results : \A place \in ToSet(c.reads[k]) :
             \E g \in DOMAIN c.granules :
               place = <<c.first + WidthOf(SubSeq(c.granules, 1, g - 1)), c.granules[g].size>>
    BY <1>1, <1>4 DEF RowPacked
  <2>3. CallPuts(c) = Places(c.op, "group", 0, c.groupBy)
                        \cup Places(c.op, "group", c.first, c.granules)
    BY <1>4 DEF CallPuts
  <2>4. x \in Places(c.op, "group", 0, c.keys) \/ x \in ReadPlaces(c)
    BY <1>4 DEF CallReads
  <2>5. CASE x \in Places(c.op, "group", 0, c.keys)
    <3>1. Places(c.op, "group", 0, c.keys) = Places(c.op, "group", 0, c.groupBy)
      <4> HIDE DEF c
      <4> QED BY <2>1, <2>2, SamePlaces
    <3> QED BY <2>3, <2>5, <3>1
  <2>6. CASE x \in ReadPlaces(c)
    <3>1. PICK k \in DOMAIN c.results : \E place \in ToSet(c.reads[k]) :
            x = [op |-> c.op, row |-> "group", from |-> place[1], width |-> place[2]]
      BY <2>6 DEF ReadPlaces
    <3>2. PICK place \in ToSet(c.reads[k]) :
            x = [op |-> c.op, row |-> "group", from |-> place[1], width |-> place[2]]
      BY <3>1
    <3>3. PICK g \in DOMAIN c.granules :
            place = <<c.first + WidthOf(SubSeq(c.granules, 1, g - 1)), c.granules[g].size>>
      BY <2>2
    <3>4. x = Place(c.op, "group", c.first, c.granules, g)
      BY <3>2, <3>3 DEF Place, Begin
    <3> QED BY <2>3, <3>4 DEF Places
  <2> QED BY <2>4, <2>5, <2>6
<1> QED BY <1>2, <1>3, <1>4

-----------------------------------------------------------------------------
(* The inductive invariant: pipelines touch the bytes of the calls made.   *)

BytesInv == DagInv /\ LayoutInv /\ BytesDone(pipelines, decayed)

LEMMA InitBytes ==
  ASSUME PlansLaidOut, Init
  PROVE  BytesInv
<1>1. DagInv /\ PlanInv
  BY InitInv DEF DagInv, DecayInv
<1>2. LayoutInv
  BY <1>1, InitLayout DEF Init
<1>3. pipelines = << >> /\ decayed = 0
  BY DEF Init
<1>4. 1 .. Len(pipelines) = {} /\ 1 .. decayed = {}
  BY <1>3
<1>5. BytesDone(pipelines, decayed)
  BY <1>4 DEF BytesDone, ByPipes
<1> QED BY <1>1, <1>2, <1>5 DEF BytesInv

(* The steps of the run leave the pipelines as they are.                   *)
LEMMA NextBytes == BytesInv /\ [Next]_vars => BytesInv'
<1> SUFFICES ASSUME BytesInv, [Next]_vars PROVE BytesInv'
  OBVIOUS
<1>1. DagInv /\ LayoutInv /\ BytesDone(pipelines, decayed) /\ DagInv'
  BY NextInv DEF BytesInv
<1>2. /\ plan' = plan
      /\ (Decay /\ decayed' = decayed + 1) \/ UNCHANGED <<decayed, pipelines>>
  <2>1. CASE Decay
    BY <2>1 DEF Decay, Decaying, DecayTableScan, DecayExpressionOp, DecayFilter, DecayBuildSide,
                DecayProbeSide, DecayOuterProbeSide, DecayAggregation, DecayPrint
  <2>2. CASE PrepareQuery \/ RunPipeline \/ RunRuntimeTask \/ NextPipeline
    BY <2>2 DEF PrepareQuery, RunPipeline, RunRuntimeTask, NextPipeline, dagVars
  <2>3. CASE UNCHANGED vars
    BY <2>3 DEF vars, dagVars
  <2> QED BY <2>1, <2>2, <2>3 DEF Next
<1>3. calls' = calls
  BY <1>2 DEF calls
<1>4. LayoutInv'
  <2>1. \A i : RowPacked(calls', i) <=> RowPacked(calls, i)
    BY <1>3
  <2> QED BY <1>1, <1>3, <2>1 DEF LayoutInv
<1>5. BytesDone(pipelines', decayed')
  <2>1. CASE Decay /\ decayed' = decayed + 1
    BY <1>1, <2>1, CallsDone
  <2>2. CASE UNCHANGED <<decayed, pipelines>>
    BY <1>1, <2>2
  <2> QED BY <1>2, <2>1, <2>2
<1>6. BytesDone(pipelines, decayed)'
  BY <1>3, <1>5 DEF BytesDone
<1> QED BY <1>1, <1>4, <1>6 DEF BytesInv

(* Decay makes suboperators that touch the bytes of its calls' rows, and   *)
(* buildNewPipeline, which copies some, none that touch others.            *)
THEOREM BytesCorrect ==
  ASSUME PlansLaidOut
  PROVE  Spec => []BytesInv
<1>1. Init => BytesInv
  BY InitBytes
<1>2. BytesInv /\ [Next]_vars => BytesInv'
  BY NextBytes
<1> QED BY <1>1, <1>2, PTL DEF Spec

(* What is unpacked from a row, or read from a group's state, was put there*)
(* at the same bytes, and no two of those touch the same byte: whatever the*)
(* plan, the offsets that the build and probe sides of joins and those that*)
(* the pipelines before and after an aggregation compute on their own are  *)
(* the same (Join::decay, Aggregation::plan and decay).                    *)
THEOREM RowsAgreeCorrect ==
  ASSUME PlansLaidOut
  PROVE  Spec => []RowsAgree
<1>1. ASSUME BytesInv PROVE RowsAgree
  <2> SUFFICES ASSUME Decayed
               PROVE  /\ BytesRead \subseteq BytesPut
                      /\ \A a, b \in BytesPut :
                           a # b /\ a.op = b.op /\ a.row = b.row => Apart(a, b)
    BY DEF RowsAgree, Apart
  <2>1. /\ PlanInv /\ LayoutInv /\ BytesDone(pipelines, decayed) /\ PipesOK(pipelines)
        /\ decayed = Len(calls)
    BY <1>1 DEF BytesInv, DagInv, DecayInv, StageOK, DagOK, Decayed
  <2>2. DOMAIN pipelines = 1 .. Len(pipelines)
    BY <2>1, SeqElements DEF PipesOK
  <2>3. \A s : s \in AllSubops <=> \E p \in 1 .. Len(pipelines) : s \in ToSet(pipelines[p].subops)
    BY <2>2 DEF AllSubops
  <2>4. ASSUME NEW x
        PROVE  /\ x \in BytesPut <=> x \in ByPipes("put", pipelines)
               /\ x \in BytesRead <=> x \in ByPipes("read", pipelines)
    <3>1. x \in BytesPut <=> \E s \in AllSubops : x \in Does("put", s)
      BY DEF BytesPut, Does
    <3>2. x \in BytesRead <=> \E s \in AllSubops : x \in Does("read", s)
      BY DEF BytesRead, Does
    <3>3. \A kind : x \in ByPipes(kind, pipelines) <=>
            \E p \in 1 .. Len(pipelines) : \E s \in ToSet(pipelines[p].subops) : x \in Does(kind, s)
      BY PipesElements
    <3> QED BY <2>3, <3>1, <3>2, <3>3, Zenon
  <2>5. ASSUME NEW x
        PROVE  /\ x \in BytesPut <=> \E i \in 1 .. Len(calls) : x \in CallPuts(calls[i])
               /\ x \in BytesRead <=> \E i \in 1 .. Len(calls) : x \in CallReads(calls[i])
    <3>1. /\ ByPipes("put", pipelines) = UNION {CallPuts(calls[i]) : i \in 1 .. Len(calls)}
          /\ ByPipes("read", pipelines) = UNION {CallReads(calls[i]) : i \in 1 .. Len(calls)}
      BY <2>1 DEF BytesDone, Kinds, CallDoes
    <3> QED BY <2>4, <3>1
  <2>6. ASSUME NEW x \in BytesRead PROVE x \in BytesPut
    BY <2>1, <2>5, ReadsWerePut
  <2>7. ASSUME NEW a \in BytesPut, NEW b \in BytesPut, a # b, a.op = b.op, a.row = b.row
        PROVE  Apart(a, b)
    <3>1. PICK i \in 1 .. Len(calls) : a \in CallPuts(calls[i])
      BY <2>5
    <3>2. PICK j \in 1 .. Len(calls) : b \in CallPuts(calls[j])
      BY <2>5
    <3> QED BY <2>1, <2>7, <3>1, <3>2, CallsApart
  <2> QED BY <2>6, <2>7
<1> QED BY <1>1, BytesCorrect, PTL

=============================================================================
