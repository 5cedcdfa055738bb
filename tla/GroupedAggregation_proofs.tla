---------------------- MODULE GroupedAggregation_proofs ----------------------
(***************************************************************************)
(* Proofs about GroupedAggregation, for any number of threads, any groups, *)
(* relations and table sizes.                                              *)
(***************************************************************************)
EXTENDS GroupedAggregation, FiniteLemmas

-----------------------------------------------------------------------------
(* The inductive invariant.                                                *)

(* A table, whatever its fill limit and counts are.                        *)
TableShape(table) ==
  table \in [gen : Nat, maxFill : {table.maxFill}, keys : SUBSET Keys, sum : {table.sum}]

ShapeInv ==
  /\ input \in Seq(Keys)
  /\ owner \in [Keys -> Threads]
  /\ startIdx \in Nat
  /\ pc \in [Threads -> WorkerPcs]
  /\ chunk \in [Threads -> [start : Nat, end : Nat]]
  /\ row \in [Threads -> Nat]
  /\ pointers \in [Threads -> Seq(Pointers)]
  /\ restartFlag \in [Threads -> BOOLEAN]
  /\ hashTables = [t \in Threads |-> hashTables[t]]
  /\ source \in [Threads -> Threads]
  /\ unread \in [Threads -> SUBSET Keys]
  /\ mergePairs \in [Threads -> SUBSET Pointers]
  /\ \A t \in Threads : TableShape(hashTables[t])

(* A worker is inside its morsel, and its morsel inside the relation.      *)
MorselInv(t) ==
  /\ chunk[t].start <= row[t]
  /\ row[t] <= chunk[t].end
  /\ chunk[t].end <= Len(input)

(* The pointers a worker has collected: one per row, and while its restart *)
(* flag is down all of them live.                                          *)
PointerInv(t) ==
  /\ pc[t] \in {"lookup", "update"} =>
       /\ Len(pointers[t]) = row[t] - chunk[t].start
       /\ ~restartFlag[t] =>
            \A i \in 1 .. Len(pointers[t]) : Live(hashTables[t], pointers[t][i])
  /\ pc[t] = "update" => row[t] = chunk[t].end
  /\ pc[t] \in {"pick", "compiled"} => pointers[t] = << >>

(* Where the restart flag may be up.                                       *)
FlagInv(t) ==
  /\ restartFlag[t] =>
       \/ pc[t] \in {"compiled", "cleanUp"}
       \/ pc[t] = "lookup" /\ row[t] > chunk[t].start
       \/ pc[t] = "mergeKeys" /\ mergePairs[t] # {}
  /\ pc[t] \notin {"mergeKeys", "mergeSums"} => mergePairs[t] = {}

LocalInv(t) == MorselInv(t) /\ PointerInv(t) /\ FlagInv(t)

IInv == ShapeInv /\ \A t \in Threads : LocalInv(t)

(* What the merging workers read.                                          *)
PreMergeInv ==
  \A t \in Threads : pc[t] \in {"mergeKeys", "mergeSums"} =>
    \A s \in Threads : preMerge[s].keys \subseteq Keys

-----------------------------------------------------------------------------
(* Lemmas about tables.                                                    *)

(* A table may be changed field by field.                                  *)
LEMMA GrownFields ==
  ASSUME NEW Limits, NEW Sums, NEW limit \in Limits,
         NEW table \in [gen : Nat, maxFill : Limits, keys : SUBSET Keys, sum : Sums]
  PROVE  LET grown == [table EXCEPT !.gen = @ + 1, !.maxFill = limit] IN
         /\ grown \in [gen : Nat, maxFill : Limits, keys : SUBSET Keys, sum : Sums]
         /\ grown.gen = table.gen + 1 /\ grown.keys = table.keys
<1> DEFINE moved == [table EXCEPT !.gen = @ + 1]
<1>a. moved \in [gen : Nat, maxFill : Limits, keys : SUBSET Keys, sum : Sums]
  OBVIOUS
<1>b. [table EXCEPT !.gen = @ + 1, !.maxFill = limit] = [moved EXCEPT !.maxFill = limit]
  OBVIOUS
<1> HIDE DEF moved
<1>c. [moved EXCEPT !.maxFill = limit]
        \in [gen : Nat, maxFill : Limits, keys : SUBSET Keys, sum : Sums]
  BY <1>a
<1>1. [table EXCEPT !.gen = @ + 1, !.maxFill = limit]
        \in [gen : Nat, maxFill : Limits, keys : SUBSET Keys, sum : Sums]
  BY <1>b, <1>c
<1>2. [table EXCEPT !.gen = @ + 1, !.maxFill = limit].gen = table.gen + 1
  OBVIOUS
<1>3. [table EXCEPT !.gen = @ + 1, !.maxFill = limit].keys = table.keys
  OBVIOUS
<1> QED BY <1>1, <1>2, <1>3

(* Replacing the sums of a table leaves its other fields as they were. *)
LEMMA SumFields ==
  ASSUME NEW Limits, NEW Sums, NEW counts \in Sums,
         NEW table \in [gen : Nat, maxFill : Limits, keys : SUBSET Keys, sum : Sums]
  PROVE  LET updated == [table EXCEPT !.sum = counts] IN
         /\ updated \in [gen : Nat, maxFill : Limits, keys : SUBSET Keys, sum : Sums]
         /\ updated.gen = table.gen /\ updated.keys = table.keys
OBVIOUS

(* A resize keeps the shape and the keys of a table and starts a new
   generation. *)
LEMMA GrownTable ==
  ASSUME NEW table, TableShape(table), NEW limit
  PROVE  LET grown == [table EXCEPT !.gen = @ + 1, !.maxFill = limit] IN
         TableShape(grown) /\ grown.gen = table.gen + 1 /\ grown.keys = table.keys
<1> DEFINE Limits == {table.maxFill, limit}
           Sums == {table.sum}
           grown == [table EXCEPT !.gen = @ + 1, !.maxFill = limit]
<1>1. table \in [gen : Nat, maxFill : Limits, keys : SUBSET Keys, sum : Sums]
  BY DEF TableShape
<1>2. limit \in Limits
  OBVIOUS
<1> HIDE DEF Limits, Sums
<1>3. /\ grown \in [gen : Nat, maxFill : Limits, keys : SUBSET Keys, sum : Sums]
      /\ grown.gen = table.gen + 1 /\ grown.keys = table.keys
  BY <1>1, <1>2, GrownFields, ZenonT(60)
<1> HIDE DEF grown
<1>4. TableShape(grown)
  BY <1>3 DEF TableShape
<1> QED BY <1>3, <1>4 DEF grown

(* A lookup keeps every group, adds the one it looks for, and moves the    *)
(* table exactly when the table was full.                                  *)
LEMMA LookupOrInsertTable ==
  ASSUME NEW table, TableShape(table), NEW k \in Keys
  PROVE  LET found == LookupOrInsert(table, k) IN
         /\ TableShape(found)
         /\ found.keys = table.keys \cup {k}
         /\ found.gen = IF Full(table) THEN table.gen + 1 ELSE table.gen
<1> DEFINE grown == [table EXCEPT !.gen = @ + 1, !.maxFill = 2 * @]
<1>1. TableShape(grown) /\ grown.gen = table.gen + 1 /\ grown.keys = table.keys
  BY GrownTable
<1>2. TableShape(Reserved(table))
      /\ Reserved(table).keys = table.keys
      /\ Reserved(table).gen = IF Full(table) THEN table.gen + 1 ELSE table.gen
  <2>1. CASE Full(table)
    <3>1. Reserved(table) = grown
      BY <2>1 DEF Reserved
    <3> HIDE DEF grown
    <3> QED BY <1>1, <3>1, <2>1
  <2>2. CASE ~Full(table)
    BY <2>2 DEF Reserved
  <2> QED BY <2>1, <2>2
<1> DEFINE r == Reserved(table)
<1>3. LookupOrInsert(table, k) = [r EXCEPT !.keys = @ \cup {k}]
  BY DEF LookupOrInsert
<1> HIDE DEF r
<1>4. TableShape(r) /\ r.keys = table.keys
      /\ r.gen = IF Full(table) THEN table.gen + 1 ELSE table.gen
  BY <1>2 DEF r
<1> DEFINE found == [r EXCEPT !.keys = @ \cup {k}]
<1>5. /\ found \in [gen : Nat, maxFill : {r.maxFill}, keys : SUBSET Keys, sum : {r.sum}]
      /\ found.keys = r.keys \cup {k}
      /\ found.gen = r.gen
  BY <1>4 DEF TableShape
<1> HIDE DEF found
<1>6. TableShape(found)
  BY <1>5 DEF TableShape
<1> QED BY <1>3, <1>4, <1>5, <1>6 DEF found

(* Changing the counts of a table changes nothing else.                    *)
LEMMA SumUpdated ==
  ASSUME NEW table, TableShape(table), NEW counts
  PROVE  LET updated == [table EXCEPT !.sum = counts] IN
         TableShape(updated) /\ updated.keys = table.keys /\ updated.gen = table.gen
<1> DEFINE Limits == {table.maxFill}
           Sums == {table.sum, counts}
           updated == [table EXCEPT !.sum = counts]
<1>1. table \in [gen : Nat, maxFill : Limits, keys : SUBSET Keys, sum : Sums]
  BY DEF TableShape
<1>2. counts \in Sums
  OBVIOUS
<1> HIDE DEF Limits, Sums
<1>3. /\ updated \in [gen : Nat, maxFill : Limits, keys : SUBSET Keys, sum : Sums]
      /\ updated.gen = table.gen /\ updated.keys = table.keys
  BY <1>1, <1>2, SumFields
<1> HIDE DEF updated
<1>4. TableShape(updated)
  BY <1>3 DEF TableShape
<1> QED BY <1>3, <1>4 DEF updated

(* A new table has the shape of a table and no keys. *)
LEMMA NewTableShape ==
  ASSUME NEW slots
  PROVE  TableShape(NewTable(slots)) /\ NewTable(slots).keys = {}
<1> DEFINE Sums == {[k \in Keys |-> 0]}
           table == NewTable(slots)
<1>1. table \in [gen : Nat, maxFill : {slots \div 2}, keys : SUBSET Keys, sum : Sums]
      /\ table.keys = {}
  BY DEF NewTable
<1> HIDE DEF Sums, table
<1>2. TableShape(table)
  BY <1>1 DEF TableShape
<1> QED BY <1>1, <1>2 DEF table

-----------------------------------------------------------------------------
(* The invariant is inductive.                                             *)

(* A step that does not touch the variables of worker u keeps what holds   *)
(* of u.                                                                   *)
LEMMA OthersKeep ==
  ASSUME NEW u \in Threads, LocalInv(u), input' = input, pc'[u] = pc[u],
         chunk'[u] = chunk[u], row'[u] = row[u], pointers'[u] = pointers[u],
         restartFlag'[u] = restartFlag[u], hashTables'[u] = hashTables[u],
         mergePairs'[u] = mergePairs[u]
  PROVE  LocalInv(u)'
BY DEF LocalInv, MorselInv, PointerInv, FlagInv, Live

(* The pipeline starts with the invariant: every table is empty and no
   pointer is held. *)
LEMMA InitIInv ==
  Init => IInv
<1> SUFFICES ASSUME Init PROVE IInv
  OBVIOUS
<1> USE AggregationAssumption
<1>1. 0 \in Threads
  BY DEF Threads
<1>2. TableShape(NewTable(StartSlots))
  BY NewTableShape
<1>3. input \in Seq(Keys)
  BY DEF Init
<1>4. ShapeInv
  <2>1. \A t \in Threads : TableShape(hashTables[t])
    BY <1>2 DEF Init
  <2>2. << >> \in Seq(Pointers)
    OBVIOUS
  <2>3. [start |-> 0, end |-> 0] \in [start : Nat, end : Nat]
    OBVIOUS
  <2> QED BY <1>1, <1>3, <2>1, <2>2, <2>3 DEF Init, ShapeInv, WorkerPcs
<1>5. ASSUME NEW t \in Threads PROVE LocalInv(t)
  <2>1. Len(input) \in Nat
    BY <1>3
  <2>2. chunk[t].start = 0 /\ chunk[t].end = 0 /\ row[t] = 0 /\ pc[t] = "pick"
        /\ pointers[t] = << >> /\ ~restartFlag[t] /\ mergePairs[t] = {}
    BY DEF Init
  <2> QED BY <2>1, <2>2 DEF LocalInv, MorselInv, PointerInv, FlagInv
<1> QED BY <1>4, <1>5 DEF IInv

(* PickMorsel (the table scan's atomic fetch_add) hands a worker a morsel
   and touches no table. *)
LEMMA PickMorselStep ==
  ASSUME NEW t \in Threads, IInv, PickMorsel(t)
  PROVE  IInv'
<1> USE AggregationAssumption
<1>1. ShapeInv /\ \A u \in Threads : LocalInv(u)
  BY DEF IInv
<1>2. Len(input) \in Nat /\ startIdx \in Nat /\ ChunkSize \in Nat \ {0}
  BY <1>1 DEF ShapeInv
<1>3. pc[t] = "pick" /\ startIdx' = startIdx + ChunkSize
      /\ UNCHANGED <<inputVars, pointers, restartFlag, hashTables, mergeVars>>
  BY DEF PickMorsel
<1>4. ASSUME NEW u \in Threads, u # t PROVE LocalInv(u)'
  <2>1. pc'[u] = pc[u] /\ chunk'[u] = chunk[u] /\ row'[u] = row[u]
    BY <1>1, <1>4 DEF PickMorsel, Go, ShapeInv
  <2> QED BY <1>1, <1>3, <2>1, OthersKeep DEF inputVars, mergeVars
<1>5. CASE startIdx >= Len(input)
  <2>1. pc' = [pc EXCEPT ![t] = "done"] /\ UNCHANGED <<chunk, row>>
    BY <1>5 DEF PickMorsel, Go
  <2>2. ShapeInv'
    BY <1>1, <1>2, <1>3, <2>1 DEF ShapeInv, inputVars, mergeVars, WorkerPcs
  <2>3. LocalInv(t)'
    <3>1. pc'[t] = "done"
      BY <1>1, <2>1 DEF ShapeInv
    <3> QED BY <1>1, <1>3, <2>1, <3>1
            DEF LocalInv, MorselInv, PointerInv, FlagInv, inputVars, mergeVars
  <2> QED BY <1>4, <2>2, <2>3 DEF IInv
<1>6. CASE startIdx < Len(input)
  <2> DEFINE last == Min({startIdx + ChunkSize, Len(input)})
  <2>1. last \in Nat /\ startIdx <= last /\ last <= Len(input)
    <3>1. \E x \in {startIdx + ChunkSize, Len(input)} :
            \A y \in {startIdx + ChunkSize, Len(input)} : x <= y
      BY <1>2
    <3> QED BY <1>2, <1>6, <3>1 DEF Min
  <2> HIDE DEF last
  <2>2. /\ chunk' = [chunk EXCEPT ![t] = [start |-> startIdx, end |-> last]]
        /\ row' = [row EXCEPT ![t] = startIdx]
        /\ \E runner \in {"compiled", "lookup"} : pc' = [pc EXCEPT ![t] = runner]
    BY <1>2, <1>6 DEF PickMorsel, Go, last
  <2>3. ShapeInv'
    BY <1>1, <1>2, <1>3, <2>1, <2>2 DEF ShapeInv, inputVars, mergeVars, WorkerPcs
  <2>4. LocalInv(t)'
    <3>1. /\ chunk'[t].start = startIdx /\ chunk'[t].end = last
          /\ row'[t] = startIdx /\ pc'[t] \in {"compiled", "lookup"}
      BY <1>1, <2>2 DEF ShapeInv
    <3>2. pointers'[t] = << >> /\ ~restartFlag'[t] /\ mergePairs'[t] = {} /\ input' = input
      BY <1>1, <1>3 DEF LocalInv, PointerInv, FlagInv, inputVars, mergeVars
    <3> QED BY <1>2, <2>1, <3>1, <3>2 DEF LocalInv, MorselInv, PointerInv, FlagInv
  <2> QED BY <1>4, <2>3, <2>4 DEF IInv
<1> QED BY <1>2, <1>5, <1>6

(* A row of a compiled morsel, with the insert and the resize it may cause,
   keeps the invariant. *)
LEMMA CompiledRowStep ==
  ASSUME NEW t \in Threads, IInv, CompiledRow(t)
  PROVE  IInv'
<1> DEFINE k == input[row[t] + 1]
           found == LookupOrInsert(hashTables[t], k)
           counted == [found EXCEPT !.sum[k] = @ + 1]
<1>1. ShapeInv /\ \A u \in Threads : LocalInv(u)
  BY DEF IInv
<1>2. /\ pc[t] = "compiled" /\ row[t] < chunk[t].end
      /\ row' = [row EXCEPT ![t] = @ + 1]
      /\ restartFlag' = [restartFlag EXCEPT ![t] = @ \/ Full(hashTables[t])]
      /\ UNCHANGED <<input, owner, startIdx, chunk, pointers, pc, mergeVars>>
  BY DEF CompiledRow, LookUpNextRow, inputVars
<1>2a. hashTables' = [hashTables EXCEPT ![t] = counted]
  BY DEF CompiledRow
<1>3. row[t] \in Nat /\ chunk[t].end \in Nat /\ chunk[t].start \in Nat /\ Len(input) \in Nat
  BY <1>1 DEF ShapeInv
<1>4. k \in Keys
  BY <1>1, <1>2, <1>3, SMTT(60) DEF ShapeInv, LocalInv, MorselInv
<1>5. TableShape(found)
  BY <1>1, <1>4, LookupOrInsertTable DEF ShapeInv
<1> HIDE DEF k
<1>6. TableShape(counted)
  <2> HIDE DEF found
  <2> DEFINE counts == [found.sum EXCEPT ![k] = @ + 1]
  <2>1. counted = [found EXCEPT !.sum = counts]
    OBVIOUS
  <2> HIDE DEF counts
  <2> QED BY <1>5, <2>1, SumUpdated
<1> HIDE DEF counted
<1>7. ShapeInv'
  <2>1. hashTables' = [u \in Threads |-> hashTables'[u]]
        /\ \A u \in Threads : TableShape(hashTables'[u])
    BY <1>1, <1>2a, <1>6 DEF ShapeInv
  <2>2. row' \in [Threads -> Nat] /\ restartFlag' \in [Threads -> BOOLEAN]
    <3>1. (restartFlag[t] \/ Full(hashTables[t])) \in BOOLEAN
      BY DEF Full
    <3> QED BY <1>1, <1>2, <1>3, <3>1 DEF ShapeInv
  <2> QED BY <1>1, <1>2, <2>1, <2>2 DEF ShapeInv, mergeVars
<1>8. ASSUME NEW u \in Threads, u # t PROVE LocalInv(u)'
  <2>1. /\ row'[u] = row[u] /\ restartFlag'[u] = restartFlag[u]
        /\ hashTables'[u] = hashTables[u]
    BY <1>1, <1>2, <1>2a, <1>8 DEF ShapeInv
  <2> QED BY <1>1, <1>2, <2>1, OthersKeep DEF mergeVars
<1>9. LocalInv(t)'
  <2>1. row'[t] = row[t] + 1
    BY <1>1, <1>2 DEF ShapeInv
  <2> QED BY <1>1, <1>2, <1>3, <2>1
          DEF LocalInv, MorselInv, PointerInv, FlagInv, mergeVars
<1> QED BY <1>7, <1>8, <1>9 DEF IInv

(* The heart of the matter: as long as the flag stays down the table has   *)
(* not moved, so the pointers collected before are still good.             *)
LEMMA LookupRowStep ==
  ASSUME NEW t \in Threads, IInv, LookupRow(t)
  PROVE  IInv'
<1> DEFINE k == input[row[t] + 1]
           found == LookupOrInsert(hashTables[t], k)
           p == PointerTo(found, k)
<1>1. ShapeInv /\ \A u \in Threads : LocalInv(u)
  BY DEF IInv
<1>2. /\ pc[t] = "lookup" /\ row[t] < chunk[t].end
      /\ row' = [row EXCEPT ![t] = @ + 1]
      /\ restartFlag' = [restartFlag EXCEPT ![t] = @ \/ Full(hashTables[t])]
      /\ hashTables' = [hashTables EXCEPT ![t] = found]
      /\ pointers' = [pointers EXCEPT ![t] = Append(@, PointerTo(hashTables'[t], k))]
      /\ UNCHANGED <<input, owner, startIdx, chunk, pc, mergeVars>>
  BY DEF LookupRow, LookUpNextRow, inputVars
<1>3. /\ row[t] \in Nat /\ chunk[t].end \in Nat /\ chunk[t].start \in Nat
      /\ Len(input) \in Nat /\ pointers[t] \in Seq(Pointers)
  BY <1>1 DEF ShapeInv
<1>4. k \in Keys
  BY <1>1, <1>2, <1>3 DEF ShapeInv, LocalInv, MorselInv
<1>5. /\ TableShape(found)
      /\ found.gen = IF Full(hashTables[t]) THEN hashTables[t].gen + 1 ELSE hashTables[t].gen
  BY <1>1, <1>4, LookupOrInsertTable DEF ShapeInv
<1> HIDE DEF k, found
<1>6. hashTables'[t] = found
  BY <1>1, <1>2 DEF ShapeInv
<1>7. p \in Pointers /\ p.gen = found.gen
  BY <1>4, <1>5 DEF TableShape, Pointers, PointerTo
<1> HIDE DEF p
<1>8. pointers' = [pointers EXCEPT ![t] = Append(pointers[t], p)]
  BY <1>2, <1>6 DEF p
<1>9. ShapeInv'
  <2>1. hashTables' = [u \in Threads |-> hashTables'[u]]
        /\ \A u \in Threads : TableShape(hashTables'[u])
    BY <1>1, <1>2, <1>5 DEF ShapeInv
  <2>2. row' \in [Threads -> Nat] /\ restartFlag' \in [Threads -> BOOLEAN]
    <3>1. (restartFlag[t] \/ Full(hashTables[t])) \in BOOLEAN
      BY DEF Full
    <3> QED BY <1>1, <1>2, <1>3, <3>1 DEF ShapeInv
  <2>3. pointers' \in [Threads -> Seq(Pointers)]
    <3>1. Append(pointers[t], p) \in Seq(Pointers)
      BY <1>3, <1>7
    <3> QED BY <1>1, <1>8, <3>1 DEF ShapeInv
  <2> QED BY <1>1, <1>2, <2>1, <2>2, <2>3 DEF ShapeInv, mergeVars
<1>10. ASSUME NEW u \in Threads, u # t PROVE LocalInv(u)'
  <2>1. /\ row'[u] = row[u] /\ restartFlag'[u] = restartFlag[u]
        /\ hashTables'[u] = hashTables[u] /\ pointers'[u] = pointers[u]
    BY <1>1, <1>2, <1>8, <1>10 DEF ShapeInv
  <2> QED BY <1>1, <1>2, <2>1, OthersKeep DEF mergeVars
<1>11. LocalInv(t)'
  <2>1. /\ row'[t] = row[t] + 1
        /\ restartFlag'[t] = (restartFlag[t] \/ Full(hashTables[t]))
        /\ pointers'[t] = Append(pointers[t], p)
        /\ pc'[t] = "lookup" /\ chunk'[t] = chunk[t] /\ input' = input
        /\ mergePairs'[t] = mergePairs[t]
    BY <1>1, <1>2, <1>8 DEF ShapeInv, mergeVars
  <2>2. MorselInv(t)'
    BY <1>1, <1>2, <1>3, <2>1 DEF LocalInv, MorselInv
  <2>3. FlagInv(t)'
    BY <1>1, <1>2, <1>3, <2>1 DEF LocalInv, MorselInv, FlagInv
  <2>4. Len(pointers'[t]) = Len(pointers[t]) + 1
        /\ Len(pointers'[t]) = row'[t] - chunk'[t].start
    BY <1>1, <1>2, <1>3, <1>7, <2>1 DEF LocalInv, PointerInv
  <2>5. ASSUME ~restartFlag'[t], NEW i \in 1 .. Len(pointers'[t])
        PROVE  pointers'[t][i].gen = found.gen
    <3>1. ~restartFlag[t] /\ found.gen = hashTables[t].gen
      BY <1>5, <2>1, <2>5
    <3>2. CASE i = Len(pointers[t]) + 1
      BY <1>3, <1>7, <2>1, <3>2
    <3>3. CASE i # Len(pointers[t]) + 1
      <4>1. i \in 1 .. Len(pointers[t]) /\ pointers'[t][i] = pointers[t][i]
        BY <1>3, <1>7, <2>1, <2>4, <3>3
      <4> QED BY <1>1, <1>2, <3>1, <4>1 DEF LocalInv, PointerInv, Live
    <3> QED BY <3>2, <3>3
  <2>6. PointerInv(t)'
    BY <1>6, <2>1, <2>4, <2>5 DEF PointerInv, Live
  <2> QED BY <2>2, <2>3, <2>6 DEF LocalInv
<1> QED BY <1>9, <1>10, <1>11 DEF IInv

(* The end of a compiled morsel touches no table. *)
LEMMA FinishCompiledStep ==
  ASSUME NEW t \in Threads, IInv, FinishCompiled(t)
  PROVE  IInv'
<1>1. ShapeInv /\ \A u \in Threads : LocalInv(u)
  BY DEF IInv
<1>2. /\ pc[t] = "compiled" /\ pc' = [pc EXCEPT ![t] = "cleanUp"]
      /\ UNCHANGED <<input, owner, startIdx, chunk, row, pointers, restartFlag,
                     hashTables, source, unread, mergePairs>>
  BY DEF FinishCompiled, Go, inputVars, scanVars, mergeVars
<1>3. ShapeInv'
  BY <1>1, <1>2 DEF ShapeInv, WorkerPcs
<1>4. ASSUME NEW u \in Threads, u # t PROVE LocalInv(u)'
  <2>1. pc'[u] = pc[u]
    BY <1>1, <1>2, <1>4 DEF ShapeInv
  <2> QED BY <1>1, <1>2, <2>1, OthersKeep
<1>5. LocalInv(t)'
  <2>1. pc'[t] = "cleanUp"
    BY <1>1, <1>2 DEF ShapeInv
  <2> QED BY <1>1, <1>2, <2>1 DEF LocalInv, MorselInv, PointerInv, FlagInv
<1> QED BY <1>3, <1>4, <1>5 DEF IInv

(* The interpreter leaves a lookup fragment only with the flag read and
   cleared. *)
LEMMA FinishLookupsStep ==
  ASSUME NEW t \in Threads, IInv, FinishLookups(t)
  PROVE  IInv'
<1>1. ShapeInv /\ \A u \in Threads : LocalInv(u)
  BY DEF IInv
<1>2. /\ pc[t] = "lookup" /\ row[t] = chunk[t].end
      /\ restartFlag' = [restartFlag EXCEPT ![t] = FALSE]
      /\ UNCHANGED <<input, owner, startIdx, chunk, hashTables, source, unread, mergePairs>>
  BY DEF FinishLookups, inputVars, mergeVars
<1>3. chunk[t].start \in Nat /\ chunk[t].end \in Nat
  BY <1>1 DEF ShapeInv
<1>4. restartFlag'[t] = FALSE
  BY <1>1, <1>2 DEF ShapeInv
<1>5. CASE restartFlag[t]
  <2>1. /\ row' = [row EXCEPT ![t] = chunk[t].start]
        /\ pointers' = [pointers EXCEPT ![t] = << >>]
        /\ pc' = pc
    BY <1>5 DEF FinishLookups
  <2>2. ShapeInv'
    <3>1. << >> \in Seq(Pointers)
      OBVIOUS
    <3> QED BY <1>1, <1>2, <1>3, <2>1, <3>1 DEF ShapeInv
  <2>3. ASSUME NEW u \in Threads, u # t PROVE LocalInv(u)'
    <3>1. row'[u] = row[u] /\ pointers'[u] = pointers[u] /\ restartFlag'[u] = restartFlag[u]
      BY <1>1, <1>2, <2>1, <2>3 DEF ShapeInv
    <3> QED BY <1>1, <1>2, <2>1, <3>1, OthersKeep
  <2>4. LocalInv(t)'
    <3>1. row'[t] = chunk[t].start /\ pointers'[t] = << >>
      BY <1>1, <2>1 DEF ShapeInv
    <3> QED BY <1>1, <1>2, <1>3, <1>4, <2>1, <3>1
            DEF LocalInv, MorselInv, PointerInv, FlagInv
  <2> QED BY <2>2, <2>3, <2>4 DEF IInv
<1>6. CASE ~restartFlag[t]
  <2>1. pc' = [pc EXCEPT ![t] = "update"] /\ row' = row /\ pointers' = pointers
    BY <1>6 DEF FinishLookups, Go
  <2>2. ShapeInv'
    BY <1>1, <1>2, <2>1 DEF ShapeInv, WorkerPcs
  <2>3. ASSUME NEW u \in Threads, u # t PROVE LocalInv(u)'
    <3>1. pc'[u] = pc[u] /\ restartFlag'[u] = restartFlag[u]
      BY <1>1, <1>2, <2>1, <2>3 DEF ShapeInv
    <3> QED BY <1>1, <1>2, <2>1, <3>1, OthersKeep
  <2>4. LocalInv(t)'
    <3>1. pc'[t] = "update"
      BY <1>1, <2>1 DEF ShapeInv
    <3> QED BY <1>1, <1>2, <1>4, <1>6, <2>1, <3>1
            DEF LocalInv, MorselInv, PointerInv, FlagInv, Live
  <2> QED BY <2>2, <2>3, <2>4 DEF IInv
<1> QED BY <1>5, <1>6

(* The aggregation fragment writes sums through pointers, never a
   generation or a key. *)
LEMMA UpdateStep ==
  ASSUME NEW t \in Threads, IInv, Update(t)
  PROVE  IInv'
<1> DEFINE updates(k) == {i \in DOMAIN pointers[t] :
                            /\ pointers[t][i].key = k
                            /\ Live(hashTables[t], pointers[t][i])}
           counts == [k \in Keys |-> hashTables[t].sum[k] + Cardinality(updates(k))]
           updated == [hashTables[t] EXCEPT !.sum = counts]
<1>1. ShapeInv /\ \A u \in Threads : LocalInv(u)
  BY DEF IInv
<1>2. /\ pc[t] = "update" /\ pc' = [pc EXCEPT ![t] = "cleanUp"]
      /\ UNCHANGED <<input, owner, startIdx, chunk, row, pointers, restartFlag,
                     source, unread, mergePairs>>
  BY DEF Update, Go, inputVars, scanVars, mergeVars
<1>3. hashTables' = [hashTables EXCEPT ![t] = updated]
  BY DEF Update
<1> HIDE DEF counts
<1>4. TableShape(updated)
  BY <1>1, SumUpdated DEF ShapeInv
<1> HIDE DEF updated
<1>5. ShapeInv'
  <2>1. hashTables' = [u \in Threads |-> hashTables'[u]]
        /\ \A u \in Threads : TableShape(hashTables'[u])
    BY <1>1, <1>3, <1>4 DEF ShapeInv
  <2> QED BY <1>1, <1>2, <2>1 DEF ShapeInv, WorkerPcs
<1>6. ASSUME NEW u \in Threads, u # t PROVE LocalInv(u)'
  <2>1. pc'[u] = pc[u] /\ hashTables'[u] = hashTables[u]
    BY <1>1, <1>2, <1>3, <1>6 DEF ShapeInv
  <2> QED BY <1>1, <1>2, <2>1, OthersKeep
<1>7. LocalInv(t)'
  <2>1. pc'[t] = "cleanUp"
    BY <1>1, <1>2 DEF ShapeInv
  <2> QED BY <1>1, <1>2, <2>1 DEF LocalInv, MorselInv, PointerInv, FlagInv
<1> QED BY <1>5, <1>6, <1>7 DEF IInv

(* The clean-up of an interpreted morsel drops its pointers. *)
LEMMA CleanUpStep ==
  ASSUME NEW t \in Threads, IInv, CleanUp(t)
  PROVE  IInv'
<1>1. ShapeInv /\ \A u \in Threads : LocalInv(u)
  BY DEF IInv
<1>2. /\ pc[t] = "cleanUp" /\ pc' = [pc EXCEPT ![t] = "pick"]
      /\ pointers' = [pointers EXCEPT ![t] = << >>]
      /\ restartFlag' = [restartFlag EXCEPT ![t] = FALSE]
      /\ UNCHANGED <<input, owner, startIdx, chunk, row, hashTables, source,
                     unread, mergePairs>>
  BY DEF CleanUp, Go, inputVars, mergeVars
<1>3. ShapeInv'
  <2>1. << >> \in Seq(Pointers)
    OBVIOUS
  <2> QED BY <1>1, <1>2, <2>1 DEF ShapeInv, WorkerPcs
<1>4. ASSUME NEW u \in Threads, u # t PROVE LocalInv(u)'
  <2>1. pc'[u] = pc[u] /\ pointers'[u] = pointers[u] /\ restartFlag'[u] = restartFlag[u]
    BY <1>1, <1>2, <1>4 DEF ShapeInv
  <2> QED BY <1>1, <1>2, <2>1, OthersKeep
<1>5. LocalInv(t)'
  <2>1. pc'[t] = "pick" /\ pointers'[t] = << >> /\ restartFlag'[t] = FALSE
    BY <1>1, <1>2 DEF ShapeInv
  <2> QED BY <1>1, <1>2, <2>1 DEF LocalInv, MorselInv, PointerInv, FlagInv
<1> QED BY <1>3, <1>4, <1>5 DEF IInv

(* A single worker hands its table on without a merge. *)
LEMMA SkipMergeStep ==
  ASSUME IInv, SkipMerge
  PROVE  IInv'
<1>1. ShapeInv /\ \A u \in Threads : LocalInv(u)
  BY DEF IInv
<1>2. /\ \A u \in Threads : pc[u] = "done"
      /\ pc' = [u \in Threads |-> "read"]
      /\ UNCHANGED <<input, owner, startIdx, chunk, row, pointers, restartFlag,
                     hashTables, source, unread, mergePairs>>
  BY DEF SkipMerge, AllAt, inputVars, scanVars, mergeVars
<1>3. ShapeInv'
  BY <1>1, <1>2 DEF ShapeInv, WorkerPcs
<1>4. ASSUME NEW u \in Threads PROVE LocalInv(u)'
  BY <1>1, <1>2 DEF LocalInv, MorselInv, PointerInv, FlagInv
<1> QED BY <1>3, <1>4 DEF IInv

(* Every worker starts on an empty table, the first source and no pairs.   *)
LEMMA PrepareMergeStep ==
  ASSUME IInv, PrepareMerge
  PROVE  IInv'
<1> USE AggregationAssumption
<1> DEFINE total == SumFunction([t \in Threads |-> Cardinality(hashTables[t].keys)])
           empty == NewTable(MergeSlots(total))
<1>1. ShapeInv /\ \A u \in Threads : LocalInv(u)
  BY DEF IInv
<1>2. /\ \A u \in Threads : pc[u] = "done"
      /\ hashTables' = [u \in Threads |-> empty]
      /\ source' = [u \in Threads |-> 0]
      /\ unread' = [u \in Threads |-> hashTables[0].keys]
      /\ pc' = [u \in Threads |-> "mergeKeys"]
      /\ UNCHANGED <<input, owner, startIdx, chunk, row, pointers, restartFlag, mergePairs>>
  BY DEF PrepareMerge, AllAt, inputVars, scanVars
<1>3. TableShape(empty)
  BY NewTableShape
<1> HIDE DEF empty
<1>4. 0 \in Threads
  BY DEF Threads
<1>5. hashTables[0].keys \in SUBSET Keys
  BY <1>1, <1>4 DEF ShapeInv, TableShape
<1>6. ShapeInv'
  <2>1. hashTables' = [u \in Threads |-> hashTables'[u]]
        /\ \A u \in Threads : TableShape(hashTables'[u])
    BY <1>2, <1>3
  <2> QED BY <1>1, <1>2, <1>4, <1>5, <2>1 DEF ShapeInv, WorkerPcs
<1>7. ASSUME NEW u \in Threads PROVE LocalInv(u)'
  BY <1>1, <1>2 DEF LocalInv, MorselInv, PointerInv, FlagInv
<1> QED BY <1>6, <1>7 DEF IInv

(* The flag is raised only together with a pair, so an iterator that is at *)
(* its end repeats nothing.                                                *)
LEMMA MergeKeyStep ==
  ASSUME NEW t \in Threads, IInv, MergeKey(t)
  PROVE  IInv'
<1>1. ShapeInv /\ \A u \in Threads : LocalInv(u)
  BY DEF IInv
<1>2. pc[t] = "mergeKeys"
      /\ UNCHANGED <<input, owner, startIdx, chunk, row, pointers, pc, source>>
  BY DEF MergeKey, inputVars, scanVars
<1>3. PICK k \in unread[t] :
        /\ unread' = [unread EXCEPT ![t] = @ \ {k}]
        /\ IF owner[k] # t
             THEN UNCHANGED <<restartFlag, hashTables, mergePairs>>
             ELSE /\ restartFlag' = [restartFlag EXCEPT ![t] = @ \/ Full(hashTables[t])]
                  /\ hashTables' = [hashTables EXCEPT ![t] = LookupOrInsert(@, k)]
                  /\ mergePairs' = [mergePairs EXCEPT
                                      ![t] = @ \cup {PointerTo(hashTables'[t], k)}]
  BY DEF MergeKey
<1>4. k \in Keys /\ unread' \in [Threads -> SUBSET Keys]
  BY <1>1, <1>3 DEF ShapeInv
<1>5. CASE owner[k] # t
  <2>1. UNCHANGED <<restartFlag, hashTables, mergePairs>>
    BY <1>3, <1>5
  <2>2. ShapeInv'
    BY <1>1, <1>2, <1>4, <2>1 DEF ShapeInv
  <2>3. ASSUME NEW u \in Threads PROVE LocalInv(u)'
    BY <1>1, <1>2, <2>1, OthersKeep
  <2> QED BY <2>2, <2>3 DEF IInv
<1>6. CASE owner[k] = t
  <2> DEFINE found == LookupOrInsert(hashTables[t], k)
             p == PointerTo(found, k)
  <2>1. /\ restartFlag' = [restartFlag EXCEPT ![t] = @ \/ Full(hashTables[t])]
        /\ hashTables' = [hashTables EXCEPT ![t] = found]
        /\ mergePairs' = [mergePairs EXCEPT ![t] = @ \cup {PointerTo(hashTables'[t], k)}]
    BY <1>3, <1>6
  <2>2. TableShape(found)
    BY <1>1, <1>4, LookupOrInsertTable DEF ShapeInv
  <2> HIDE DEF found
  <2>3. hashTables'[t] = found
    BY <1>1, <2>1 DEF ShapeInv
  <2>4. p \in Pointers
    BY <1>4, <2>2 DEF TableShape, Pointers, PointerTo
  <2> HIDE DEF p
  <2>5. mergePairs' = [mergePairs EXCEPT ![t] = mergePairs[t] \cup {p}]
    BY <2>1, <2>3 DEF p
  <2>6. ShapeInv'
    <3>1. hashTables' = [u \in Threads |-> hashTables'[u]]
          /\ \A u \in Threads : TableShape(hashTables'[u])
      BY <1>1, <2>1, <2>2 DEF ShapeInv
    <3>2. restartFlag' \in [Threads -> BOOLEAN]
      <4>1. (restartFlag[t] \/ Full(hashTables[t])) \in BOOLEAN
        BY DEF Full
      <4> QED BY <1>1, <2>1, <4>1 DEF ShapeInv
    <3>3. mergePairs' \in [Threads -> SUBSET Pointers]
      BY <1>1, <2>4, <2>5 DEF ShapeInv
    <3> QED BY <1>1, <1>2, <1>4, <3>1, <3>2, <3>3 DEF ShapeInv
  <2>7. ASSUME NEW u \in Threads, u # t PROVE LocalInv(u)'
    <3>1. /\ restartFlag'[u] = restartFlag[u] /\ hashTables'[u] = hashTables[u]
          /\ mergePairs'[u] = mergePairs[u]
      BY <1>1, <2>1, <2>5, <2>7 DEF ShapeInv
    <3> QED BY <1>1, <1>2, <3>1, OthersKeep
  <2>8. LocalInv(t)'
    <3>1. mergePairs'[t] # {} /\ pc'[t] = "mergeKeys"
      BY <1>1, <1>2, <2>5 DEF ShapeInv
    <3> QED BY <1>1, <1>2, <3>1 DEF LocalInv, MorselInv, PointerInv, FlagInv
  <2> QED BY <2>6, <2>7, <2>8 DEF IInv
<1> QED BY <1>5, <1>6

(* After the last row of a merge thread's key phase its pointers are all
   live. *)
LEMMA FinishKeysStep ==
  ASSUME NEW t \in Threads, IInv, FinishKeys(t)
  PROVE  IInv'
<1>1. ShapeInv /\ \A u \in Threads : LocalInv(u)
  BY DEF IInv
<1>2. /\ pc[t] = "mergeKeys" /\ pc' = [pc EXCEPT ![t] = "mergeSums"]
      /\ restartFlag' = [restartFlag EXCEPT ![t] = FALSE]
      /\ UNCHANGED <<input, owner, startIdx, chunk, row, pointers, hashTables,
                     source, unread, mergePairs>>
  BY DEF FinishKeys, Go, inputVars, scanVars, mergeVars
<1>3. ShapeInv'
  BY <1>1, <1>2 DEF ShapeInv, WorkerPcs
<1>4. ASSUME NEW u \in Threads, u # t PROVE LocalInv(u)'
  <2>1. pc'[u] = pc[u] /\ restartFlag'[u] = restartFlag[u]
    BY <1>1, <1>2, <1>4 DEF ShapeInv
  <2> QED BY <1>1, <1>2, <2>1, OthersKeep
<1>5. LocalInv(t)'
  <2>1. pc'[t] = "mergeSums" /\ restartFlag'[t] = FALSE
    BY <1>1, <1>2 DEF ShapeInv
  <2> QED BY <1>1, <1>2, <2>1 DEF LocalInv, MorselInv, PointerInv, FlagInv
<1> QED BY <1>3, <1>4, <1>5 DEF IInv

(* The sum phase of the merge writes sums through the pairs of pointers it
   holds. *)
LEMMA MergeSumsStep ==
  ASSUME NEW t \in Threads, IInv, PreMergeInv, MergeSums(t)
  PROVE  IInv'
<1> DEFINE merged == {p.key : p \in {q \in mergePairs[t] : Live(hashTables[t], q)}}
           added(k) == IF k \in merged THEN preMerge[source[t]].sum[k] ELSE 0
           counts == [k \in Keys |-> hashTables[t].sum[k] + added(k)]
           updated == [hashTables[t] EXCEPT !.sum = counts]
<1>1. ShapeInv /\ \A u \in Threads : LocalInv(u)
  BY DEF IInv
<1>2. /\ pc[t] = "mergeSums"
      /\ mergePairs' = [mergePairs EXCEPT ![t] = {}]
      /\ UNCHANGED <<input, owner, startIdx, chunk, row, pointers, restartFlag>>
  BY DEF MergeSums, inputVars, scanVars
<1>3. hashTables' = [hashTables EXCEPT ![t] = updated]
  BY DEF MergeSums
<1> HIDE DEF counts
<1>4. TableShape(updated)
  BY <1>1, SumUpdated DEF ShapeInv
<1> HIDE DEF updated
<1>5. /\ source' \in [Threads -> Threads] /\ unread' \in [Threads -> SUBSET Keys]
      /\ \E label \in {"mergeKeys", "merged"} : pc' = [pc EXCEPT ![t] = label]
  <2>1. CASE source[t] + 1 < NumThreads
    <3>1. /\ source' = [source EXCEPT ![t] = source[t] + 1]
          /\ unread' = [unread EXCEPT ![t] = preMerge[source[t] + 1].keys]
          /\ pc' = [pc EXCEPT ![t] = "mergeKeys"]
      BY <2>1 DEF MergeSums, Go
    <3>2. source[t] + 1 \in Threads
      BY <1>1, <2>1, AggregationAssumption, SMTT(60) DEF ShapeInv, Threads
    <3>3. preMerge[source[t] + 1].keys \in SUBSET Keys
      BY <1>2, <3>2 DEF PreMergeInv
    <3> QED BY <1>1, <3>1, <3>2, <3>3 DEF ShapeInv
  <2>2. CASE ~(source[t] + 1 < NumThreads)
    BY <1>1, <2>2 DEF MergeSums, Go, ShapeInv
  <2> QED BY <2>1, <2>2
<1>6. ShapeInv'
  <2>1. hashTables' = [u \in Threads |-> hashTables'[u]]
        /\ \A u \in Threads : TableShape(hashTables'[u])
    BY <1>1, <1>3, <1>4 DEF ShapeInv
  <2> QED BY <1>1, <1>2, <1>5, <2>1, ZenonT(60) DEF ShapeInv, WorkerPcs
<1>7. ASSUME NEW u \in Threads, u # t PROVE LocalInv(u)'
  <2>1. /\ pc'[u] = pc[u] /\ hashTables'[u] = hashTables[u]
        /\ mergePairs'[u] = mergePairs[u]
    BY <1>1, <1>2, <1>3, <1>5, <1>7 DEF ShapeInv
  <2> QED BY <1>1, <1>2, <2>1, OthersKeep
<1>8. LocalInv(t)'
  <2>1. pc'[t] \in {"mergeKeys", "merged"} /\ mergePairs'[t] = {}
    BY <1>1, <1>2, <1>5 DEF ShapeInv
  <2> QED BY <1>1, <1>2, <2>1 DEF LocalInv, MorselInv, PointerInv, FlagInv
<1> QED BY <1>6, <1>7, <1>8 DEF IInv

(* The end of the merge changes no table. *)
LEMMA FinishMergeStep ==
  ASSUME IInv, FinishMerge
  PROVE  IInv'
<1>1. ShapeInv /\ \A u \in Threads : LocalInv(u)
  BY DEF IInv
<1>2. /\ \A u \in Threads : pc[u] = "merged"
      /\ pc' = [u \in Threads |-> "read"]
      /\ UNCHANGED <<input, owner, startIdx, chunk, row, pointers, restartFlag,
                     hashTables, source, unread, mergePairs>>
  BY DEF FinishMerge, AllAt, inputVars, scanVars, mergeVars
<1>3. ShapeInv'
  BY <1>1, <1>2 DEF ShapeInv, WorkerPcs
<1>4. ASSUME NEW u \in Threads PROVE LocalInv(u)'
  BY <1>1, <1>2 DEF LocalInv, MorselInv, PointerInv, FlagInv
<1> QED BY <1>3, <1>4 DEF IInv

(* The tables of the pipeline do not change while they are merged.         *)
LEMMA PreMergeStep ==
  ASSUME IInv, PreMergeInv, [Next]_vars
  PROVE  PreMergeInv'
<1>1. ShapeInv
  BY DEF IInv
<1>2. ASSUME NEW t \in Threads, WorkerStep(t) PROVE PreMergeInv'
  <2>1. preMerge' = preMerge
    BY <1>2 DEF WorkerStep, PickMorsel, CompiledRow, FinishCompiled, LookupRow,
                FinishLookups, Update, CleanUp, MergeKey, FinishKeys, MergeSums, mergeVars
  <2>2. ASSUME NEW u \in Threads, pc'[u] \in {"mergeKeys", "mergeSums"}
        PROVE  pc[u] \in {"mergeKeys", "mergeSums"}
    BY <1>1, <1>2, <2>2
       DEF ShapeInv, WorkerStep, PickMorsel, CompiledRow, FinishCompiled, LookupRow,
           FinishLookups, Update, CleanUp, MergeKey, FinishKeys, MergeSums, Go
  <2> QED BY <2>1, <2>2 DEF PreMergeInv
<1>3. CASE PrepareMerge
  BY <1>1, <1>3 DEF PrepareMerge, PreMergeInv, ShapeInv, TableShape
<1>4. CASE SkipMerge \/ FinishMerge
  BY <1>4 DEF SkipMerge, FinishMerge, PreMergeInv
<1>5. CASE UNCHANGED vars
  BY <1>5 DEF vars, mergeVars, PreMergeInv
<1> QED BY <1>2, <1>3, <1>4, <1>5 DEF Next, DriverStep

(* Every step of the pipeline and of the merge keeps the invariant. *)
LEMMA NextIInv ==
  ASSUME IInv, PreMergeInv, [Next]_vars
  PROVE  IInv'
<1>1. ASSUME NEW t \in Threads, WorkerStep(t) PROVE IInv'
  BY <1>1, PickMorselStep, CompiledRowStep, FinishCompiledStep, LookupRowStep,
     FinishLookupsStep, UpdateStep, CleanUpStep, MergeKeyStep, FinishKeysStep,
     MergeSumsStep DEF WorkerStep
<1>2. CASE DriverStep
  BY <1>2, SkipMergeStep, PrepareMergeStep, FinishMergeStep DEF DriverStep
<1>3. CASE UNCHANGED vars
  BY <1>3 DEF vars, inputVars, scanVars, mergeVars, IInv, ShapeInv, LocalInv,
              MorselInv, PointerInv, FlagInv, Live
<1> QED BY <1>1, <1>2, <1>3 DEF Next

-----------------------------------------------------------------------------
(* The theorems.                                                           *)

(* The inductive invariant holds of every behaviour, for every number of   *)
(* threads, every relation and every table size.                           *)
THEOREM AggregationInvariantCorrect == Spec => [](IInv /\ PreMergeInv)
<1>1. Init => IInv /\ PreMergeInv
  <2>1. Init => PreMergeInv
    BY DEF Init, PreMergeInv
  <2> QED BY <2>1, InitIInv
<1>2. IInv /\ PreMergeInv /\ [Next]_vars => (IInv /\ PreMergeInv)'
  BY NextIInv, PreMergeStep
<1> QED BY <1>1, <1>2, PTL DEF Spec

(* runMorselWithRetry hands the aggregation primitives a column without a  *)
(* dangling pointer, however often the lookups resized the table.          *)
THEOREM PointersLiveCorrect == Spec => []PointersLive
<1>1. IInv => PointersLive
  <2> SUFFICES ASSUME IInv, NEW t \in Threads, pc[t] = "update"
               PROVE  /\ \A i \in DOMAIN pointers[t] : Live(hashTables[t], pointers[t][i])
                      /\ Len(pointers[t]) = chunk[t].end - chunk[t].start
    BY DEF PointersLive
  <2>1. PointerInv(t) /\ FlagInv(t) /\ pointers[t] \in Seq(Pointers)
    BY DEF IInv, LocalInv, ShapeInv
  <2>2. ~restartFlag[t]
    BY <2>1 DEF FlagInv
  <2>3. DOMAIN pointers[t] = 1 .. Len(pointers[t])
    BY <2>1
  <2> QED BY <2>1, <2>2, <2>3 DEF PointerInv
<1> QED BY <1>1, AggregationInvariantCorrect, PTL

(* The restart flag of a worker is down whenever a primitive that may      *)
(* raise it begins, in the pipeline and in the merge.                      *)
THEOREM FlagCleanCorrect == Spec => []FlagClean
<1>1. IInv => FlagClean
  BY DEF IInv, LocalInv, FlagInv, FlagClean
<1> QED BY <1>1, AggregationInvariantCorrect, PTL

-----------------------------------------------------------------------------
(* Types. A table keeps room for a group and counts for all of them.       *)

(* A lookup keeps the counts, adds the group, and moves a full table.      *)
LEMMA LookupKeepsTable ==
  ASSUME NEW table \in Tables, NEW k \in Keys
  PROVE  LET found == LookupOrInsert(table, k) IN
         /\ found \in Tables
         /\ found.sum = table.sum
         /\ found.keys = table.keys \cup {k}
         /\ found.gen = IF Full(table) THEN table.gen + 1 ELSE table.gen
<1> DEFINE r == Reserved(table)
           found == [r EXCEPT !.keys = @ \cup {k}]
           grown == [table EXCEPT !.gen = @ + 1, !.maxFill = 2 * @]
<1>1. /\ grown \in Tables /\ grown.sum = table.sum /\ grown.keys = table.keys
      /\ grown.gen = table.gen + 1
  <2> DEFINE limit == 2 * table.maxFill
             moved == [table EXCEPT !.gen = @ + 1]
  <2>1. limit \in Nat \ {0}
    BY DEF Tables
  <2>2. /\ moved \in Tables /\ moved.sum = table.sum /\ moved.keys = table.keys
        /\ moved.gen = table.gen + 1
    BY DEF Tables
  <2>3. grown = [moved EXCEPT !.maxFill = limit]
    BY DEF Tables
  <2> HIDE DEF limit, moved
  <2>4. LET last == [moved EXCEPT !.maxFill = limit] IN
        /\ last \in Tables /\ last.sum = moved.sum /\ last.keys = moved.keys
        /\ last.gen = moved.gen
    BY <2>1, <2>2 DEF Tables
  <2> QED BY <2>2, <2>3, <2>4
<1>2. LookupOrInsert(table, k) = found
  BY DEF LookupOrInsert
<1>3. /\ r \in Tables /\ r.sum = table.sum /\ r.keys = table.keys
      /\ r.gen = IF Full(table) THEN table.gen + 1 ELSE table.gen
  BY <1>1 DEF Reserved
<1> HIDE DEF r
<1>4. /\ found \in Tables /\ found.sum = r.sum /\ found.gen = r.gen
      /\ found.keys = r.keys \cup {k}
  BY <1>3 DEF Tables
<1> QED BY <1>2, <1>3, <1>4

(* New counts keep the groups and the memory of a table.                   *)
LEMMA CountsKeepTable ==
  ASSUME NEW table \in Tables, NEW counts \in [Keys -> Nat]
  PROVE  LET updated == [table EXCEPT !.sum = counts] IN
         /\ updated \in Tables
         /\ updated.sum = counts
         /\ updated.keys = table.keys
         /\ updated.gen = table.gen
BY DEF Tables

(* A merge table has room for a group: it has a power of two of slots.     *)
LEMMA MergeTableHasRoom ==
  ASSUME NEW total \in Nat
  PROVE  MergeSlots(total) \in Nat /\ MergeSlots(total) >= 2
<1> USE AggregationAssumption
<1> DEFINE share == total \div NumThreads
           most == Max({MinKeys, share})
           p == PerThread(total)
           Powers == {2^e : e \in 1 .. p}
           Fits(n) == n >= p /\ (n = 2 \/ n \div 2 < p)
<1>1. share \in Nat
  OBVIOUS
<1> HIDE DEF share
<1>2. most \in Nat \ {0}
  <2>1. \E x \in {MinKeys, share} : \A y \in {MinKeys, share} : x >= y
    BY <1>1
  <2>2. most \in {MinKeys, share} /\ \A y \in {MinKeys, share} : most >= y
    BY <2>1 DEF Max
  <2> HIDE DEF most
  <2> QED BY <1>1, <2>2
<1>3. p = (24 * most) \div 10
  BY DEF PerThread, share
<1> HIDE DEF most, p
<1>4. p \in Nat \ {0}
  BY <1>2, <1>3
<1>5. PICK e \in 1 .. p : 2^e \in Nat /\ 2^e >= p /\ (2^e = 2 \/ 2^e < 2 * p)
  BY <1>4, RoundedUp
<1>6. \E n \in Powers : Fits(n)
  <2> DEFINE n == 2^e
  <2>1. n \in Nat /\ n >= p /\ (n = 2 \/ n < 2 * p) /\ n \in Powers
    BY <1>5
  <2> HIDE DEF n, Powers
  <2>2. Fits(n)
    BY <1>4, <2>1
  <2> QED BY <2>1, <2>2
<1>7. MergeSlots(total) = CHOOSE n \in Powers : Fits(n)
  BY DEF MergeSlots, p
<1>8. MergeSlots(total) \in Powers
  BY <1>6, <1>7
<1>9. PICK f \in 1 .. p : MergeSlots(total) = 2^f
  BY <1>8
<1>10. f - 1 \in Nat /\ (f - 1) + 1 = f
  BY <1>4
<1>11. \A j \in Nat : j >= 1 => 2^j \in Nat /\ 2^j >= 2
  <2> DEFINE A == {n \in Nat : 2^(n + 1) \in Nat /\ 2^(n + 1) >= 2}
  <2>1. \A n \in Nat : 2^n \in Nat /\ 2^(n + 1) = 2 * 2^n
    BY PowerOfTwo
  <2>2. 0 \in A
    <3>1. 2^0 = 1 /\ 2^(0 + 1) = 2 * 2^0
      BY PowerOfTwo
    <3> QED BY <3>1
  <2>3. \A n \in Nat : n \in A => n + 1 \in A
    <3> SUFFICES ASSUME NEW n \in Nat, n \in A PROVE n + 1 \in A
      OBVIOUS
    <3> DEFINE x == 2^(n + 1)
               y == 2^((n + 1) + 1)
    <3>1. x \in Nat /\ x >= 2 /\ y \in Nat /\ y = 2 * x
      BY <2>1
    <3> HIDE DEF x, y
    <3>2. y \in Nat /\ y >= 2
      BY <3>1
    <3> QED BY <3>2 DEF y
  <2> HIDE DEF A
  <2>4. Nat \subseteq A
    BY <2>2, <2>3, NaturalInduction
  <2> SUFFICES ASSUME NEW j \in Nat, j >= 1 PROVE 2^j \in Nat /\ 2^j >= 2
    OBVIOUS
  <2>5. j - 1 \in A /\ (j - 1) + 1 = j
    BY <2>4
  <2> QED BY <2>5 DEF A
<1> QED BY <1>4, <1>9, <1>11

(* The tables of the pipeline and of the merge. Before the merge there are *)
(* no tables to merge from; a single worker has nothing to merge.          *)
ScanPcs == {"pick", "compiled", "lookup", "update", "cleanUp", "done"}
MergePcs == {"mergeKeys", "mergeSums", "merged"}

PhaseInv ==
  \/ preMerge = << >> /\ \A t \in Threads : pc[t] \in ScanPcs
  \/ preMerge = << >> /\ NumThreads = 1 /\ AllAt("read")
  \/ preMerge \in [Threads -> Tables] /\ \A t \in Threads : pc[t] \in MergePcs
  \/ preMerge \in [Threads -> Tables] /\ AllAt("read")

TablesInv ==
  /\ input \in Inputs
  /\ hashTables \in [Threads -> Tables]
  /\ PhaseInv

(* What the layers below this one have established.                        *)
BaseInv == IInv /\ PreMergeInv /\ TablesInv

(* The worker indexes are finitely many and include 0. *)
LEMMA ThreadsFinite ==
  /\ IsFiniteSet(Threads)
  /\ 0 \in Threads
  /\ \A t \in Threads : t \in Nat /\ t < NumThreads
<1> USE AggregationAssumption
<1>1. 0 \in Int /\ NumThreads - 1 \in Int
  OBVIOUS
<1>2. IsFiniteSet(Threads)
  BY <1>1, FS_Interval DEF Threads
<1> QED BY <1>2 DEF Threads

(* The groups of all tables can be counted.                                *)
LEMMA TotalType ==
  ASSUME hashTables \in [Threads -> Tables]
  PROVE  SumFunction([t \in Threads |-> Cardinality(hashTables[t].keys)]) \in Nat
<1> DEFINE f == [t \in Threads |-> Cardinality(hashTables[t].keys)]
<1>1. f \in [Threads -> Nat]
  <2> SUFFICES ASSUME NEW t \in Threads PROVE Cardinality(hashTables[t].keys) \in Nat
    OBVIOUS
  <2>1. IsFiniteSet(hashTables[t].keys)
    BY FS_Subset, AggregationAssumption DEF Tables
  <2> QED BY <2>1, FS_CardinalityType
<1> HIDE DEF f
<1>2. SumFunction(f) \in Nat
  BY <1>1, SumType, ThreadsFinite
<1> QED BY <1>2 DEF f

(* What the interpreter adds to the count of each group.                   *)
Updates(t, k) == {i \in DOMAIN pointers[t] :
                    pointers[t][i].key = k /\ Live(hashTables[t], pointers[t][i])}

(* What an aggregation fragment adds to each group is a number. *)
LEMMA UpdateCounts ==
  ASSUME ShapeInv, hashTables \in [Threads -> Tables], NEW t \in Threads
  PROVE  /\ \A k \in Keys : Cardinality(Updates(t, k)) \in Nat
         /\ [k \in Keys |-> hashTables[t].sum[k] + Cardinality(Updates(t, k))]
              \in [Keys -> Nat]
<1>1. IsFiniteSet(DOMAIN pointers[t])
  <2>1. pointers[t] \in Seq(Pointers)
    BY DEF ShapeInv
  <2>2. DOMAIN pointers[t] = 1 .. Len(pointers[t]) /\ Len(pointers[t]) \in Nat
    BY <2>1
  <2> QED BY <2>2, FS_Interval
<1>2. ASSUME NEW k \in Keys PROVE Cardinality(Updates(t, k)) \in Nat
  BY <1>1, FS_Subset, FS_CardinalityType DEF Updates
<1> QED BY <1>2 DEF Tables

(* What mergeSum adds to the count of each group.                          *)
Merged(t) == {p.key : p \in {q \in mergePairs[t] : Live(hashTables[t], q)}}
Added(t, k) == IF k \in Merged(t) THEN preMerge[source[t]].sum[k] ELSE 0

(* What a merge thread adds to each group is a number, since the tables it
   reads stand still. *)
LEMMA MergeCounts ==
  ASSUME BaseInv, NEW t \in Threads, pc[t] \in MergePcs
  PROVE  /\ preMerge \in [Threads -> Tables]
         /\ \A k \in Keys : Added(t, k) \in Nat
         /\ [k \in Keys |-> hashTables[t].sum[k] + Added(t, k)] \in [Keys -> Nat]
<1>1. preMerge \in [Threads -> Tables]
  BY ThreadsFinite DEF BaseInv, TablesInv, PhaseInv, ScanPcs, MergePcs, AllAt
<1>2. source[t] \in Threads
  BY DEF BaseInv, IInv, ShapeInv
<1>3. ASSUME NEW k \in Keys PROVE Added(t, k) \in Nat
  BY <1>1, <1>2 DEF Added, Tables
<1> QED BY <1>1, <1>3 DEF BaseInv, TablesInv, Tables

(* Every step of a worker leaves tables behind, and only its own changed.  *)
LEMMA WorkerTables ==
  ASSUME BaseInv, NEW t \in Threads, WorkerStep(t)
  PROVE  /\ hashTables' \in [Threads -> Tables]
         /\ \A u \in Threads : u # t => hashTables'[u] = hashTables[u]
<1>1. /\ ShapeInv /\ hashTables \in [Threads -> Tables]
      /\ \A u \in Threads : MorselInv(u)
  BY DEF BaseInv, IInv, TablesInv, LocalInv
<1>2. SUFFICES \E new \in Tables : hashTables' = [hashTables EXCEPT ![t] = new]
  BY <1>1
<1>3. CASE PickMorsel(t) \/ FinishCompiled(t) \/ FinishLookups(t) \/ CleanUp(t) \/ FinishKeys(t)
  <2>1. hashTables' = hashTables
    BY <1>3 DEF PickMorsel, FinishCompiled, FinishLookups, CleanUp, FinishKeys
  <2> QED BY <1>1, <2>1
<1>4. ASSUME row[t] < chunk[t].end PROVE input[row[t] + 1] \in Keys
  <2>1. row[t] \in Nat /\ chunk[t].end <= Len(input) /\ chunk[t].end \in Nat /\ input \in Seq(Keys)
    BY <1>1 DEF ShapeInv, MorselInv
  <2>2. row[t] + 1 \in 1 .. Len(input)
    BY <1>4, <2>1
  <2> QED BY <2>1, <2>2
<1>5. CASE CompiledRow(t)
  <2> DEFINE k == input[row[t] + 1]
             found == LookupOrInsert(hashTables[t], k)
             counts == [found.sum EXCEPT ![k] = found.sum[k] + 1]
  <2>1. k \in Keys
    BY <1>4, <1>5 DEF CompiledRow, LookUpNextRow
  <2>2. found \in Tables
    BY <1>1, <2>1, LookupKeepsTable
  <2>3. hashTables' = [hashTables EXCEPT ![t] = [found EXCEPT !.sum = counts]]
    BY <1>5 DEF CompiledRow
  <2> HIDE DEF k, found
  <2>4. counts \in [Keys -> Nat]
    BY <2>1, <2>2 DEF Tables
  <2> HIDE DEF counts
  <2> QED BY <2>2, <2>3, <2>4, CountsKeepTable
<1>6. CASE LookupRow(t)
  <2>1. input[row[t] + 1] \in Keys
    BY <1>4, <1>6 DEF LookupRow, LookUpNextRow
  <2>2. hashTables' = [hashTables EXCEPT ![t] = LookupOrInsert(hashTables[t], input[row[t] + 1])]
    BY <1>6 DEF LookupRow
  <2> QED BY <1>1, <2>1, <2>2, LookupKeepsTable
<1>7. CASE Update(t)
  <2> DEFINE counts == [k \in Keys |-> hashTables[t].sum[k] + Cardinality(Updates(t, k))]
  <2>1. hashTables' = [hashTables EXCEPT ![t] = [hashTables[t] EXCEPT !.sum = counts]]
    BY <1>7 DEF Update, Updates
  <2>2. counts \in [Keys -> Nat]
    BY <1>1, UpdateCounts
  <2> HIDE DEF counts
  <2> QED BY <1>1, <2>1, <2>2, CountsKeepTable
<1>8. CASE MergeKey(t)
  <2>1. PICK k \in unread[t] :
          IF owner[k] # t
            THEN UNCHANGED hashTables
            ELSE hashTables' = [hashTables EXCEPT ![t] = LookupOrInsert(hashTables[t], k)]
    BY <1>8 DEF MergeKey
  <2>2. k \in Keys
    BY <1>1, <2>1 DEF ShapeInv
  <2> QED BY <1>1, <2>1, <2>2, LookupKeepsTable
<1>9. CASE MergeSums(t)
  <2> DEFINE counts == [k \in Keys |-> hashTables[t].sum[k] + Added(t, k)]
  <2>1. hashTables' = [hashTables EXCEPT ![t] = [hashTables[t] EXCEPT !.sum = counts]]
    BY <1>9 DEF MergeSums, Merged, Added
  <2>2. counts \in [Keys -> Nat]
    BY <1>9, MergeCounts DEF MergeSums, MergePcs
  <2> HIDE DEF counts
  <2> QED BY <1>1, <2>1, <2>2, CountsKeepTable
<1> QED BY <1>3, <1>5, <1>6, <1>7, <1>8, <1>9 DEF WorkerStep

(* The tables the merge starts on.                                         *)
LEMMA MergeStarts ==
  ASSUME BaseInv, PrepareMerge
  PROVE  \E new \in Tables :
           /\ hashTables' = [t \in Threads |-> new]
           /\ new.gen = 0 /\ new.keys = {} /\ \A k \in Keys : new.sum[k] = 0
<1> DEFINE total == SumFunction([t \in Threads |-> Cardinality(hashTables[t].keys)])
           slots == MergeSlots(total)
           new == NewTable(slots)
<1>1. total \in Nat
  BY TotalType DEF BaseInv, TablesInv
<1>2. hashTables' = [t \in Threads |-> new]
  BY DEF PrepareMerge
<1> HIDE DEF total
<1>3. slots \in Nat /\ slots >= 2
  BY <1>1, MergeTableHasRoom
<1> HIDE DEF slots
<1>4. slots \div 2 \in Nat \ {0}
  BY <1>3
<1>5. new \in Tables /\ new.gen = 0 /\ new.keys = {} /\ \A k \in Keys : new.sum[k] = 0
  BY <1>4 DEF NewTable, Tables
<1> HIDE DEF new
<1> QED BY <1>2, <1>5

(* The first tables are typed. *)
LEMMA InitTables ==
  ASSUME Init
  PROVE  TablesInv
<1>1. NewTable(StartSlots) \in Tables
  <2>1. StartSlots \div 2 \in Nat \ {0}
    BY AggregationAssumption
  <2> QED BY <2>1 DEF NewTable, Tables
<1> QED BY <1>1 DEF Init, TablesInv, PhaseInv, ScanPcs

(* Where a worker goes.                                                    *)
LEMMA WorkerPhase ==
  ASSUME IInv, NEW t \in Threads, WorkerStep(t)
  PROVE  /\ preMerge' = preMerge /\ input' = input /\ owner' = owner
         /\ \E label \in WorkerPcs : pc' = [pc EXCEPT ![t] = label]
         /\ pc[t] \in ScanPcs => pc'[t] \in ScanPcs
         /\ pc[t] \in MergePcs => pc'[t] \in MergePcs
         /\ pc[t] # "read"
<1>1. pc \in [Threads -> WorkerPcs]
  BY DEF IInv, ShapeInv
<1>2. preMerge' = preMerge /\ input' = input /\ owner' = owner
  BY DEF WorkerStep, PickMorsel, CompiledRow, FinishCompiled, LookupRow, FinishLookups,
         Update, CleanUp, MergeKey, FinishKeys, MergeSums, mergeVars, inputVars
<1>3. CASE PickMorsel(t)
  BY <1>1, <1>2, <1>3 DEF PickMorsel, Go, ScanPcs, MergePcs, WorkerPcs
<1>4. CASE CompiledRow(t) \/ LookupRow(t) \/ MergeKey(t)
  <2>1. pc' = pc /\ pc[t] \in {"compiled", "lookup", "mergeKeys"}
    BY <1>4 DEF CompiledRow, LookupRow, MergeKey
  <2>2. pc' = [pc EXCEPT ![t] = pc[t]]
    BY <1>1, <2>1
  <2> QED BY <1>1, <1>2, <2>1, <2>2 DEF ScanPcs, MergePcs
<1>5. CASE FinishCompiled(t) \/ Update(t) \/ CleanUp(t)
  BY <1>1, <1>2, <1>5 DEF FinishCompiled, Update, CleanUp, Go, ScanPcs, MergePcs, WorkerPcs
<1>6. CASE FinishLookups(t)
  <2>1. pc[t] = "lookup" /\ (pc' = pc \/ pc' = [pc EXCEPT ![t] = "update"])
    BY <1>6 DEF FinishLookups, Go
  <2>2. pc' = [pc EXCEPT ![t] = "lookup"] \/ pc' = [pc EXCEPT ![t] = "update"]
    BY <1>1, <2>1
  <2> QED BY <1>1, <1>2, <2>1, <2>2 DEF ScanPcs, MergePcs, WorkerPcs
<1>7. CASE FinishKeys(t) \/ MergeSums(t)
  BY <1>1, <1>2, <1>7 DEF FinishKeys, MergeSums, Go, ScanPcs, MergePcs, WorkerPcs
<1> QED BY <1>3, <1>4, <1>5, <1>6, <1>7 DEF WorkerStep

(* Every step keeps the tables typed and the phase of each worker. *)
LEMMA NextTables ==
  ASSUME BaseInv, [Next]_vars
  PROVE  TablesInv'
<1>1. /\ ShapeInv /\ TablesInv /\ pc \in [Threads -> WorkerPcs] /\ 0 \in Threads
      /\ hashTables \in [Threads -> Tables] /\ PhaseInv /\ input \in Inputs
  BY ThreadsFinite DEF BaseInv, IInv, TablesInv, ShapeInv
<1>2. ASSUME NEW t \in Threads, WorkerStep(t) PROVE TablesInv'
  <2>1. /\ preMerge' = preMerge /\ input' = input
        /\ \E label \in WorkerPcs : pc' = [pc EXCEPT ![t] = label]
        /\ pc[t] \in ScanPcs => pc'[t] \in ScanPcs
        /\ pc[t] \in MergePcs => pc'[t] \in MergePcs
        /\ pc[t] # "read"
    BY <1>2, WorkerPhase DEF BaseInv
  <2>2. \A u \in Threads : u # t => pc'[u] = pc[u]
    BY <1>1, <2>1
  <2>3. PhaseInv'
    BY <1>1, <2>1, <2>2 DEF PhaseInv, AllAt
  <2> QED BY <1>1, <1>2, <2>1, <2>3, WorkerTables DEF TablesInv
<1>3. CASE SkipMerge
  <2>1. /\ NumThreads = 1 /\ preMerge' = preMerge /\ hashTables' = hashTables /\ input' = input
        /\ AllAt("done") /\ pc' = [t \in Threads |-> "read"]
    BY <1>3 DEF SkipMerge, mergeVars, inputVars
  <2>2. preMerge = << >>
    BY <1>1, <2>1 DEF PhaseInv, AllAt, MergePcs
  <2> QED BY <1>1, <2>1, <2>2 DEF TablesInv, PhaseInv, AllAt
<1>4. CASE PrepareMerge
  <2>1. preMerge' = hashTables /\ input' = input /\ pc' = [t \in Threads |-> "mergeKeys"]
    BY <1>4 DEF PrepareMerge, inputVars
  <2>2. hashTables' \in [Threads -> Tables]
    BY <1>4, MergeStarts
  <2> QED BY <1>1, <2>1, <2>2 DEF TablesInv, PhaseInv, MergePcs
<1>5. CASE FinishMerge
  <2>1. /\ preMerge' = preMerge /\ hashTables' = hashTables /\ input' = input
        /\ AllAt("merged") /\ pc' = [t \in Threads |-> "read"]
    BY <1>5 DEF FinishMerge, mergeVars, inputVars
  <2>2. preMerge \in [Threads -> Tables]
    BY <1>1, <2>1 DEF PhaseInv, AllAt, ScanPcs
  <2> QED BY <1>1, <2>1, <2>2 DEF TablesInv, PhaseInv, AllAt
<1>6. CASE UNCHANGED vars
  BY <1>1, <1>6 DEF vars, inputVars, mergeVars, TablesInv, PhaseInv, AllAt
<1> QED BY <1>2, <1>3, <1>4, <1>5, <1>6 DEF Next, DriverStep

(* The shapes, the tables' types and the phases hold in every reachable
   state. *)
LEMMA BaseInvCorrect ==
  Spec => []BaseInv
<1>1. Init => TablesInv
  BY InitTables
<1>2. IInv /\ PreMergeInv /\ TablesInv /\ [Next]_vars => TablesInv'
  BY NextTables DEF BaseInv
<1> QED BY <1>1, <1>2, AggregationInvariantCorrect, PTL DEF Spec, BaseInv

(* Every variable stays in its type. In particular a morsel ends with the  *)
(* relation, and every table, also one of the merge, has room for a group. *)
THEOREM TypeCorrect == Spec => []TypeOK
<1>1. BaseInv => TypeOK
  <2> SUFFICES ASSUME BaseInv PROVE TypeOK
    OBVIOUS
  <2>1. /\ ShapeInv /\ TablesInv /\ \A t \in Threads : MorselInv(t)
    BY DEF BaseInv, IInv, LocalInv
  <2> DEFINE n == Len(input)
  <2>2. n \in Nat
    BY <2>1 DEF ShapeInv
  <2>3. /\ chunk \in [Threads -> [start : Nat, end : Nat]]
        /\ row \in [Threads -> Nat]
        /\ \A t \in Threads : chunk[t].start <= row[t] /\ row[t] <= chunk[t].end /\ chunk[t].end <= n
    BY <2>1 DEF ShapeInv, MorselInv
  <2> HIDE DEF n
  <2>4. /\ chunk \in [Threads -> [start : 0 .. n, end : 0 .. n]]
        /\ row \in [Threads -> 0 .. n]
    <3>1. ASSUME NEW t \in Threads
          PROVE  chunk[t] \in [start : 0 .. n, end : 0 .. n] /\ row[t] \in 0 .. n
      <4>1. chunk[t] \in [start : Nat, end : Nat] /\ row[t] \in Nat
        BY <2>3
      <4>2. chunk[t].start \in 0 .. n /\ chunk[t].end \in 0 .. n /\ row[t] \in 0 .. n
        <5>1. chunk[t].start \in Nat /\ chunk[t].end \in Nat
          BY <4>1
        <5> QED BY <2>2, <2>3, <4>1, <5>1
      <4>3. chunk[t] = [start |-> chunk[t].start, end |-> chunk[t].end]
        BY <4>1
      <4> QED BY <4>2, <4>3
    <3> QED BY <2>3, <3>1
  <2>5. preMerge = << >> \/ preMerge \in [Threads -> Tables]
    BY <2>1 DEF TablesInv, PhaseInv
  <2> QED BY <2>1, <2>4, <2>5 DEF n, ShapeInv, TablesInv, TypeOK
<1> QED BY <1>1, BaseInvCorrect, PTL

-----------------------------------------------------------------------------
(* Rows. While the pipeline runs every picked row is in one place.         *)

(* Rows between two places of the relation can be counted in two parts.    *)
LEMMA RowsOfType ==
  ASSUME NEW k, NEW a \in Nat, NEW b \in Nat
  PROVE  RowsOf(k, a, b) \in Nat
<1>1. IsFiniteSet(a + 1 .. b)
  BY FS_Interval
<1>2. IsFiniteSet({i \in a + 1 .. b : input[i] = k})
  BY <1>1, FS_Subset
<1> QED BY <1>2, FS_CardinalityType DEF RowsOf

(* The rows with key k of two neighbouring ranges are those of the whole
   range. *)
LEMMA RowsOfParts ==
  ASSUME NEW k, NEW a \in Nat, NEW b \in Nat, NEW c \in Nat, a <= b, b <= c
  PROVE  RowsOf(k, a, c) = RowsOf(k, a, b) + RowsOf(k, b, c)
<1> DEFINE L == {i \in a + 1 .. b : input[i] = k}
           R == {i \in b + 1 .. c : input[i] = k}
           W == {i \in a + 1 .. c : input[i] = k}
<1>1. IsFiniteSet(a + 1 .. b) /\ IsFiniteSet(b + 1 .. c)
  BY FS_Interval
<1>2. IsFiniteSet(L) /\ IsFiniteSet(R)
  BY <1>1, FS_Subset
<1>3. W = L \cup R /\ L \cap R = {}
  OBVIOUS
<1> HIDE DEF L, R, W
<1>4. Cardinality(W) = Cardinality(L) + Cardinality(R)
  <2>1. /\ Cardinality(L) \in Nat /\ Cardinality(R) \in Nat
        /\ Cardinality(L \cup R) = Cardinality(L) + Cardinality(R) - Cardinality(L \cap R)
        /\ Cardinality({}) = 0
    BY <1>2, FS_Union, FS_CardinalityType, FS_EmptySet
  <2>2. Cardinality(W) = Cardinality(L) + Cardinality(R) - Cardinality({})
    BY <1>3, <2>1
  <2> DEFINE l == Cardinality(L)
             r == Cardinality(R)
             w == Cardinality(W)
  <2>3. l \in Nat /\ r \in Nat /\ w = l + r - 0
    BY <2>1, <2>2
  <2> HIDE DEF l, r, w
  <2>4. w = l + r
    BY <2>3
  <2> QED BY <2>4 DEF l, r, w
<1> QED BY <1>4 DEF RowsOf, L, R, W

(* An empty range has no row of a key; a range of one row has that row. *)
LEMMA RowsOfOne ==
  ASSUME NEW k, NEW a \in Nat
  PROVE  /\ RowsOf(k, a, a) = 0
         /\ RowsOf(k, a, a + 1) = IF input[a + 1] = k THEN 1 ELSE 0
<1>1. {i \in a + 1 .. a : input[i] = k} = {}
  OBVIOUS
<1>2. {i \in a + 1 .. a + 1 : input[i] = k} = IF input[a + 1] = k THEN {a + 1} ELSE {}
  OBVIOUS
<1>3. Cardinality({}) = 0 /\ Cardinality({a + 1}) = 1
  BY FS_EmptySet, FS_Singleton
<1> QED BY <1>1, <1>2, <1>3 DEF RowsOf

(* The rows of a group are those of the column that point to it.           *)
LEMMA RowsOfColumn ==
  ASSUME NEW k, NEW a \in Nat, NEW n \in Nat, NEW column \in [1 .. n -> Keys],
         \A i \in 1 .. n : column[i] = input[a + i]
  PROVE  Cardinality({i \in 1 .. n : column[i] = k}) = RowsOf(k, a, a + n)
<1> DEFINE S == {i \in 1 .. n : column[i] = k}
           T == {i \in a + 1 .. a + n : input[i] = k}
           f == [i \in S |-> a + i]
<1>1. IsFiniteSet(S)
  <2>1. IsFiniteSet(1 .. n)
    BY FS_Interval
  <2> QED BY <2>1, FS_Subset
<1>2. f \in Bijection(S, T)
  <2>1. \A i \in S : i \in Int /\ a + i \in T
    OBVIOUS
  <2>2. \A j \in T : j - a \in S /\ a + (j - a) = j
    <3> SUFFICES ASSUME NEW j \in T PROVE j - a \in S /\ a + (j - a) = j
      OBVIOUS
    <3>1. j \in Int /\ j - a \in 1 .. n /\ a + (j - a) = j
      OBVIOUS
    <3>2. column[j - a] = input[a + (j - a)]
      BY <3>1
    <3> QED BY <3>1, <3>2
  <2> HIDE DEF S, T
  <2>3. f \in [S -> T]
    BY <2>1
  <2>4. \A i, j \in S : f[i] = f[j] => i = j
    BY <2>1
  <2>5. \A j \in T : \E i \in S : f[i] = j
    BY <2>2
  <2> QED BY <2>3, <2>4, <2>5 DEF Bijection, Injection, Surjection, IsInjective
<1> HIDE DEF S, T, f
<1>3. Cardinality(T) = Cardinality(S)
  BY <1>1, <1>2, FS_Bijection DEF ExistsBijection
<1> QED BY <1>3 DEF RowsOf, S, T

(* The keys of the column an interpreting worker has collected.            *)
ColumnInv(t) ==
  pc[t] \in {"lookup", "update"} => \A i \in 1 .. Len(pointers[t]) :
    /\ pointers[t][i].key = input[chunk[t].start + i]
    /\ pointers[t][i].key \in hashTables[t].keys

(* A table has groups of the input only, and counts only for its groups.   *)
InInput(k) == \E i \in DOMAIN input : input[i] = k
GroupInv(t) ==
  \A k \in Keys :
    /\ k \in hashTables[t].keys => InInput(k)
    /\ hashTables[t].sum[k] # 0 => k \in hashTables[t].keys

(* A worker is done when no row is left to be picked.                      *)
PickedInv(t) == pc[t] \in {"done", "read"} => startIdx >= Len(input)

(* The rows worker t has picked.                                           *)
Picked(t, k) == hashTables[t].sum[k] + Outstanding(t, k)

ScanInv ==
  preMerge = << >> =>
    /\ \A t \in Threads : ColumnInv(t) /\ GroupInv(t) /\ PickedInv(t)
    /\ RowsCountedOnce

(* A step of one worker leaves the variables of the others alone.          *)
LEMMA WorkerLocal ==
  ASSUME BaseInv, NEW t \in Threads, WorkerStep(t), NEW u \in Threads, u # t
  PROVE  /\ pc'[u] = pc[u] /\ chunk'[u] = chunk[u] /\ row'[u] = row[u]
         /\ pointers'[u] = pointers[u] /\ hashTables'[u] = hashTables[u]
         /\ source'[u] = source[u] /\ unread'[u] = unread[u]
         /\ mergePairs'[u] = mergePairs[u]
<1>1. ShapeInv
  BY DEF BaseInv, IInv
<1>2. pc'[u] = pc[u]
  BY <1>1, WorkerPhase DEF BaseInv, ShapeInv
<1>3. hashTables'[u] = hashTables[u]
  BY WorkerTables
<1>4. chunk'[u] = chunk[u] /\ row'[u] = row[u]
  BY <1>1 DEF ShapeInv, WorkerStep, PickMorsel, CompiledRow, LookUpNextRow, FinishCompiled,
     LookupRow, FinishLookups, Update, CleanUp, MergeKey, FinishKeys, MergeSums, scanVars
<1>5. pointers'[u] = pointers[u]
  BY <1>1 DEF ShapeInv, WorkerStep, PickMorsel, CompiledRow, FinishCompiled,
     LookupRow, FinishLookups, Update, CleanUp, MergeKey, FinishKeys, MergeSums, scanVars
<1>6. CASE MergeKey(t) \/ MergeSums(t)
  <2>1. source'[u] = source[u] /\ unread'[u] = unread[u] /\ mergePairs'[u] = mergePairs[u]
    BY <1>1, <1>6 DEF ShapeInv, MergeKey, MergeSums
  <2> QED BY <1>2, <1>3, <1>4, <1>5, <2>1
<1>7. CASE ~(MergeKey(t) \/ MergeSums(t))
  <2>1. mergeVars' = mergeVars
    BY <1>7 DEF WorkerStep, PickMorsel, CompiledRow, FinishCompiled, LookupRow,
       FinishLookups, Update, CleanUp, FinishKeys
  <2> QED BY <1>2, <1>3, <1>4, <1>5, <2>1 DEF mergeVars
<1> QED BY <1>6, <1>7

(* The rows that were picked lie before this one.                          *)
Scanned == Min({startIdx, Len(input)})

(* The rows handed out are a prefix of the input, although the start index
   may run past its end. *)
LEMMA ScannedType ==
  ASSUME ShapeInv
  PROVE  /\ Scanned \in Nat /\ Len(input) \in Nat
         /\ Scanned = IF startIdx < Len(input) THEN startIdx ELSE Len(input)
<1> DEFINE n == Len(input)
<1>1. startIdx \in Nat /\ n \in Nat
  BY DEF ShapeInv
<1> HIDE DEF n
<1>2. \E x \in {startIdx, n} : \A y \in {startIdx, n} : x <= y
  BY <1>1
<1> DEFINE m == CHOOSE x \in {startIdx, n} : \A y \in {startIdx, n} : x <= y
<1>3. m \in {startIdx, n} /\ \A y \in {startIdx, n} : m <= y
  BY <1>2
<1>4. Scanned = m
  BY DEF Scanned, Min, n
<1> HIDE DEF m
<1>5. m \in Nat /\ m = IF startIdx < n THEN startIdx ELSE n
  BY <1>1, <1>3
<1> QED BY <1>1, <1>4, <1>5 DEF n

(* A step of worker t picks rows and leaves each of them in one place.     *)
StepRows(t) ==
  /\ ColumnInv(t)' /\ GroupInv(t)' /\ PickedInv(t)'
  /\ startIdx' \in Nat /\ startIdx <= startIdx'
  /\ \A k \in Keys : Picked(t, k)' - Picked(t, k) = RowsOf(k, 0, Scanned)' - RowsOf(k, 0, Scanned)

(* What holds of a worker before its step.                                 *)
LEMMA Before ==
  ASSUME BaseInv, ScanInv, preMerge = << >>, NEW t \in Threads
  PROVE  /\ ShapeInv /\ MorselInv(t) /\ PointerInv(t) /\ FlagInv(t)
         /\ ColumnInv(t) /\ GroupInv(t) /\ PickedInv(t)
         /\ hashTables \in [Threads -> Tables] /\ pc \in [Threads -> WorkerPcs]
         /\ chunk[t].start \in Nat /\ chunk[t].end \in Nat /\ row[t] \in Nat
         /\ Len(input) \in Nat /\ startIdx \in Nat /\ pointers[t] \in Seq(Pointers)
         /\ \A k \in Keys : hashTables[t].sum[k] \in Nat
         /\ \A i \in chunk[t].start + 1 .. chunk[t].end : input[i] \in Keys /\ InInput(input[i])
         /\ Scanned \in Nat
<1>1. /\ ShapeInv /\ MorselInv(t) /\ PointerInv(t) /\ FlagInv(t)
      /\ ColumnInv(t) /\ GroupInv(t) /\ PickedInv(t)
      /\ hashTables \in [Threads -> Tables]
  BY DEF BaseInv, IInv, LocalInv, TablesInv, ScanInv
<1>2. /\ pc \in [Threads -> WorkerPcs]
      /\ chunk[t].start \in Nat /\ chunk[t].end \in Nat /\ row[t] \in Nat
      /\ input \in Seq(Keys) /\ startIdx \in Nat /\ pointers[t] \in Seq(Pointers)
  BY <1>1 DEF ShapeInv
<1>3. \A k \in Keys : hashTables[t].sum[k] \in Nat
  BY <1>1 DEF Tables
<1>4. Scanned \in Nat /\ Len(input) \in Nat
  BY <1>1, ScannedType
<1>5. ASSUME NEW i \in chunk[t].start + 1 .. chunk[t].end
      PROVE  input[i] \in Keys /\ InInput(input[i])
  <2>1. chunk[t].end <= Len(input)
    BY <1>1, <1>2, <1>4 DEF MorselInv
  <2>2. i \in 1 .. Len(input)
    BY <1>2, <1>4, <2>1
  <2>3. DOMAIN input = 1 .. Len(input)
    BY <1>2
  <2> QED BY <1>2, <2>2, <2>3 DEF InInput
<1> QED BY <1>1, <1>2, <1>3, <1>4, <1>5

(* Steps that move rows from one place of a worker to another leave their  *)
(* number and the place of the scan alone.                                 *)
LEMMA NothingPicked ==
  ASSUME NEW t \in Threads, ColumnInv(t)', GroupInv(t)', PickedInv(t)',
         ShapeInv, startIdx' = startIdx, input' = input,
         \A k \in Keys : Picked(t, k) \in Nat /\ Picked(t, k)' = Picked(t, k)
  PROVE  StepRows(t)
<1>1. startIdx \in Nat /\ startIdx' \in Nat /\ startIdx <= startIdx'
  BY DEF ShapeInv
<1>2. ASSUME NEW k \in Keys
      PROVE  Picked(t, k)' - Picked(t, k) = RowsOf(k, 0, Scanned)' - RowsOf(k, 0, Scanned)
  <2>1. RowsOf(k, 0, Scanned)' = RowsOf(k, 0, Scanned)
    BY DEF RowsOf, Scanned
  <2>2. RowsOf(k, 0, Scanned) \in Nat
    BY RowsOfType, ScannedType
  <2>3. Picked(t, k) \in Nat /\ Picked(t, k)' = Picked(t, k)
    OBVIOUS
  <2>4. \A x \in Nat : x - x = 0
    OBVIOUS
  <2>5. Picked(t, k) - Picked(t, k) = RowsOf(k, 0, Scanned) - RowsOf(k, 0, Scanned)
    BY <2>2, <2>3, <2>4
  <2> QED BY <2>1, <2>3, <2>5
<1> QED BY <1>1, <1>2 DEF StepRows

(* What worker t still owes the table is a number of rows.                 *)
LEMMA OutstandingType ==
  ASSUME BaseInv, ScanInv, preMerge = << >>, NEW t \in Threads, NEW k \in Keys
  PROVE  Outstanding(t, k) \in Nat /\ Picked(t, k) \in Nat
<1>1. /\ chunk[t].start \in Nat /\ chunk[t].end \in Nat /\ row[t] \in Nat
      /\ hashTables[t].sum[k] \in Nat
  BY Before
<1>2. RowsOf(k, row[t], chunk[t].end) \in Nat /\ RowsOf(k, chunk[t].start, chunk[t].end) \in Nat
  BY <1>1, RowsOfType
<1>3. Outstanding(t, k) \in Nat
  BY <1>2 DEF Outstanding
<1> QED BY <1>1, <1>3 DEF Picked

(* The end of a compiled morsel leaves the count of every worker in step
   with its rows. *)
LEMMA FinishCompiledRows ==
  ASSUME BaseInv, ScanInv, preMerge = << >>, NEW t \in Threads, FinishCompiled(t)
  PROVE  StepRows(t)
<1>1. /\ ShapeInv /\ GroupInv(t) /\ pc \in [Threads -> WorkerPcs] /\ row[t] \in Nat
  BY Before
<1>2. /\ pc[t] = "compiled" /\ row[t] = chunk[t].end
      /\ UNCHANGED <<input, startIdx, hashTables>>
  BY DEF FinishCompiled, inputVars, scanVars
<1>3. pc'[t] = "cleanUp"
  BY <1>1 DEF FinishCompiled, Go
<1>4. ColumnInv(t)' /\ GroupInv(t)' /\ PickedInv(t)'
  BY <1>1, <1>2, <1>3 DEF ColumnInv, GroupInv, PickedInv, InInput
<1>5. ASSUME NEW k \in Keys PROVE Picked(t, k) \in Nat /\ Picked(t, k)' = Picked(t, k)
  <2>1. Outstanding(t, k) = 0
    BY <1>1, <1>2, RowsOfOne DEF Outstanding
  <2>2. Outstanding(t, k)' = 0
    BY <1>3 DEF Outstanding
  <2> QED BY <1>2, <2>1, <2>2, OutstandingType DEF Picked
<1> QED BY <1>1, <1>2, <1>4, <1>5, NothingPicked

(* After the clean-up a worker has no row of the morsel outstanding. *)
LEMMA CleanUpRows ==
  ASSUME BaseInv, ScanInv, preMerge = << >>, NEW t \in Threads, CleanUp(t)
  PROVE  StepRows(t)
<1>1. ShapeInv /\ GroupInv(t) /\ pc \in [Threads -> WorkerPcs]
  BY Before
<1>2. pc[t] = "cleanUp" /\ UNCHANGED <<input, startIdx, hashTables>>
  BY DEF CleanUp, inputVars
<1>3. pc'[t] = "pick"
  BY <1>1 DEF CleanUp, Go
<1>4. ColumnInv(t)' /\ GroupInv(t)' /\ PickedInv(t)'
  BY <1>1, <1>2, <1>3 DEF ColumnInv, GroupInv, PickedInv, InInput
<1>5. ASSUME NEW k \in Keys PROVE Picked(t, k) \in Nat /\ Picked(t, k)' = Picked(t, k)
  <2>1. Outstanding(t, k) = 0 /\ Outstanding(t, k)' = 0
    BY <1>2, <1>3 DEF Outstanding
  <2> QED BY <1>2, <2>1, OutstandingType DEF Picked
<1> QED BY <1>1, <1>2, <1>4, <1>5, NothingPicked

(* A morsel that is restarted keeps its rows, and so does one that goes on *)
(* to the updates.                                                         *)
LEMMA FinishLookupsRows ==
  ASSUME BaseInv, ScanInv, preMerge = << >>, NEW t \in Threads, FinishLookups(t)
  PROVE  StepRows(t)
<1>1. ShapeInv /\ ColumnInv(t) /\ GroupInv(t) /\ pc \in [Threads -> WorkerPcs]
  BY Before
<1>2. pc[t] = "lookup" /\ UNCHANGED <<input, startIdx, chunk, hashTables>>
  BY DEF FinishLookups, inputVars
<1>3. /\ pc'[t] \in {"lookup", "update"}
      /\ pointers'[t] = << >> \/ pointers' = pointers
  BY <1>1, <1>2 DEF FinishLookups, Go, ShapeInv
<1>4. ColumnInv(t)' /\ GroupInv(t)' /\ PickedInv(t)'
  <2>1. ColumnInv(t)'
    <3>1. CASE pointers'[t] = << >>
      BY <3>1 DEF ColumnInv
    <3>2. CASE pointers' = pointers
      BY <1>1, <1>2, <3>2 DEF ColumnInv
    <3> QED BY <1>3, <3>1, <3>2
  <2> QED BY <1>1, <1>2, <1>3, <2>1 DEF GroupInv, PickedInv, InInput
<1>5. ASSUME NEW k \in Keys PROVE Picked(t, k) \in Nat /\ Picked(t, k)' = Picked(t, k)
  <2>1. Outstanding(t, k)' = Outstanding(t, k)
    BY <1>2, <1>3 DEF Outstanding, RowsOf
  <2> QED BY <1>2, <2>1, OutstandingType DEF Picked
<1> QED BY <1>1, <1>2, <1>4, <1>5, NothingPicked

(* A lookup adds the group of its row to the table and the column.         *)
LEMMA LookupRowRows ==
  ASSUME BaseInv, ScanInv, preMerge = << >>, NEW t \in Threads, LookupRow(t)
  PROVE  StepRows(t)
<1> DEFINE k == input[row[t] + 1]
           found == LookupOrInsert(hashTables[t], k)
           p == PointerTo(found, k)
<1>1. /\ ShapeInv /\ MorselInv(t) /\ PointerInv(t) /\ ColumnInv(t) /\ GroupInv(t)
      /\ hashTables \in [Threads -> Tables] /\ pc \in [Threads -> WorkerPcs]
      /\ chunk[t].start \in Nat /\ chunk[t].end \in Nat /\ row[t] \in Nat
      /\ pointers[t] \in Seq(Pointers)
  BY Before
<1>2. pc[t] = "lookup" /\ row[t] < chunk[t].end /\ UNCHANGED <<input, startIdx, chunk, pc>>
  BY DEF LookupRow, LookUpNextRow, inputVars
<1>3. k \in Keys /\ InInput(k)
  <2>1. row[t] + 1 \in chunk[t].start + 1 .. chunk[t].end
    BY <1>1, <1>2 DEF MorselInv
  <2>2. \A i \in chunk[t].start + 1 .. chunk[t].end : input[i] \in Keys /\ InInput(input[i])
    BY Before
  <2> QED BY <2>1, <2>2
<1>4. found \in Tables /\ found.sum = hashTables[t].sum /\ found.keys = hashTables[t].keys \cup {k}
  BY <1>1, <1>3, LookupKeepsTable
<1>5. hashTables'[t] = found /\ pointers'[t] = Append(pointers[t], p)
  <2>1. hashTables'[t] = found
    BY <1>1 DEF LookupRow
  <2> QED BY <1>1, <2>1 DEF LookupRow, ShapeInv
<1>6. p.key = k /\ p \in Pointers
  BY <1>3, <1>4 DEF PointerTo, Pointers, Tables
<1>7. Len(pointers[t]) = row[t] - chunk[t].start
  BY <1>1, <1>2 DEF PointerInv
<1>8. ColumnInv(t)'
  <2> DEFINE n == Len(pointers[t])
  <2>1. n \in Nat /\ chunk[t].start + (n + 1) = row[t] + 1
    BY <1>1, <1>7
  <2>2. /\ Len(pointers'[t]) = n + 1 /\ pointers'[t][n + 1] = p
        /\ \A i \in 1 .. n : pointers'[t][i] = pointers[t][i]
    BY <1>1, <1>5, <1>6
  <2>3. \A i \in 1 .. n : /\ pointers[t][i].key = input[chunk[t].start + i]
                          /\ pointers[t][i].key \in hashTables[t].keys
    BY <1>1, <1>2 DEF ColumnInv
  <2>4. ASSUME NEW i \in 1 .. n + 1
        PROVE  /\ pointers'[t][i].key = input[chunk[t].start + i]
               /\ pointers'[t][i].key \in found.keys
    <3>1. CASE i = n + 1
      BY <1>4, <1>6, <2>1, <2>2, <3>1
    <3>2. CASE i # n + 1
      <4>1. i \in 1 .. n
        BY <2>1, <2>4, <3>2
      <4> HIDE DEF n
      <4> QED BY <1>4, <2>2, <2>3, <4>1
    <3> QED BY <3>1, <3>2
  <2> HIDE DEF n, found, p
  <2>5. /\ input' = input /\ chunk' = chunk /\ hashTables'[t].keys = found.keys
        /\ Len(pointers'[t]) = n + 1
    BY <1>2, <1>5, <2>2
  <2> QED BY <2>4, <2>5 DEF ColumnInv
<1>9. GroupInv(t)' /\ PickedInv(t)'
  <2> HIDE DEF found, k
  <2> QED BY <1>1, <1>2, <1>3, <1>4, <1>5 DEF GroupInv, PickedInv, InInput
<1>10. ASSUME NEW g \in Keys PROVE Picked(t, g) \in Nat /\ Picked(t, g)' = Picked(t, g)
  <2>1. Outstanding(t, g)' = Outstanding(t, g)
    BY <1>2 DEF Outstanding, RowsOf
  <2> HIDE DEF found
  <2> QED BY <1>4, <1>5, <2>1, OutstandingType DEF Picked
<1> QED BY <1>1, <1>2, <1>8, <1>9, <1>10, NothingPicked

(* Generated code counts its row at once.                                  *)
LEMMA CompiledRowRows ==
  ASSUME BaseInv, ScanInv, preMerge = << >>, NEW t \in Threads, CompiledRow(t)
  PROVE  StepRows(t)
<1> DEFINE k == input[row[t] + 1]
           found == LookupOrInsert(hashTables[t], k)
           counts == [found.sum EXCEPT ![k] = found.sum[k] + 1]
           counted == [found EXCEPT !.sum = counts]
<1>1. /\ ShapeInv /\ MorselInv(t) /\ GroupInv(t)
      /\ hashTables \in [Threads -> Tables] /\ pc \in [Threads -> WorkerPcs]
      /\ chunk[t].start \in Nat /\ chunk[t].end \in Nat /\ row[t] \in Nat
      /\ \A g \in Keys : hashTables[t].sum[g] \in Nat
  BY Before
<1>2. pc[t] = "compiled" /\ row[t] < chunk[t].end /\ UNCHANGED <<input, startIdx, chunk, pc>>
  BY DEF CompiledRow, LookUpNextRow, inputVars
<1>3. k \in Keys /\ InInput(k)
  <2>1. row[t] + 1 \in chunk[t].start + 1 .. chunk[t].end
    BY <1>1, <1>2 DEF MorselInv
  <2>2. \A i \in chunk[t].start + 1 .. chunk[t].end : input[i] \in Keys /\ InInput(input[i])
    BY Before
  <2> QED BY <2>1, <2>2
<1>4. found \in Tables /\ found.sum = hashTables[t].sum /\ found.keys = hashTables[t].keys \cup {k}
  BY <1>1, <1>3, LookupKeepsTable
<1>5. hashTables'[t] = counted /\ row'[t] = row[t] + 1
  <2>1. hashTables' = [hashTables EXCEPT ![t] = counted]
    BY DEF CompiledRow
  <2>2. row' = [row EXCEPT ![t] = row[t] + 1]
    BY DEF CompiledRow, LookUpNextRow
  <2> HIDE DEF counted
  <2> QED BY <1>1, <2>1, <2>2 DEF ShapeInv
<1> HIDE DEF found
<1>6. counts \in [Keys -> Nat]
  BY <1>3, <1>4 DEF Tables
<1>7. counted.sum = counts /\ counted.keys = hashTables[t].keys \cup {k}
  <2> HIDE DEF counts
  <2> QED BY <1>4, <1>6, CountsKeepTable
<1>8. \A g \in Keys : counts[g] = IF g = k THEN hashTables[t].sum[g] + 1 ELSE hashTables[t].sum[g]
  BY <1>3, <1>4 DEF Tables
<1> HIDE DEF counts, counted
<1>9. ColumnInv(t)' /\ GroupInv(t)' /\ PickedInv(t)'
  <2> HIDE DEF k
  <2>1. GroupInv(t)'
    BY <1>1, <1>2, <1>3, <1>5, <1>7, <1>8 DEF GroupInv, InInput
  <2> QED BY <1>2, <2>1 DEF ColumnInv, PickedInv
<1>10. ASSUME NEW g \in Keys PROVE Picked(t, g) \in Nat /\ Picked(t, g)' = Picked(t, g)
  <2> DEFINE before == RowsOf(g, row[t], chunk[t].end)
             after == RowsOf(g, row[t] + 1, chunk[t].end)
             one == IF k = g THEN 1 ELSE 0
             sum == hashTables[t].sum[g]
             new == counts[g]
  <2>1. before = one + after
    <3>1. RowsOf(g, row[t], chunk[t].end)
            = RowsOf(g, row[t], row[t] + 1) + RowsOf(g, row[t] + 1, chunk[t].end)
      <4>1. row[t] + 1 \in Nat /\ row[t] <= row[t] + 1 /\ row[t] + 1 <= chunk[t].end
        BY <1>1, <1>2
      <4> QED BY <1>1, <4>1, RowsOfParts
    <3>2. RowsOf(g, row[t], row[t] + 1) = IF k = g THEN 1 ELSE 0
      BY <1>1, RowsOfOne
    <3> QED BY <3>1, <3>2
  <2>2. Outstanding(t, g) = before /\ Outstanding(t, g)' = after
    <3>1. Outstanding(t, g)' = RowsOf(g, row[t] + 1, chunk[t].end)
      BY <1>2, <1>5 DEF Outstanding, RowsOf
    <3> QED BY <1>2, <3>1 DEF Outstanding
  <2>3. after \in Nat /\ sum \in Nat /\ hashTables'[t].sum[g] = new
    <3>1. row[t] + 1 \in Nat /\ chunk[t].end \in Nat
      BY <1>1
    <3>2. after \in Nat
      BY <3>1, RowsOfType
    <3>3. hashTables'[t].sum[g] = new
      BY <1>5, <1>7
    <3>4. sum \in Nat
      BY <1>1
    <3> QED BY <3>2, <3>3, <3>4
  <2>4. new = sum + one
    BY <1>8, <2>3
  <2>5. Picked(t, g) = sum + before /\ Picked(t, g)' = new + after
    BY <2>2, <2>3 DEF Picked
  <2>6. one \in Nat
    OBVIOUS
  <2> HIDE DEF before, after, one, sum, new
  <2>7. sum + before \in Nat /\ sum + before = new + after
    BY <2>1, <2>3, <2>4, <2>6
  <2> QED BY <2>5, <2>7
<1> QED BY <1>1, <1>2, <1>9, <1>10, NothingPicked

(* The interpreter counts the rows of its column: those of its morsel.     *)
LEMMA UpdateRows ==
  ASSUME BaseInv, ScanInv, preMerge = << >>, NEW t \in Threads, Update(t)
  PROVE  StepRows(t)
<1> DEFINE counts == [k \in Keys |-> hashTables[t].sum[k] + Cardinality(Updates(t, k))]
           updated == [hashTables[t] EXCEPT !.sum = counts]
           start == chunk[t].start
           n == Len(pointers[t])
<1>1. /\ ShapeInv /\ MorselInv(t) /\ PointerInv(t) /\ FlagInv(t) /\ ColumnInv(t) /\ GroupInv(t)
      /\ hashTables \in [Threads -> Tables] /\ pc \in [Threads -> WorkerPcs]
      /\ chunk[t].start \in Nat /\ chunk[t].end \in Nat /\ row[t] \in Nat
      /\ pointers[t] \in Seq(Pointers)
  BY Before
<1>2. pc[t] = "update" /\ UNCHANGED <<input, startIdx, chunk>>
  BY DEF Update, inputVars, scanVars
<1>3. pc'[t] = "cleanUp" /\ hashTables'[t] = updated
  <2>1. pc'[t] = "cleanUp"
    BY <1>1 DEF Update, Go
  <2>2. hashTables' = [hashTables EXCEPT ![t] = updated]
    BY DEF Update, Updates
  <2> HIDE DEF updated
  <2> QED BY <1>1, <2>1, <2>2
<1>4. counts \in [Keys -> Nat]
  BY <1>1, UpdateCounts
<1>5. \A k \in Keys : counts[k] = hashTables[t].sum[k] + Cardinality(Updates(t, k))
  OBVIOUS
<1> HIDE DEF counts
<1>6. updated.sum = counts /\ updated.keys = hashTables[t].keys
  BY <1>1, <1>4, CountsKeepTable
<1> HIDE DEF updated
<1>7. /\ n \in Nat /\ start + n = chunk[t].end /\ DOMAIN pointers[t] = 1 .. n
      /\ ~restartFlag[t] /\ \A i \in 1 .. n : Live(hashTables[t], pointers[t][i])
  <2>1. n \in Nat /\ DOMAIN pointers[t] = 1 .. n
    BY <1>1
  <2>2. n = row[t] - start /\ row[t] = chunk[t].end
    BY <1>1, <1>2 DEF PointerInv
  <2>3. ~restartFlag[t]
    BY <1>1, <1>2 DEF FlagInv
  <2>4. start + n = chunk[t].end
    BY <1>1, <2>2
  <2> QED BY <1>1, <1>2, <2>1, <2>3, <2>4 DEF PointerInv
<1>8. \A i \in 1 .. n : /\ pointers[t][i].key = input[start + i] /\ pointers[t][i].key \in Keys
                        /\ pointers[t][i].key \in hashTables[t].keys
  <2>1. \A i \in 1 .. n : pointers[t][i] \in Pointers
    BY <1>1, <1>7
  <2> QED BY <1>1, <1>2, <2>1 DEF ColumnInv, Pointers
<1>9. ASSUME NEW k \in Keys
      PROVE  Cardinality(Updates(t, k)) = RowsOf(k, start, chunk[t].end)
  <2> DEFINE column == [i \in 1 .. n |-> pointers[t][i].key]
  <2>1. Updates(t, k) = {i \in 1 .. n : column[i] = k}
    BY <1>7 DEF Updates
  <2>2. column \in [1 .. n -> Keys] /\ \A i \in 1 .. n : column[i] = input[start + i]
    BY <1>8
  <2>3. start \in Nat /\ n \in Nat
    BY <1>1, <1>7
  <2> HIDE DEF column, n, start
  <2>4. Cardinality({i \in 1 .. n : column[i] = k}) = RowsOf(k, start, start + n)
    BY <2>2, <2>3, RowsOfColumn
  <2> QED BY <1>7, <2>1, <2>4
<1>10. ASSUME NEW k \in Keys, Cardinality(Updates(t, k)) # 0
       PROVE  k \in hashTables[t].keys
  <2>1. Updates(t, k) # {}
    BY <1>10, FS_EmptySet
  <2> QED BY <1>7, <1>8, <2>1 DEF Updates
<1>11. ColumnInv(t)' /\ GroupInv(t)' /\ PickedInv(t)'
  <2>1. ASSUME NEW k \in Keys, counts[k] # 0 PROVE k \in hashTables[t].keys
    <3>1. hashTables[t].sum[k] # 0 \/ Cardinality(Updates(t, k)) # 0
      BY <1>5, <2>1
    <3> QED BY <1>1, <1>10, <3>1 DEF GroupInv
  <2>2. GroupInv(t)'
    BY <1>1, <1>2, <1>3, <1>6, <2>1 DEF GroupInv, InInput
  <2> QED BY <1>3, <2>2 DEF ColumnInv, PickedInv
<1>12. ASSUME NEW k \in Keys PROVE Picked(t, k) \in Nat /\ Picked(t, k)' = Picked(t, k)
  <2>1. Outstanding(t, k) = RowsOf(k, start, chunk[t].end) /\ Outstanding(t, k)' = 0
    BY <1>2, <1>3 DEF Outstanding
  <2>2. Picked(t, k)' = counts[k] + 0
    BY <1>3, <1>6, <2>1 DEF Picked
  <2>3. counts[k] = Picked(t, k)
    BY <1>5, <1>9, <2>1 DEF Picked
  <2>4. counts[k] \in Nat
    BY <1>4
  <2> QED BY <2>2, <2>3, <2>4
<1> QED BY <1>1, <1>2, <1>11, <1>12, NothingPicked

(* A new morsel: the rows between the old and the new place of the scan.   *)
LEMMA PickMorselRows ==
  ASSUME BaseInv, ScanInv, preMerge = << >>, NEW t \in Threads, PickMorsel(t)
  PROVE  StepRows(t)
<1> DEFINE n == Len(input)
           last == Min({startIdx + ChunkSize, n})
<1>1. /\ ShapeInv /\ GroupInv(t) /\ PointerInv(t) /\ pc \in [Threads -> WorkerPcs]
      /\ n \in Nat /\ startIdx \in Nat /\ \A k \in Keys : hashTables[t].sum[k] \in Nat
  BY Before
<1>2. /\ pc[t] = "pick" /\ startIdx' = startIdx + ChunkSize
      /\ UNCHANGED <<input, pointers, hashTables>>
  BY DEF PickMorsel, inputVars
<1>3. ChunkSize \in Nat \ {0} /\ startIdx' \in Nat /\ startIdx <= startIdx'
  BY <1>1, <1>2, AggregationAssumption
<1>4. Scanned = (IF startIdx < n THEN startIdx ELSE n) /\ Scanned \in Nat
  BY <1>1, ScannedType
<1>5. last \in Nat /\ last = IF startIdx' < n THEN startIdx' ELSE n
  <2> HIDE DEF n
  <2> DEFINE e == startIdx + ChunkSize
             m == CHOOSE x \in {e, n} : \A y \in {e, n} : x <= y
  <2>1. e \in Nat /\ e = startIdx'
    BY <1>1, <1>2, <1>3
  <2> HIDE DEF e
  <2>2. \E x \in {e, n} : \A y \in {e, n} : x <= y
    BY <1>1, <2>1
  <2>3. m \in {e, n} /\ \A y \in {e, n} : m <= y
    BY <2>2
  <2>4. last = m
    BY DEF Min, e
  <2> HIDE DEF m, last
  <2>5. m \in Nat /\ m = IF e < n THEN e ELSE n
    BY <1>1, <2>1, <2>3
  <2> QED BY <2>1, <2>4, <2>5
<1>6. Scanned' = last
  BY <1>2 DEF Scanned
<1> HIDE DEF last
<1>7. GroupInv(t)'
  BY <1>1, <1>2 DEF GroupInv, InInput
<1>8. ASSUME NEW k \in Keys
      PROVE  /\ RowsOf(k, 0, Scanned)' = RowsOf(k, 0, last)
             /\ RowsOf(k, 0, Scanned) \in Nat /\ Outstanding(t, k) = 0
             /\ Picked(t, k) = hashTables[t].sum[k]
  <2>1. RowsOf(k, 0, Scanned)' = RowsOf(k, 0, last)
    BY <1>2, <1>6 DEF RowsOf
  <2>2. Outstanding(t, k) = 0
    BY <1>2 DEF Outstanding
  <2> QED BY <1>1, <1>4, <2>1, <2>2, RowsOfType DEF Picked
<1>9. CASE startIdx >= n
  <2>1. pc'[t] = "done" /\ chunk' = chunk /\ row' = row
    BY <1>1, <1>9 DEF PickMorsel, Go
  <2>2. last = n /\ Scanned = n /\ startIdx' >= n
    <3> HIDE DEF n
    <3> QED BY <1>1, <1>3, <1>4, <1>5, <1>9
  <2>3. ColumnInv(t)' /\ PickedInv(t)'
    BY <1>2, <2>1, <2>2 DEF ColumnInv, PickedInv
  <2>4. ASSUME NEW k \in Keys
        PROVE  Picked(t, k)' - Picked(t, k) = RowsOf(k, 0, Scanned)' - RowsOf(k, 0, Scanned)
    <3>1. Outstanding(t, k)' = 0
      BY <2>1 DEF Outstanding
    <3>2. Picked(t, k)' = hashTables[t].sum[k] /\ hashTables[t].sum[k] \in Nat
      BY <1>1, <1>2, <3>1 DEF Picked
    <3>3. RowsOf(k, 0, Scanned)' = RowsOf(k, 0, Scanned)
      BY <1>8, <2>2
    <3>4. \A x, y \in Nat : x - x = y - y
      OBVIOUS
    <3>5. hashTables[t].sum[k] - hashTables[t].sum[k] = RowsOf(k, 0, Scanned) - RowsOf(k, 0, Scanned)
      BY <1>8, <3>2, <3>4
    <3> QED BY <1>8, <3>2, <3>3, <3>5
  <2> QED BY <1>3, <1>7, <2>3, <2>4 DEF StepRows
<1>10. CASE startIdx < n
  <2>1. /\ chunk' = [chunk EXCEPT ![t] = [start |-> startIdx, end |-> last]]
        /\ row' = [row EXCEPT ![t] = startIdx]
        /\ \E runner \in {"compiled", "lookup"} : pc' = [pc EXCEPT ![t] = runner]
    BY <1>1, <1>10 DEF PickMorsel, Go, last
  <2>2. /\ chunk'[t].start = startIdx /\ chunk'[t].end = last /\ row'[t] = startIdx
        /\ pc'[t] \in {"compiled", "lookup"}
    BY <1>1, <2>1 DEF ShapeInv
  <2>3. pointers'[t] = << >>
    BY <1>1, <1>2 DEF PointerInv
  <2>4. ColumnInv(t)' /\ PickedInv(t)'
    BY <2>2, <2>3 DEF ColumnInv, PickedInv
  <2>5. startIdx <= last /\ Scanned = startIdx
    <3> HIDE DEF n
    <3> QED BY <1>1, <1>3, <1>4, <1>5, <1>10
  <2>6. ASSUME NEW k \in Keys
        PROVE  Picked(t, k)' - Picked(t, k) = RowsOf(k, 0, Scanned)' - RowsOf(k, 0, Scanned)
    <3> DEFINE a == RowsOf(k, 0, startIdx)
               b == RowsOf(k, startIdx, last)
               s == hashTables[t].sum[k]
    <3>1. Outstanding(t, k)' = b
      BY <1>2, <2>2 DEF Outstanding, RowsOf
    <3>2. Picked(t, k)' = s + b /\ Picked(t, k) = s
      BY <1>2, <1>8, <3>1 DEF Picked
    <3>3. RowsOf(k, 0, last) = a + b
      <4>1. 0 \in Nat /\ 0 <= startIdx
        BY <1>1
      <4> QED BY <1>1, <1>5, <2>5, <4>1, RowsOfParts
    <3>4. a \in Nat /\ b \in Nat /\ s \in Nat
      BY <1>1, <1>5, RowsOfType
    <3>5. RowsOf(k, 0, Scanned)' = a + b /\ RowsOf(k, 0, Scanned) = a
      BY <1>8, <2>5, <3>3
    <3> HIDE DEF a, b, s
    <3>6. (s + b) - s = (a + b) - a
      BY <3>4
    <3> QED BY <3>2, <3>5, <3>6
  <2> QED BY <1>3, <1>7, <2>4, <2>6 DEF StepRows
<1> QED BY <1>1, <1>9, <1>10

(* Each step of the pipeline keeps the rows of its worker together.        *)
LEMMA WorkerRows ==
  ASSUME BaseInv, ScanInv, preMerge = << >>, NEW t \in Threads, WorkerStep(t)
  PROVE  StepRows(t)
<1>1. pc[t] \notin MergePcs
  <2>1. PhaseInv
    BY DEF BaseInv, TablesInv
  <2>2. preMerge \notin [Threads -> Tables]
    BY ThreadsFinite
  <2> QED BY <2>1, <2>2 DEF PhaseInv, AllAt, ScanPcs, MergePcs
<1>2. ~MergeKey(t) /\ ~FinishKeys(t) /\ ~MergeSums(t)
  BY <1>1 DEF MergeKey, FinishKeys, MergeSums, MergePcs
<1> QED BY <1>2, PickMorselRows, CompiledRowRows, FinishCompiledRows, LookupRowRows,
           FinishLookupsRows, UpdateRows, CleanUpRows DEF WorkerStep

(* The rows that the workers hold add up to the rows that were picked.     *)
LEMMA RowsAddUp ==
  ASSUME BaseInv, ScanInv, preMerge = << >>, NEW t \in Threads, WorkerStep(t),
         NEW k \in Keys
  PROVE  RowsOf(k, 0, Scanned)' = SumFunction([u \in Threads |-> Picked(u, k)'])
<1> DEFINE f == [u \in Threads |-> Picked(u, k)]
           g == [u \in Threads |-> Picked(u, k)']
           a == RowsOf(k, 0, Scanned)
           b == RowsOf(k, 0, Scanned)'
<1>1. StepRows(t)
  BY WorkerRows
<1>2. \A u \in Threads : u # t => Picked(u, k)' = Picked(u, k)
  <2> SUFFICES ASSUME NEW u \in Threads, u # t PROVE Picked(u, k)' = Picked(u, k)
    OBVIOUS
  <2>1. input' = input
    BY WorkerPhase DEF BaseInv
  <2>2. /\ pc'[u] = pc[u] /\ chunk'[u] = chunk[u] /\ row'[u] = row[u]
        /\ hashTables'[u] = hashTables[u]
    BY WorkerLocal
  <2> QED BY <2>1, <2>2 DEF Picked, Outstanding, RowsOf
<1>3. a \in Nat /\ b \in Nat
  <2>1. Scanned \in Nat
    BY ScannedType DEF BaseInv, IInv
  <2>2. Scanned' \in Nat /\ startIdx' \in Nat
    <3>1. startIdx' \in Nat /\ input' = input /\ Len(input) \in Nat
      BY <1>1, WorkerPhase, ScannedType DEF StepRows, BaseInv, IInv
    <3> DEFINE m == startIdx'
               n == Len(input)
    <3> HIDE DEF m, n
    <3>2. \E x \in {m, n} : \A y \in {m, n} : x <= y
      BY <3>1 DEF m, n
    <3>3. (CHOOSE x \in {m, n} : \A y \in {m, n} : x <= y) \in {m, n}
      BY <3>2
    <3>4. Scanned' = CHOOSE x \in {m, n} : \A y \in {m, n} : x <= y
      BY <3>1 DEF Scanned, Min, m, n
    <3> QED BY <3>1, <3>3, <3>4 DEF m, n
  <2>3. RowsOf(k, 0, Scanned) \in Nat
    BY <2>1, RowsOfType
  <2>4. RowsOf(k, 0, Scanned)' = RowsOf(k, 0, Scanned')
    BY WorkerPhase DEF RowsOf, BaseInv
  <2>5. RowsOf(k, 0, Scanned') \in Nat
    BY <2>2, RowsOfType
  <2> QED BY <2>3, <2>4, <2>5
<1>4. f \in [Threads -> Int]
  <2>1. \A u \in Threads : Picked(u, k) \in Nat
    BY OutstandingType
  <2> QED BY <2>1
<1>5. Picked(t, k)' - Picked(t, k) = b - a
  BY <1>1 DEF StepRows
<1>6. a = SumFunction(f)
  <2>1. RowsCountedOnce
    BY DEF ScanInv
  <2> QED BY <2>1 DEF RowsCountedOnce, Picked, Scanned
<1>7. Picked(t, k)' \in Int
  <2>1. startIdx' \in Nat /\ ShapeInv' /\ hashTables' \in [Threads -> Tables]
    BY <1>1, WorkerTables, NextIInv DEF StepRows, BaseInv, IInv, Next
  <2>2. /\ hashTables'[t].sum[k] \in Nat /\ row'[t] \in Nat
        /\ chunk'[t].start \in Nat /\ chunk'[t].end \in Nat
    BY <2>1 DEF Tables, ShapeInv
  <2>3. Outstanding(t, k)' \in Nat
    <3>1. RowsOf(k, row'[t], chunk'[t].end) \in Nat /\ RowsOf(k, chunk'[t].start, chunk'[t].end) \in Nat
      BY <2>2, RowsOfType
    <3>2. input' = input
      BY WorkerPhase DEF BaseInv
    <3>3. Outstanding(t, k)' \in {RowsOf(k, row'[t], chunk'[t].end),
                                  RowsOf(k, chunk'[t].start, chunk'[t].end), 0}
      BY <3>2 DEF Outstanding, RowsOf
    <3> QED BY <3>1, <3>3
  <2> QED BY <2>2, <2>3 DEF Picked
<1>8. g \in [Threads -> Int]
  <2>1. \A u \in Threads : Picked(u, k)' \in Int
    <3>1. \A u \in Threads : Picked(u, k) \in Nat
      BY OutstandingType
    <3> QED BY <1>2, <1>7, <3>1
  <2> QED BY <2>1
<1>9. /\ f[t] = Picked(t, k) /\ g[t] = Picked(t, k)'
      /\ \A u \in Threads \ {t} : f[u] = g[u]
  BY <1>2
<1> HIDE DEF f, g, a, b
<1>11. SumFunction(g) = SumFunction(f) - f[t] + g[t] /\ SumFunction(f) \in Int
  BY <1>4, <1>8, <1>9, SumChanged, ThreadsFinite
<1>12. f[t] \in Int /\ g[t] \in Int
  BY <1>4, <1>8
<1>13. b = SumFunction(g)
  BY <1>3, <1>5, <1>6, <1>9, <1>11, <1>12
<1> QED BY <1>13 DEF b, g

(* At the start no row is scanned and no table counts one. *)
LEMMA InitScan ==
  ASSUME Init
  PROVE  ScanInv
<1> DEFINE n == Len(input)
<1>1. input \in Seq(Keys) /\ startIdx = 0 /\ n \in Nat
  BY AggregationAssumption DEF Init
<1>2. \A t \in Threads : /\ pc[t] = "pick" /\ hashTables[t].keys = {}
                         /\ \A k \in Keys : hashTables[t].sum[k] = 0
  BY DEF Init, NewTable
<1>3. \A t \in Threads : ColumnInv(t) /\ GroupInv(t) /\ PickedInv(t)
  BY <1>2 DEF ColumnInv, GroupInv, PickedInv
<1>4. Scanned = 0
  <2>1. \E x \in {0, n} : \A y \in {0, n} : x <= y
    BY <1>1
  <2> DEFINE m == CHOOSE x \in {0, n} : \A y \in {0, n} : x <= y
  <2>2. m \in {0, n} /\ \A y \in {0, n} : m <= y
    BY <2>1
  <2>3. Scanned = m
    BY <1>1 DEF Scanned, Min
  <2> HIDE DEF m, n
  <2> QED BY <1>1, <2>2, <2>3
<1>5. ASSUME NEW k \in Keys
      PROVE  RowsOf(k, 0, Scanned) = SumFunction([t \in Threads |-> Picked(t, k)])
  <2> DEFINE f == [t \in Threads |-> Picked(t, k)]
  <2>1. \A t \in Threads : Picked(t, k) = 0
    BY <1>2 DEF Picked, Outstanding
  <2>2. f \in [Threads -> Int] /\ \A t \in Threads : f[t] = 0
    BY <2>1
  <2> HIDE DEF f
  <2>3. SumFunction(f) = 0
    BY <2>2, SumZero, ThreadsFinite
  <2>4. RowsOf(k, 0, 0) = 0
    BY RowsOfOne
  <2> QED BY <1>4, <2>3, <2>4 DEF f
<1>6. RowsCountedOnce
  BY <1>5 DEF RowsCountedOnce, Scanned, Picked
<1> QED BY <1>3, <1>6 DEF ScanInv

(* Every step of the pipeline keeps scanned rows and counted rows in step. *)
LEMMA NextScan ==
  ASSUME BaseInv, ScanInv, [Next]_vars
  PROVE  ScanInv'
<1> SUFFICES ASSUME preMerge' = << >> PROVE ScanInv'
  BY DEF ScanInv
<1>1. ASSUME NEW t \in Threads, WorkerStep(t) PROVE ScanInv'
  <2>1. preMerge = << >> /\ input' = input
    BY <1>1, WorkerPhase DEF BaseInv
  <2>2. StepRows(t)
    BY <1>1, <2>1, WorkerRows
  <2>3. ASSUME NEW u \in Threads PROVE ColumnInv(u)' /\ GroupInv(u)' /\ PickedInv(u)'
    <3>1. CASE u = t
      BY <2>2, <3>1 DEF StepRows
    <3>2. CASE u # t
      <4>1. /\ pc'[u] = pc[u] /\ chunk'[u] = chunk[u] /\ row'[u] = row[u]
            /\ pointers'[u] = pointers[u] /\ hashTables'[u] = hashTables[u]
        BY <1>1, <3>2, WorkerLocal
      <4>2. ColumnInv(u) /\ GroupInv(u) /\ PickedInv(u)
        BY <2>1, Before
      <4>3. ColumnInv(u)' /\ GroupInv(u)'
        BY <2>1, <4>1, <4>2 DEF ColumnInv, GroupInv, InInput
      <4>4. PickedInv(u)'
        <5>1. /\ startIdx \in Nat /\ startIdx' \in Nat /\ startIdx <= startIdx'
              /\ Len(input) \in Nat
          BY <2>1, <2>2, Before DEF StepRows
        <5>2. startIdx >= Len(input) => startIdx' >= Len(input)
          BY <5>1
        <5> QED BY <2>1, <4>1, <4>2, <5>2 DEF PickedInv
      <4> QED BY <4>3, <4>4
    <3> QED BY <3>1, <3>2
  <2>4. ASSUME NEW k \in Keys
        PROVE  RowsOf(k, 0, Scanned)' = SumFunction([u \in Threads |-> Picked(u, k)'])
    BY <1>1, <2>1, RowsAddUp
  <2>5. RowsCountedOnce'
    BY <2>4 DEF RowsCountedOnce, Scanned, Picked
  <2> QED BY <2>3, <2>5 DEF ScanInv
<1>2. CASE SkipMerge
  <2>1. /\ AllAt("done") /\ pc' = [t \in Threads |-> "read"]
        /\ UNCHANGED <<input, startIdx, chunk, row, pointers, hashTables, preMerge>>
    BY <1>2 DEF SkipMerge, inputVars, scanVars, mergeVars
  <2>2. \A t \in Threads : ColumnInv(t)' /\ GroupInv(t)' /\ PickedInv(t)'
    BY <2>1 DEF ScanInv, ColumnInv, GroupInv, PickedInv, InInput, AllAt
  <2>3. ASSUME NEW k \in Keys
        PROVE  RowsOf(k, 0, Scanned)' = SumFunction([t \in Threads |-> Picked(t, k)'])
    <3>1. \A t \in Threads : Picked(t, k)' = Picked(t, k)
      BY <2>1 DEF Picked, Outstanding, AllAt
    <3>2. [t \in Threads |-> Picked(t, k)'] = [t \in Threads |-> Picked(t, k)]
      BY <3>1
    <3>3. RowsOf(k, 0, Scanned) = SumFunction([t \in Threads |-> Picked(t, k)])
      BY <2>1 DEF ScanInv, RowsCountedOnce, Scanned, Picked
    <3>4. RowsOf(k, 0, Scanned)' = RowsOf(k, 0, Scanned)
      BY <2>1 DEF RowsOf, Scanned
    <3> QED BY <3>2, <3>3, <3>4
  <2>4. RowsCountedOnce'
    BY <2>3 DEF RowsCountedOnce, Scanned, Picked
  <2> QED BY <2>2, <2>4 DEF ScanInv
<1>3. CASE PrepareMerge
  <2>1. hashTables = << >>
    BY <1>3 DEF PrepareMerge
  <2> QED BY <2>1, ThreadsFinite DEF BaseInv, TablesInv
<1>4. CASE FinishMerge
  <2>1. preMerge = << >> /\ AllAt("merged")
    BY <1>4 DEF FinishMerge, mergeVars
  <2>2. PhaseInv /\ preMerge \notin [Threads -> Tables]
    BY <2>1, ThreadsFinite DEF BaseInv, TablesInv
  <2> QED BY <2>1, <2>2, ThreadsFinite DEF PhaseInv, ScanPcs, AllAt
<1>5. CASE UNCHANGED vars
  <2>1. UNCHANGED <<input, startIdx, chunk, row, pc, pointers, hashTables, preMerge>>
    BY <1>5 DEF vars, inputVars, scanVars, mergeVars
  <2> QED BY <2>1, ZenonT(60) DEF ScanInv, ColumnInv, GroupInv, PickedInv, InInput, RowsCountedOnce,
             RowsOf, Outstanding
<1> QED BY <1>1, <1>2, <1>3, <1>4, <1>5 DEF Next, DriverStep

(* Until the merge starts, the tables together count every scanned row
   once. *)
LEMMA ScanInvCorrect ==
  Spec => []ScanInv
<1>1. Init => ScanInv
  BY InitScan
<1>2. BaseInv /\ ScanInv /\ [Next]_vars => ScanInv'
  BY NextScan
<1> QED BY <1>1, <1>2, BaseInvCorrect, PTL DEF Spec

(* Every row of the relation that was picked is counted once, whatever the *)
(* mix of compiled and interpreted morsels, and however often a morsel is  *)
(* restarted or a table resized.                                           *)
THEOREM RowsCountedOnceCorrect == Spec => []RowsCountedOnce
<1>1. ScanInv => RowsCountedOnce
  BY DEF ScanInv, RowsCountedOnce
<1> QED BY <1>1, ScanInvCorrect, PTL

-----------------------------------------------------------------------------
(* The merge. Every worker collects the groups it owns.                    *)

(* The tables of a pipeline that is done, or that were set aside for the   *)
(* merge, have the groups of the input and count all their rows.           *)
HoldInput(tables) ==
  \A k \in Keys :
    /\ InInput(k) <=> \E s \in Threads : k \in tables[s].keys
    /\ \A s \in Threads : k \notin tables[s].keys => tables[s].sum[k] = 0
    /\ RowsOf(k, 0, Len(input)) = SumFunction([s \in Threads |-> tables[s].sum[k]])

(* The source tables before this one are merged into the table of t.       *)
SourceEnd(t) == IF pc[t] \in {"merged", "read"} THEN NumThreads ELSE source[t]

(* A worker has the groups it owns of what it has read, and no others.     *)
OwnInv(t) ==
  \A k \in Keys :
    /\ k \in hashTables[t].keys => owner[k] = t /\ InInput(k)
    /\ owner[k] # t => hashTables[t].sum[k] = 0
    /\ owner[k] = t => \A s \in Threads :
         /\ k \in preMerge[s].keys
         /\ s < SourceEnd(t) \/ (s = source[t] /\ k \notin unread[t])
         => k \in hashTables[t].keys

(* Its pairs are the groups it owns of the source it reads; they dangle    *)
(* only if its own table was resized.                                      *)
PairInv(t) ==
  /\ unread[t] \subseteq preMerge[source[t]].keys
  /\ pc[t] # "mergeKeys" => unread[t] = {}
  /\ \A p \in mergePairs[t] : owner[p.key] = t /\ p.key \in preMerge[source[t]].keys
  /\ hashTables[t].gen = 0 => \A p \in mergePairs[t] : p.gen = 0
  /\ pc[t] \in {"mergeKeys", "mergeSums"} =>
       \A k \in preMerge[source[t]].keys \ unread[t] :
         owner[k] = t => \E p \in mergePairs[t] : p.key = k

(* As long as its table was not resized its counts are those of the source *)
(* tables it has merged.                                                   *)
MergedSums(t, k) ==
  SumFunction([s \in Threads |-> IF s < SourceEnd(t) THEN preMerge[s].sum[k] ELSE 0])
SumInv(t) ==
  hashTables[t].gen = 0 =>
    \A k \in Keys : owner[k] = t => hashTables[t].sum[k] = MergedSums(t, k)

MergeLocal(t) == OwnInv(t) /\ PairInv(t) /\ SumInv(t)

MergeInv ==
  preMerge # << >> => HoldInput(preMerge) /\ \A t \in Threads : MergeLocal(t)

(* A pipeline that is done has counted the whole relation.                 *)
LEMMA AllCounted ==
  ASSUME BaseInv, ScanInv, preMerge = << >>, \A t \in Threads : pc[t] \in {"done", "read"}
  PROVE  HoldInput(hashTables)
<1> DEFINE n == Len(input)
<1>1. /\ \A t \in Threads : GroupInv(t) /\ PickedInv(t)
      /\ hashTables \in [Threads -> Tables] /\ RowsCountedOnce /\ ShapeInv
  BY DEF BaseInv, TablesInv, ScanInv, IInv
<1>2. Scanned = n
  <2>1. startIdx >= n /\ startIdx \in Nat /\ n \in Nat
    BY <1>1, ThreadsFinite, ScannedType DEF PickedInv, ShapeInv
  <2>2. Scanned = IF startIdx < n THEN startIdx ELSE n
    BY <1>1, ScannedType
  <2> HIDE DEF n
  <2> QED BY <2>1, <2>2
<1> SUFFICES ASSUME NEW k \in Keys
             PROVE  /\ InInput(k) <=> \E s \in Threads : k \in hashTables[s].keys
                    /\ \A s \in Threads : k \notin hashTables[s].keys => hashTables[s].sum[k] = 0
                    /\ RowsOf(k, 0, n) = SumFunction([s \in Threads |-> hashTables[s].sum[k]])
  BY DEF HoldInput
<1> DEFINE f == [s \in Threads |-> hashTables[s].sum[k]]
<1>3. \A s \in Threads : hashTables[s].sum[k] \in Nat
  BY <1>1 DEF Tables
<1>4. RowsOf(k, 0, n) = SumFunction(f)
  <2>1. \A s \in Threads : hashTables[s].sum[k] + Outstanding(s, k) = f[s]
    <3> SUFFICES ASSUME NEW s \in Threads
                 PROVE  hashTables[s].sum[k] + Outstanding(s, k) = hashTables[s].sum[k]
      OBVIOUS
    <3>1. pc[s] \in {"done", "read"}
      OBVIOUS
    <3>2. Outstanding(s, k) = 0
      BY <3>1 DEF Outstanding
    <3> QED BY <1>3, <3>2
  <2>2. [s \in Threads |-> hashTables[s].sum[k] + Outstanding(s, k)] = f
    BY <2>1
  <2>3. RowsOf(k, 0, Scanned) = SumFunction([s \in Threads |-> hashTables[s].sum[k] + Outstanding(s, k)])
    BY <1>1 DEF RowsCountedOnce, Scanned
  <2> QED BY <1>2, <2>2, <2>3
<1>5. f \in [Threads -> Int]
  BY <1>3
<1>6. \A s \in Threads : k \notin hashTables[s].keys => hashTables[s].sum[k] = 0
  BY <1>1 DEF GroupInv
<1>7. ASSUME InInput(k) PROVE \E s \in Threads : k \in hashTables[s].keys
  <2> SUFFICES ASSUME \A s \in Threads : k \notin hashTables[s].keys PROVE FALSE
    OBVIOUS
  <2>1. \A s \in Threads : f[s] = 0
    BY <1>6
  <2> HIDE DEF f
  <2>2. SumFunction(f) = 0
    BY <1>5, <2>1, SumZero, ThreadsFinite
  <2> DEFINE S == {i \in 0 + 1 .. n : input[i] = k}
  <2>3. input \in Seq(Keys) /\ n \in Nat
    BY <1>1 DEF ShapeInv
  <2>4. S # {}
    BY <1>7, <2>3 DEF InInput
  <2>5. IsFiniteSet(S)
    <3>1. \A a, b \in Int : IsFiniteSet(a .. b)
      BY FS_Interval
    <3>2. IsFiniteSet(0 + 1 .. n)
      BY <2>3, <3>1
    <3> QED BY <3>2, FS_Subset
  <2> HIDE DEF S
  <2>6. Cardinality(S) # 0
    BY <2>4, <2>5, FS_EmptySet
  <2> QED BY <1>4, <2>2, <2>6 DEF RowsOf, S
<1>8. (\E s \in Threads : k \in hashTables[s].keys) => InInput(k)
  BY <1>1 DEF GroupInv
<1> QED BY <1>4, <1>6, <1>7, <1>8

(* No source table is merged yet.                                          *)
LEMMA PrepareMergeMerge ==
  ASSUME BaseInv, ScanInv, PrepareMerge
  PROVE  MergeInv'
<1>1. /\ AllAt("done") /\ preMerge' = hashTables
      /\ source' = [t \in Threads |-> 0]
      /\ unread' = [t \in Threads |-> hashTables[0].keys]
      /\ pc' = [t \in Threads |-> "mergeKeys"]
      /\ UNCHANGED <<input, owner, mergePairs>>
  BY DEF PrepareMerge, inputVars
<1>2. PICK new \in Tables :
        /\ hashTables' = [t \in Threads |-> new]
        /\ new.gen = 0 /\ new.keys = {} /\ \A k \in Keys : new.sum[k] = 0
  BY MergeStarts
<1>3. preMerge = << >>
  BY <1>1, ThreadsFinite DEF BaseInv, TablesInv, PhaseInv, AllAt, MergePcs
<1>4. HoldInput(preMerge)'
  <2>1. HoldInput(hashTables)
    BY <1>1, <1>3, AllCounted DEF AllAt
  <2> QED BY <1>1, <2>1 DEF HoldInput, InInput, RowsOf
<1>5. ASSUME NEW t \in Threads PROVE MergeLocal(t)'
  <2>1. mergePairs'[t] = {}
    BY <1>1 DEF BaseInv, IInv, LocalInv, FlagInv, AllAt
  <2>2. /\ hashTables'[t].keys = {} /\ \A k \in Keys : hashTables'[t].sum[k] = 0
        /\ source'[t] = 0 /\ pc'[t] = "mergeKeys" /\ unread'[t] = preMerge'[0].keys
        /\ SourceEnd(t)' = 0
    BY <1>1, <1>2 DEF SourceEnd
  <2>3. \A s \in Threads : ~(s < 0)
    BY ThreadsFinite
  <2>4. OwnInv(t)'
    BY <2>2, <2>3 DEF OwnInv
  <2>5. PairInv(t)'
    BY <2>1, <2>2 DEF PairInv
  <2>6. ASSUME NEW k \in Keys PROVE MergedSums(t, k)' = 0
    <3> DEFINE f == [s \in Threads |-> 0]
    <3>1. [s \in Threads |-> IF s < 0 THEN preMerge'[s].sum[k] ELSE 0] = f
      BY <2>3
    <3>2. MergedSums(t, k)' = SumFunction([s \in Threads |-> IF s < 0 THEN preMerge'[s].sum[k] ELSE 0])
      BY <2>2 DEF MergedSums
    <3>3. f \in [Threads -> Int] /\ \A s \in Threads : f[s] = 0
      OBVIOUS
    <3> HIDE DEF f
    <3>4. SumFunction(f) = 0
      BY <3>3, SumZero, ThreadsFinite
    <3> QED BY <3>1, <3>2, <3>4
  <2>7. SumInv(t)'
    BY <2>2, <2>6 DEF SumInv
  <2> QED BY <2>4, <2>5, <2>7 DEF MergeLocal
<1> QED BY <1>4, <1>5 DEF MergeInv

(* What holds of a worker that merges, before its step.                    *)
LEMMA BeforeMerge ==
  ASSUME BaseInv, MergeInv, preMerge # << >>, NEW t \in Threads
  PROVE  /\ HoldInput(preMerge) /\ OwnInv(t) /\ PairInv(t) /\ SumInv(t)
         /\ preMerge \in [Threads -> Tables] /\ hashTables \in [Threads -> Tables]
         /\ ShapeInv /\ source[t] \in Threads /\ unread[t] \subseteq Keys
         /\ mergePairs[t] \subseteq Pointers /\ pc[t] \in WorkerPcs /\ pc \in [Threads -> WorkerPcs]
         /\ hashTables[t].gen \in Nat
<1>1. preMerge \in [Threads -> Tables] /\ hashTables \in [Threads -> Tables] /\ ShapeInv
  BY DEF BaseInv, TablesInv, PhaseInv, IInv
<1>2. hashTables[t].gen \in Nat
  BY <1>1 DEF Tables
<1> QED BY <1>1, <1>2 DEF MergeInv, MergeLocal, ShapeInv

(* The iterator passes a group; an owned one is looked up and paired.      *)
LEMMA MergeKeyMerge ==
  ASSUME BaseInv, MergeInv, preMerge # << >>, NEW t \in Threads, MergeKey(t)
  PROVE  MergeLocal(t)'
<1>1. /\ HoldInput(preMerge) /\ OwnInv(t) /\ PairInv(t) /\ SumInv(t)
      /\ preMerge \in [Threads -> Tables] /\ hashTables \in [Threads -> Tables]
      /\ ShapeInv /\ source[t] \in Threads /\ unread[t] \subseteq Keys
      /\ mergePairs[t] \subseteq Pointers /\ hashTables[t].gen \in Nat
  BY BeforeMerge
<1>2. pc[t] = "mergeKeys" /\ UNCHANGED <<input, owner, pc, preMerge, source>>
  BY DEF MergeKey, inputVars
<1>3. PICK k \in unread[t] :
        /\ unread' = [unread EXCEPT ![t] = @ \ {k}]
        /\ IF owner[k] # t
             THEN UNCHANGED <<restartFlag, hashTables, mergePairs>>
             ELSE /\ restartFlag' = [restartFlag EXCEPT ![t] = @ \/ Full(hashTables[t])]
                  /\ hashTables' = [hashTables EXCEPT ![t] = LookupOrInsert(@, k)]
                  /\ mergePairs' = [mergePairs EXCEPT
                                      ![t] = @ \cup {PointerTo(hashTables'[t], k)}]
  BY DEF MergeKey
<1>4. k \in Keys /\ unread'[t] = unread[t] \ {k} /\ k \in preMerge[source[t]].keys /\ InInput(k)
  <2>1. k \in Keys /\ unread'[t] = unread[t] \ {k}
    BY <1>1, <1>3 DEF ShapeInv
  <2>2. k \in preMerge[source[t]].keys
    BY <1>1, <1>3 DEF PairInv
  <2> QED BY <1>1, <2>1, <2>2 DEF HoldInput
<1>5. SourceEnd(t)' = SourceEnd(t)
  BY <1>2 DEF SourceEnd
<1>6. \A g \in Keys : MergedSums(t, g)' = MergedSums(t, g)
  BY <1>2, <1>5 DEF MergedSums
<1>7. CASE owner[k] # t
  <2>1. hashTables' = hashTables /\ mergePairs' = mergePairs
    BY <1>3, <1>7
  <2>2. OwnInv(t)'
    BY <1>1, <1>2, <1>4, <1>5, <1>7, <2>1 DEF OwnInv, InInput
  <2>3. PairInv(t)'
    BY <1>1, <1>2, <1>4, <1>7, <2>1 DEF PairInv
  <2>4. SumInv(t)'
    BY <1>1, <1>2, <1>6, <2>1 DEF SumInv
  <2> QED BY <2>2, <2>3, <2>4 DEF MergeLocal
<1>8. CASE owner[k] = t
  <2> DEFINE found == LookupOrInsert(hashTables[t], k)
             p == PointerTo(found, k)
  <2>1. /\ found.sum = hashTables[t].sum /\ found.keys = hashTables[t].keys \cup {k}
        /\ found.gen = 0 => hashTables[t].gen = 0
        /\ p.key = k /\ p.gen = found.gen
    <3>1. /\ found.sum = hashTables[t].sum /\ found.keys = hashTables[t].keys \cup {k}
          /\ found.gen = IF Full(hashTables[t]) THEN hashTables[t].gen + 1 ELSE hashTables[t].gen
      BY <1>1, <1>4, LookupKeepsTable
    <3> HIDE DEF found
    <3>2. found.gen = 0 => hashTables[t].gen = 0
      BY <1>1, <3>1
    <3> QED BY <3>1, <3>2 DEF PointerTo
  <2>2. hashTables'[t] = found /\ mergePairs'[t] = mergePairs[t] \cup {p}
    <3>1. hashTables'[t] = found
      BY <1>1, <1>3, <1>8
    <3> QED BY <1>1, <1>3, <1>8, <3>1 DEF ShapeInv
  <2> HIDE DEF found, p
  <2>3. OwnInv(t)'
    BY <1>1, <1>2, <1>4, <1>5, <1>8, <2>1, <2>2 DEF OwnInv, InInput
  <2>4. PairInv(t)'
    <3>1. unread'[t] \subseteq preMerge'[source'[t]].keys /\ pc'[t] = "mergeKeys"
      BY <1>1, <1>2, <1>4 DEF PairInv
    <3>2. \A q \in mergePairs'[t] : owner'[q.key] = t /\ q.key \in preMerge'[source'[t]].keys
      BY <1>1, <1>2, <1>4, <1>8, <2>1, <2>2 DEF PairInv
    <3>3. hashTables'[t].gen = 0 => \A q \in mergePairs'[t] : q.gen = 0
      BY <1>1, <2>1, <2>2 DEF PairInv
    <3>4. ASSUME NEW g \in preMerge'[source'[t]].keys \ unread'[t], owner'[g] = t
          PROVE  \E q \in mergePairs'[t] : q.key = g
      <4>1. CASE g = k
        BY <2>1, <2>2, <4>1
      <4>2. CASE g # k
        <5>1. g \in preMerge[source[t]].keys \ unread[t] /\ owner[g] = t
          BY <1>2, <1>4, <3>4, <4>2
        <5> QED BY <1>1, <1>2, <2>2, <5>1 DEF PairInv
      <4> QED BY <4>1, <4>2
    <3> QED BY <3>1, <3>2, <3>3, <3>4 DEF PairInv
  <2>5. SumInv(t)'
    BY <1>1, <1>2, <1>6, <2>1, <2>2 DEF SumInv
  <2> QED BY <2>3, <2>4, <2>5 DEF MergeLocal
<1> QED BY <1>7, <1>8

(* The end of a thread's key phase leaves it holding a pair for every entry
   of its partition. *)
LEMMA FinishKeysMerge ==
  ASSUME BaseInv, MergeInv, preMerge # << >>, NEW t \in Threads, FinishKeys(t)
  PROVE  MergeLocal(t)'
<1>1. OwnInv(t) /\ PairInv(t) /\ SumInv(t) /\ pc \in [Threads -> WorkerPcs]
  BY BeforeMerge
<1>2. /\ pc[t] = "mergeKeys" /\ unread[t] = {}
      /\ UNCHANGED <<input, owner, hashTables, preMerge, source, unread, mergePairs>>
  BY DEF FinishKeys, inputVars, mergeVars
<1>3. pc'[t] = "mergeSums"
  BY <1>1 DEF FinishKeys, Go
<1>4. SourceEnd(t)' = SourceEnd(t)
  BY <1>2, <1>3 DEF SourceEnd
<1>5. \A k \in Keys : MergedSums(t, k)' = MergedSums(t, k)
  BY <1>2, <1>4 DEF MergedSums
<1>6. OwnInv(t)'
  BY <1>1, <1>2, <1>4 DEF OwnInv, InInput
<1>7. PairInv(t)'
  BY <1>1, <1>2, <1>3 DEF PairInv
<1>8. SumInv(t)'
  BY <1>1, <1>2, <1>5 DEF SumInv
<1> QED BY <1>6, <1>7, <1>8 DEF MergeLocal

(* The counts of the source are added for the groups that are paired: all  *)
(* that the worker owns, if no pair dangles.                               *)
LEMMA MergeSumsMerge ==
  ASSUME BaseInv, MergeInv, preMerge # << >>, NEW t \in Threads, MergeSums(t)
  PROVE  MergeLocal(t)'
<1> DEFINE counts == [k \in Keys |-> hashTables[t].sum[k] + Added(t, k)]
           updated == [hashTables[t] EXCEPT !.sum = counts]
           from == source[t]
<1>1. /\ HoldInput(preMerge) /\ OwnInv(t) /\ PairInv(t) /\ SumInv(t)
      /\ preMerge \in [Threads -> Tables] /\ hashTables \in [Threads -> Tables]
      /\ ShapeInv /\ from \in Threads /\ pc \in [Threads -> WorkerPcs]
      /\ mergePairs[t] \subseteq Pointers /\ hashTables[t].gen \in Nat
  BY BeforeMerge
<1>2. pc[t] = "mergeSums" /\ UNCHANGED <<input, owner, preMerge>>
      /\ mergePairs' = [mergePairs EXCEPT ![t] = {}]
      /\ hashTables' = [hashTables EXCEPT ![t] = updated]
  BY DEF MergeSums, inputVars, Added, Merged
<1>3. counts \in [Keys -> Nat] /\ \A k \in Keys : Added(t, k) \in Nat
  BY <1>2, MergeCounts DEF MergePcs
<1>4. \A k \in Keys : counts[k] = hashTables[t].sum[k] + Added(t, k)
  OBVIOUS
<1> HIDE DEF counts
<1>5. updated.sum = counts /\ updated.keys = hashTables[t].keys /\ updated.gen = hashTables[t].gen
  BY <1>1, <1>3, CountsKeepTable
<1> HIDE DEF updated
<1>6. /\ hashTables'[t].sum = counts /\ hashTables'[t].keys = hashTables[t].keys
      /\ hashTables'[t].gen = hashTables[t].gen /\ mergePairs'[t] = {}
  BY <1>1, <1>2, <1>5 DEF ShapeInv
<1>7. /\ SourceEnd(t) = from /\ SourceEnd(t)' = from + 1 /\ unread[t] = {}
      /\ pc'[t] \in {"mergeKeys", "merged"}
      /\ \/ /\ source'[t] = from + 1 /\ source'[t] \in Threads
            /\ unread'[t] = preMerge[source'[t]].keys /\ pc'[t] = "mergeKeys"
         \/ source'[t] = from /\ unread'[t] = {} /\ pc'[t] = "merged"
  <2>1. SourceEnd(t) = from /\ unread[t] = {}
    BY <1>1, <1>2 DEF SourceEnd, PairInv
  <2>2. from \in Nat /\ from < NumThreads
    BY <1>1, ThreadsFinite
  <2>3. CASE from + 1 < NumThreads
    <3>1. /\ source' = [source EXCEPT ![t] = from + 1]
          /\ unread' = [unread EXCEPT ![t] = preMerge[from + 1].keys]
          /\ pc' = [pc EXCEPT ![t] = "mergeKeys"]
      BY <2>3 DEF MergeSums, Go
    <3>2. from + 1 \in Threads
      BY <2>2, <2>3, AggregationAssumption DEF Threads
    <3>3. source'[t] = from + 1 /\ unread'[t] = preMerge[from + 1].keys /\ pc'[t] = "mergeKeys"
      BY <1>1, <3>1 DEF ShapeInv
    <3> QED BY <2>1, <3>2, <3>3 DEF SourceEnd
  <2>4. CASE ~(from + 1 < NumThreads)
    <3>1. pc' = [pc EXCEPT ![t] = "merged"] /\ source' = source /\ unread' = unread
      BY <2>4 DEF MergeSums, Go
    <3>2. pc'[t] = "merged" /\ SourceEnd(t)' = NumThreads
      BY <1>1, <3>1 DEF SourceEnd
    <3>3. NumThreads = from + 1
      BY <2>2, <2>4, AggregationAssumption
    <3> QED BY <2>1, <3>1, <3>2, <3>3
  <2> QED BY <2>3, <2>4
<1>8. ASSUME NEW k \in Keys, owner[k] # t PROVE Added(t, k) = 0
  <2>1. k \notin Merged(t)
    BY <1>1, <1>8 DEF PairInv, Merged
  <2> QED BY <2>1 DEF Added
<1>9. ASSUME NEW k \in Keys, owner[k] = t, hashTables[t].gen = 0
      PROVE  Added(t, k) = preMerge[from].sum[k]
  <2>1. CASE k \in preMerge[from].keys
    <3>1. PICK p \in mergePairs[t] : p.key = k
      BY <1>1, <1>2, <1>7, <1>9, <2>1 DEF PairInv
    <3>2. Live(hashTables[t], p)
      BY <1>1, <1>9 DEF PairInv, Live
    <3> QED BY <3>1, <3>2 DEF Added, Merged
  <2>2. CASE k \notin preMerge[from].keys
    <3>1. k \notin Merged(t)
      BY <1>1, <2>2 DEF PairInv, Merged
    <3>2. preMerge[from].sum[k] = 0
      BY <1>1, <2>2 DEF HoldInput
    <3> QED BY <3>1, <3>2 DEF Added
  <2> QED BY <2>1, <2>2
<1>10. OwnInv(t)'
  <2>1. ASSUME NEW k \in Keys, k \in hashTables'[t].keys PROVE (owner[k] = t /\ InInput(k))'
    BY <1>1, <1>2, <1>6, <2>1 DEF OwnInv, InInput
  <2>2. ASSUME NEW k \in Keys, owner'[k] # t PROVE hashTables'[t].sum[k] = 0
    <3>1. hashTables[t].sum[k] = 0 /\ Added(t, k) = 0
      BY <1>1, <1>2, <1>8, <2>2 DEF OwnInv
    <3> QED BY <1>4, <1>6, <3>1
  <2>3. ASSUME NEW k \in Keys, owner'[k] = t, NEW s \in Threads, k \in preMerge'[s].keys,
               s < SourceEnd(t)' \/ (s = source'[t] /\ k \notin unread'[t])
        PROVE  k \in hashTables'[t].keys
    <3>1. s < from \/ s = from
      <4>1. s \in Nat /\ from \in Nat
        BY <1>1, ThreadsFinite
      <4>2. s < from + 1 \/ s = from
        BY <1>2, <1>7, <2>3
      <4> HIDE DEF from
      <4> QED BY <4>1, <4>2
    <3>2. owner[k] = t /\ k \in preMerge[s].keys
      BY <1>2, <2>3
    <3>3. s < SourceEnd(t) \/ (s = source[t] /\ k \notin unread[t])
      BY <1>7, <3>1
    <3>4. k \in hashTables[t].keys
      BY <1>1, <3>2, <3>3 DEF OwnInv
    <3> QED BY <1>6, <3>4
  <2> QED BY <2>1, <2>2, <2>3 DEF OwnInv
<1>11. PairInv(t)'
  BY <1>1, <1>2, <1>6, <1>7 DEF PairInv
<1>12. SumInv(t)'
  <2> SUFFICES ASSUME hashTables'[t].gen = 0, NEW k \in Keys, owner'[k] = t
               PROVE  hashTables'[t].sum[k] = MergedSums(t, k)'
    BY DEF SumInv
  <2> DEFINE f == [s \in Threads |-> IF s < from THEN preMerge[s].sum[k] ELSE 0]
             g == [s \in Threads |-> IF s < from + 1 THEN preMerge[s].sum[k] ELSE 0]
             old == hashTables[t].sum[k]
             new == preMerge[from].sum[k]
  <2>1. \A s \in Threads : preMerge[s].sum[k] \in Nat
    BY <1>1 DEF Tables
  <2>2. f \in [Threads -> Int] /\ g \in [Threads -> Int]
    BY <2>1
  <2>3. f[from] = 0 /\ g[from] = new /\ \A s \in Threads \ {from} : f[s] = g[s]
    <3>1. from \in Nat /\ \A s \in Threads : s \in Nat
      BY <1>1, ThreadsFinite
    <3> HIDE DEF from
    <3>2. ~(from < from) /\ from < from + 1
          /\ \A s \in Threads \ {from} : s < from + 1 <=> s < from
      BY <3>1
    <3>3. from \in Threads
      BY <1>1
    <3> QED BY <3>2, <3>3
  <2>4. old = SumFunction(f) /\ old \in Nat
    <3>1. hashTables[t].sum[k] = MergedSums(t, k)
      BY <1>1, <1>2, <1>6 DEF SumInv
    <3>2. MergedSums(t, k) = SumFunction(f)
      BY <1>7 DEF MergedSums
    <3>3. old \in Nat
      BY <1>1 DEF Tables
    <3> QED BY <3>1, <3>2, <3>3
  <2>5. MergedSums(t, k)' = SumFunction(g)
    BY <1>2, <1>7 DEF MergedSums
  <2>6. hashTables'[t].sum[k] = old + new
    <3>1. owner[k] = t /\ hashTables[t].gen = 0
      BY <1>2, <1>6
    <3>2. Added(t, k) = new
      BY <1>9, <3>1
    <3> QED BY <1>4, <1>6, <3>2
  <2>7. new \in Nat /\ from \in Threads
    BY <1>1, <2>1
  <2> HIDE DEF f, g, old, new, from
  <2>8. SumFunction(g) = SumFunction(f) - f[from] + g[from] /\ SumFunction(f) \in Int
    BY <2>2, <2>3, <2>7, SumChanged, ThreadsFinite
  <2>9. SumFunction(g) = old + new
    BY <2>3, <2>4, <2>7, <2>8
  <2> QED BY <2>5, <2>6, <2>9
<1> QED BY <1>10, <1>11, <1>12 DEF MergeLocal

(* Every step of the merge keeps what each merge table holds of the worker
   tables. *)
LEMMA NextMerge ==
  ASSUME BaseInv, ScanInv, MergeInv, [Next]_vars
  PROVE  MergeInv'
<1>1. PhaseInv
  BY DEF BaseInv, TablesInv
<1>2. ASSUME NEW t \in Threads, WorkerStep(t) PROVE MergeInv'
  <2>1. preMerge' = preMerge /\ input' = input /\ owner' = owner
    BY <1>2, WorkerPhase DEF BaseInv
  <2> SUFFICES ASSUME preMerge # << >> PROVE MergeInv'
    BY <2>1 DEF MergeInv
  <2>2. pc[t] \in MergePcs \cup {"read"}
    BY <1>1 DEF PhaseInv, AllAt
  <2>3. MergeKey(t) \/ FinishKeys(t) \/ MergeSums(t)
    BY <1>2, <2>2 DEF WorkerStep, PickMorsel, CompiledRow, FinishCompiled, LookupRow,
       FinishLookups, Update, CleanUp, MergePcs
  <2>4. MergeLocal(t)'
    BY <2>3, MergeKeyMerge, FinishKeysMerge, MergeSumsMerge
  <2>5. ASSUME NEW u \in Threads, u # t PROVE MergeLocal(u)'
    <3>1. /\ pc'[u] = pc[u] /\ hashTables'[u] = hashTables[u] /\ source'[u] = source[u]
          /\ unread'[u] = unread[u] /\ mergePairs'[u] = mergePairs[u]
      BY <1>2, <2>5, WorkerLocal
    <3>2. OwnInv(u) /\ PairInv(u) /\ SumInv(u)
      BY BeforeMerge
    <3>3. SourceEnd(u)' = SourceEnd(u)
      BY <3>1 DEF SourceEnd
    <3>4. OwnInv(u)'
      BY <2>1, <3>1, <3>2, <3>3 DEF OwnInv, InInput
    <3>5. PairInv(u)'
      BY <2>1, <3>1, <3>2 DEF PairInv
    <3>6. \A k \in Keys : MergedSums(u, k)' = MergedSums(u, k)
      BY <2>1, <3>3 DEF MergedSums
    <3>7. SumInv(u)'
      BY <2>1, <3>1, <3>2, <3>6 DEF SumInv
    <3> QED BY <3>4, <3>5, <3>7 DEF MergeLocal
  <2>6. HoldInput(preMerge)'
    BY <2>1 DEF MergeInv, HoldInput, InInput, RowsOf
  <2> QED BY <2>4, <2>5, <2>6 DEF MergeInv
<1>3. CASE SkipMerge
  <2>1. preMerge' = preMerge /\ AllAt("done")
    BY <1>3 DEF SkipMerge, mergeVars
  <2>2. preMerge = << >>
    BY <1>1, <2>1, ThreadsFinite DEF PhaseInv, AllAt, MergePcs
  <2> QED BY <2>1, <2>2 DEF MergeInv
<1>4. CASE PrepareMerge
  BY <1>4, PrepareMergeMerge
<1>5. CASE FinishMerge
  <2>1. /\ AllAt("merged") /\ pc' = [t \in Threads |-> "read"]
        /\ UNCHANGED <<input, owner, hashTables, preMerge, source, unread, mergePairs>>
    BY <1>5 DEF FinishMerge, inputVars, mergeVars
  <2> SUFFICES ASSUME preMerge # << >> PROVE MergeInv'
    BY <2>1 DEF MergeInv
  <2>2. ASSUME NEW u \in Threads PROVE MergeLocal(u)'
    <3>1. OwnInv(u) /\ PairInv(u) /\ SumInv(u)
      BY BeforeMerge
    <3>2. pc[u] = "merged" /\ pc'[u] = "read"
      BY <2>1 DEF AllAt
    <3>3. SourceEnd(u)' = SourceEnd(u)
      BY <3>2 DEF SourceEnd
    <3>4. OwnInv(u)'
      BY <2>1, <3>1, <3>3 DEF OwnInv, InInput
    <3>5. PairInv(u)'
      BY <2>1, <3>1, <3>2 DEF PairInv
    <3>6. \A k \in Keys : MergedSums(u, k)' = MergedSums(u, k)
      BY <2>1, <3>3 DEF MergedSums
    <3>7. SumInv(u)'
      BY <2>1, <3>1, <3>6 DEF SumInv
    <3> QED BY <3>4, <3>5, <3>7 DEF MergeLocal
  <2>3. HoldInput(preMerge)'
    BY <2>1 DEF MergeInv, HoldInput, InInput, RowsOf
  <2> QED BY <2>2, <2>3 DEF MergeInv
<1>6. CASE UNCHANGED vars
  <2>1. UNCHANGED <<input, owner, pc, hashTables, preMerge, source, unread, mergePairs>>
    BY <1>6 DEF vars, inputVars, mergeVars
  <2> SUFFICES ASSUME preMerge # << >> PROVE MergeInv'
    BY <2>1 DEF MergeInv
  <2>2. ASSUME NEW u \in Threads PROVE MergeLocal(u)'
    <3>1. OwnInv(u) /\ PairInv(u) /\ SumInv(u)
      BY BeforeMerge
    <3>2. SourceEnd(u)' = SourceEnd(u)
      BY <2>1 DEF SourceEnd
    <3>3. OwnInv(u)'
      BY <2>1, <3>1, <3>2 DEF OwnInv, InInput
    <3>4. PairInv(u)'
      BY <2>1, <3>1 DEF PairInv
    <3>5. \A k \in Keys : MergedSums(u, k)' = MergedSums(u, k)
      BY <2>1, <3>2 DEF MergedSums
    <3>6. SumInv(u)'
      BY <2>1, <3>1, <3>5 DEF SumInv
    <3> QED BY <3>3, <3>4, <3>6 DEF MergeLocal
  <2>3. HoldInput(preMerge)'
    BY <2>1 DEF MergeInv, HoldInput, InInput, RowsOf
  <2> QED BY <2>2, <2>3 DEF MergeInv
<1> QED BY <1>2, <1>3, <1>4, <1>5, <1>6 DEF Next, DriverStep

(* The whole invariant: types, the rows of the pipeline, and the merge.    *)
THEOREM MergeInvariantCorrect == Spec => [](BaseInv /\ ScanInv /\ MergeInv)
<1>1. Init => MergeInv
  BY DEF Init, MergeInv
<1>2. BaseInv /\ ScanInv /\ MergeInv /\ [Next]_vars => MergeInv'
  BY NextMerge
<1> QED BY <1>1, <1>2, BaseInvCorrect, ScanInvCorrect, PTL DEF Spec

(* When the reading pipeline starts every group of the input is in one     *)
(* table, that of its owner, and no other group is in any.                 *)
THEOREM GroupsUniqueCorrect == Spec => []GroupsUnique
<1>1. BaseInv /\ ScanInv /\ MergeInv => GroupsUnique
  <2> SUFFICES ASSUME BaseInv, ScanInv, MergeInv, AllAt("read"), NEW k \in Keys
               PROVE  Cardinality({t \in Threads : k \in hashTables[t].keys})
                        = IF InInput(k) THEN 1 ELSE 0
    BY DEF GroupsUnique, InInput
  <2> DEFINE S == {t \in Threads : k \in hashTables[t].keys}
  <2>1. PhaseInv /\ owner \in [Keys -> Threads]
    BY DEF BaseInv, TablesInv, IInv, ShapeInv
  <2>2. \A t \in Threads : pc[t] = "read"
    BY DEF AllAt
  <2>3. \E t \in Threads : S = IF InInput(k) THEN {t} ELSE {}
    <3>1. CASE preMerge = << >>
      <4>1. NumThreads = 1
        <5>1. preMerge \notin [Threads -> Tables]
          BY <3>1, ThreadsFinite
        <5> QED BY <2>1, <2>2, <5>1, ThreadsFinite DEF PhaseInv, ScanPcs
      <4>2. Threads = {0}
        BY <4>1 DEF Threads
      <4>3. HoldInput(hashTables)
        BY <2>2, <3>1, AllCounted
      <4> QED BY <4>2, <4>3 DEF HoldInput
    <3>2. CASE preMerge # << >>
      <4>1. HoldInput(preMerge) /\ \A t \in Threads : OwnInv(t)
        BY <3>2 DEF MergeInv, MergeLocal
      <4>2. owner[k] \in Threads
        BY <2>1
      <4>3. S \subseteq {owner[k]} /\ (S # {} => InInput(k))
        BY <4>1 DEF OwnInv
      <4>4. ASSUME InInput(k) PROVE owner[k] \in S
        <5>1. PICK s \in Threads : k \in preMerge[s].keys
          BY <4>1, <4>4 DEF HoldInput
        <5>2. s < SourceEnd(owner[k])
          BY <2>2, <4>2, <5>1, ThreadsFinite DEF SourceEnd
        <5> QED BY <4>1, <4>2, <5>1, <5>2 DEF OwnInv
      <4> HIDE DEF S
      <4> QED BY <4>2, <4>3, <4>4
    <3> QED BY <3>1, <3>2
  <2> HIDE DEF S
  <2>4. PICK t \in Threads : S = IF InInput(k) THEN {t} ELSE {}
    BY <2>3
  <2>5. Cardinality({}) = 0 /\ Cardinality({t}) = 1
    BY FS_EmptySet, FS_Singleton
  <2>6. Cardinality(S) = IF InInput(k) THEN 1 ELSE 0
    BY <2>4, <2>5
  <2> QED BY <2>6 DEF S
<1> QED BY <1>1, MergeInvariantCorrect, PTL

(* The aggregates the reading pipeline sees count every row of their group *)
(* unless the merge had to resize a table.                                 *)
THEOREM MergeExactIfSizedCorrect == Spec => []MergeExactIfSized
<1>1. BaseInv /\ ScanInv /\ MergeInv => MergeExactIfSized
  <2> SUFFICES ASSUME BaseInv, ScanInv, MergeInv, AllAt("read"), NEW k \in Keys,
                      preMerge = << >> \/ \A t \in Threads : hashTables[t].gen = 0
               PROVE  Result(k) = RowsOf(k, 0, Len(input))
    BY DEF MergeExactIfSized, MergeExact
  <2>1. \A t \in Threads : pc[t] = "read"
    BY DEF AllAt
  <2>2. CASE preMerge = << >>
    <3>1. HoldInput(hashTables)
      BY <2>1, <2>2, AllCounted
    <3> QED BY <3>1 DEF HoldInput, Result
  <2>3. CASE preMerge # << >>
    <3> DEFINE f == [t \in Threads |-> hashTables[t].sum[k]]
    <3>1. /\ HoldInput(preMerge) /\ hashTables \in [Threads -> Tables]
          /\ owner \in [Keys -> Threads] /\ \A t \in Threads : OwnInv(t) /\ SumInv(t)
      BY <2>3 DEF MergeInv, MergeLocal, BaseInv, TablesInv, IInv, ShapeInv
    <3>2. \A t \in Threads : hashTables[t].gen = 0
      BY <2>3
    <3>3. owner[k] \in Threads
      BY <3>1
    <3>4. f \in [Threads -> Int] /\ \A t \in Threads \ {owner[k]} : f[t] = 0
      <4>1. \A t \in Threads : hashTables[t].sum[k] \in Nat
        BY <3>1 DEF Tables
      <4> QED BY <3>1, <4>1 DEF OwnInv
    <3>5. f[owner[k]] = RowsOf(k, 0, Len(input))
      <4>1. f[owner[k]] = MergedSums(owner[k], k)
        BY <3>1, <3>2, <3>3 DEF SumInv
      <4>2. SourceEnd(owner[k]) = NumThreads
        BY <2>1, <3>3 DEF SourceEnd
      <4>3. MergedSums(owner[k], k) = SumFunction([s \in Threads |-> preMerge[s].sum[k]])
        <5>1. [s \in Threads |-> IF s < NumThreads THEN preMerge[s].sum[k] ELSE 0]
                = [s \in Threads |-> preMerge[s].sum[k]]
          BY ThreadsFinite
        <5> QED BY <4>2, <5>1 DEF MergedSums
      <4> QED BY <3>1, <4>1, <4>3 DEF HoldInput
    <3> HIDE DEF f
    <3>6. SumFunction(f) = f[owner[k]]
      BY <3>3, <3>4, SumSingle, ThreadsFinite
    <3> QED BY <3>5, <3>6 DEF f, Result
  <2> QED BY <2>2, <2>3
<1> QED BY <1>1, MergeInvariantCorrect, PTL

=============================================================================
