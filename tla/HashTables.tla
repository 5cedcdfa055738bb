------------------------------ MODULE HashTables ------------------------------
(***************************************************************************)
(* The hash tables of a thread, one of each kind:                          *)
(*   sk  HashTableSimpleKey: open addressing with linear probing. A slot   *)
(*       has a tag, whose top bit says that it is filled and whose other   *)
(*       bits are a fingerprint of the hash, and a row: the key and a      *)
(*       payload the callers update through the pointer they get. A table  *)
(*       whose slots are half filled is copied to one of twice the size    *)
(*       before the next insert, slot by slot.                             *)
(*   ck  HashTableComplexKey: the same, but a key is a pointer to a string.*)
(*       What is compared and hashed is the string, what is stored is the  *)
(*       first pointer to it that was inserted.                            *)
(*   dl  HashTableDirectLookup: the key is the index of its slot.          *)
(*   nk  a HashTableSimpleKey whose key has no bytes: one row, in slot 0.  *)
(* When no more is inserted, the source of the next pipeline               *)
(* (HashTableSource) reads the filled slots in morsels.                    *)
(***************************************************************************)
EXTENDS Integers, FiniteSets, FiniteSetsExt

CONSTANTS
  KeysOf,          (* per kind, the keys that are looked up or inserted    *)
  ZeroKey,         (* the key whose bytes are zero, as in fresh memory; as *)
                   (* a pointer, the null pointer                          *)
  Mask,            (* fingerprint_inversion_mask, all ones                 *)
  Hashes,          (* hash values: their low bits and their fingerprint    *)
  StartSlots,      (* slots of a new table                                 *)
  DirectSlots,     (* slots of a direct lookup table: 2^16                 *)
  ChunkSize,       (* rows of a full morsel                                *)
  MaxSlots,        (* bound of the model: no table has more slots          *)
  MaxCount,        (* bound of the model: updates of a group               *)
  DisableAbsent    (* lookupDisable is called for keys not in the table    *)

Kinds == DOMAIN KeysOf
Keys == {ZeroKey} \cup UNION {KeysOf[kd] : kd \in Kinds}

ASSUME TableAssumption ==
  /\ Kinds \subseteq {"sk", "ck", "dl", "nk"} /\ IsFiniteSet(Keys)
  /\ "ck" \in Kinds => ZeroKey \notin KeysOf["ck"]
  /\ "nk" \in Kinds => KeysOf["nk"] = {ZeroKey}
  /\ DirectSlots \in Nat \ {0}
  /\ Mask \in Nat /\ Mask % 2 = 1
  /\ Hashes \subseteq [low : Nat, print : 0 .. Mask]
  /\ StartSlots \in Nat /\ StartSlots >= 2 /\ StartSlots % 2 = 0
  /\ ChunkSize \in Nat \ {0}
  /\ MaxSlots \in Nat
  /\ MaxCount \in Nat
  /\ DisableAbsent \in BOOLEAN

VARIABLES
  kind,            (* which table it is                                    *)
  text,            (* the bytes that a key stands for: for a pointer, those*)
                   (* of the string, named after one of the pointers to it *)
  hash,            (* XXH3_64bits of the bytes of a key, or the index      *)
  table,           (* the table's state                                    *)
  pc,              (* what the table's user is doing                       *)
  old,             (* while a table is resized: the one it replaces        *)
  idx,             (* reserveSlot: the slot of `old` to move next          *)
  op,              (* the call that waits for reserveSlot                  *)
  groups,          (* history: rows the callers put into the group of each *)
                   (* text and did not disable; 0 without a group          *)
  reader,          (* HashTableSourceState, and the cursor of the morsel   *)
  visits           (* history: how often the reader saw each slot          *)

input == <<kind, text, hash>>
vars == <<input, table, pc, old, idx, op, groups, reader, visits>>

-----------------------------------------------------------------------------
(* Tags and rows.                                                          *)

(* computeHash: a complex key is hashed through its indirection.           *)
HashOf(k) == hash[text[k]]
Zero == [fill |-> FALSE, print |-> 0]
TagOf(k) == [fill |-> TRUE, print |-> HashOf(k).print]
Disabled_OffByOne(tag) == [tag EXCEPT !.print = Mask + 1 - @]
Disabled(tag) == [tag EXCEPT !.print = Mask - @]

FreshRow == [tag |-> Zero, key |-> ZeroKey, payload |-> 0]

NewTable(slots) ==
  [rows |-> [s \in 0 .. slots - 1 |-> FreshRow], inserted |-> 0, maxFill |-> slots \div 2]

Slots(t) == DOMAIN t.rows
Capacity(t) == Cardinality(Slots(t))
FilledSlots(t) == {s \in Slots(t) : t.rows[s].tag.fill}

(* Probing: the slots are visited from the home slot of the hash on, and   *)
(* from slot 0 after the last (advance).                                   *)
Home(t, k) == HashOf(k).low % Capacity(t)
ProbedBefore(home, s, u) ==
  IF home <= s THEN home <= u /\ u < s ELSE home <= u \/ u < s
FirstProbed(t, k, candidates) ==
  CHOOSE s \in candidates :
    \A u \in candidates : ~ProbedBefore(Home(t, k), s, u)

(* findSlotOrEmpty: the slot of the key, or the first one that is empty.   *)
FindSlotOrEmpty(t, k) ==
  FirstProbed(t, k, {s \in Slots(t) :
    \/ ~t.rows[s].tag.fill
    \/ t.rows[s].tag.print = HashOf(k).print /\ t.rows[s].key = k})
FindStringOrEmpty(t, k) ==
  FirstProbed(t, k, {s \in Slots(t) :
    LET row == t.rows[s]
    IN \/ ~row.tag.fill
       \/ /\ row.tag.print = HashOf(k).print
          /\ row.key # ZeroKey /\ text[row.key] = text[k]})

(* The slot that a lookup ends at, and whether it finds a row there.       *)
SlotOf(t, k) ==
  CASE kind = "sk" -> FindSlotOrEmpty(t, k)
    [] kind = "ck" -> FindStringOrEmpty(t, k)
    [] kind = "dl" -> hash[k].low
    [] kind = "nk" -> 0
Found(t, k) == t.rows[SlotOf(t, k)].tag.fill

-----------------------------------------------------------------------------
NoCall == [name |-> "none", key |-> ZeroKey]

(* Several pointers may point to the same string, or to equal ones.        *)
Strings ==
  {f \in [Keys -> Keys] : \A k \in Keys :
     IF k \in KeysOf["ck"] THEN f[k] \in KeysOf["ck"] /\ f[f[k]] = f[k] ELSE f[k] = k}
Indexes ==
  {f \in [KeysOf["dl"] -> [low : 0 .. DirectSlots - 1, print : {0}]] :
     \A k, l \in KeysOf["dl"] : f[k] = f[l] => k = l}
FirstSlots == CASE kind \in {"sk", "ck"} -> StartSlots
                [] kind = "dl" -> DirectSlots
                [] kind = "nk" -> 4

Init ==
  /\ kind \in Kinds
  /\ text \in IF kind = "ck" THEN Strings ELSE {[k \in Keys |-> k]}
  /\ hash \in IF kind = "dl" THEN Indexes ELSE [KeysOf[kind] -> Hashes]
  /\ table = NewTable(FirstSlots)
  /\ pc = "idle"
  /\ old = NewTable(0)
  /\ idx = 0
  /\ op = NoCall
  /\ groups = [k \in Keys |-> 0]
  /\ reader = [start |-> 0, end |-> 0, cursor |-> 0, size |-> 0]
  /\ visits = [s \in {} |-> 0]

(* What a call does once there is a slot for it. Memory of a slot that was *)
(* never filled is zero, the caller counts its row through the pointer.    *)
Inserted(t, s, k) ==
  [t EXCEPT !.rows[s] = [tag |-> TagOf(k), key |-> k, payload |-> t.rows[s].payload + 1],
            !.inserted = @ + 1]

Counted(t, s) == [t EXCEPT !.rows[s].payload = @ + 1]

LookupOrInsert(t, k) ==
  LET s == FindSlotOrEmpty(t, k)
  IN  IF t.rows[s].tag = Zero THEN Inserted(t, s, k) ELSE Counted(t, s)
LookupOrInsertString(t, k) ==
  LET s == FindStringOrEmpty(t, k)
  IN  IF t.rows[s].tag = Zero THEN Inserted(t, s, k) ELSE Counted(t, s)

Insert(t, k) ==
  Inserted(t, FirstProbed(t, k, {s \in Slots(t) : ~t.rows[s].tag.fill}), k)

Perform(t, name, k) ==
  /\ table' = IF name = "insert" THEN Insert(t, k)
              ELSE CASE kind = "sk" -> LookupOrInsert(t, k)
                     [] kind = "ck" -> LookupOrInsertString(t, k)
  /\ groups' = [groups EXCEPT ![text[k]] = @ + 1]

(* The first part of lookupOrInsert and insert: reserveSlot. Insert "must  *)
(* only be called when we know the group does not exist yet".              *)
Call(name, k) ==
  /\ pc = "idle" /\ kind \in {"sk", "ck"} /\ k \in KeysOf[kind]
  /\ name = "insert" => kind = "sk"
  /\ groups[text[k]] < MaxCount
  /\ table.inserted < table.maxFill \/ 2 * Capacity(table) <= MaxSlots
  /\ name = "insert" => groups[k] = 0
  /\ IF table.inserted < table.maxFill
       THEN Perform(table, name, k) /\ UNCHANGED <<pc, old, idx, op>>
       ELSE /\ table' = NewTable(2 * Capacity(table))
            /\ old' = table
            /\ idx' = 0
            /\ op' = [name |-> name, key |-> k]
            /\ pc' = "move"
            /\ UNCHANGED groups
  /\ UNCHANGED <<input, reader, visits>>

(* The tables that never grow.                                             *)
LookupOrInsertDirect(k) ==
  /\ pc = "idle" /\ kind = "dl" /\ k \in KeysOf[kind] /\ groups[k] < MaxCount
  /\ LET s == hash[k].low
     IN table' = [Counted(table, s) EXCEPT
                    !.inserted = IF table.rows[s].tag = Zero THEN @ + 1 ELSE @,
                    !.rows[s].tag = TagOf(k), !.rows[s].key = k]
  /\ groups' = [groups EXCEPT ![k] = @ + 1]
  /\ UNCHANGED <<input, pc, old, idx, op, reader, visits>>
LookupOrInsertSingleKey ==
  /\ pc = "idle" /\ kind = "nk" /\ groups[ZeroKey] < MaxCount
  /\ table' = IF table.rows[0].tag # Zero THEN Counted(table, 0)
              ELSE [Counted(table, 0) EXCEPT !.rows[0].tag = [fill |-> TRUE, print |-> @.print],
                                             !.inserted = @ + 1]
  /\ groups' = [groups EXCEPT ![ZeroKey] = @ + 1]
  /\ UNCHANGED <<input, pc, old, idx, op, reader, visits>>

(* The loop of reserveSlot. It moves every slot whose tag is not zero to   *)
(* the first slot of the new table whose tag is.                           *)
MoveSlot_NoProbe ==
  /\ pc = "move" /\ kind = "sk"
  /\ idx \in Slots(old)
  /\ IF old.rows[idx].tag = Zero
       THEN UNCHANGED table
       ELSE table' = [table EXCEPT !.rows[Home(table, old.rows[idx].key)] = old.rows[idx]]
  /\ idx' = idx + 1
  /\ UNCHANGED <<input, pc, old, op, groups, reader, visits>>

MoveSlot ==
  /\ pc = "move" /\ kind = "sk"
  /\ idx \in Slots(old)
  /\ IF old.rows[idx].tag = Zero
       THEN UNCHANGED table
       ELSE LET free == {s \in Slots(table) : table.rows[s].tag = Zero}
                to == FirstProbed(table, old.rows[idx].key, free)
            IN  table' = [table EXCEPT !.rows[to] = old.rows[idx]]
  /\ idx' = idx + 1
  /\ UNCHANGED <<input, pc, old, op, groups, reader, visits>>

(* A moved string is hashed again; its row keeps the pointer.              *)
FirstEmptySlot(t, k) == FirstProbed(t, k, {s \in Slots(t) : t.rows[s].tag = Zero})
MoveString ==
  /\ pc = "move" /\ kind = "ck"
  /\ idx \in Slots(old)
  /\ LET row == old.rows[idx]
     IN table' = IF row.tag = Zero THEN table
                 ELSE [table EXCEPT !.rows[FirstEmptySlot(table, row.key)] = row]
  /\ idx' = idx + 1
  /\ UNCHANGED <<input, pc, old, op, groups, reader, visits>>

FinishCall_NoCount ==
  /\ pc = "move"
  /\ idx \notin Slots(old)
  /\ Perform(table, op.name, op.key)
  /\ pc' = "idle"
  /\ old' = NewTable(0)
  /\ idx' = 0
  /\ op' = NoCall
  /\ UNCHANGED <<input, reader, visits>>

FinishCall ==
  /\ pc = "move"
  /\ idx \notin Slots(old)
  /\ Perform([table EXCEPT !.inserted = old.inserted], op.name, op.key)
  /\ pc' = "idle"
  /\ old' = NewTable(0)
  /\ idx' = 0
  /\ op' = NoCall
  /\ UNCHANGED <<input, reader, visits>>

(* lookupDisable: the slot stays filled, so that chains stay intact, but   *)
(* no lookup finds it.                                                     *)
LookupDisable_Empties(k) ==
  /\ pc = "idle" /\ kind = "sk" /\ k \in KeysOf[kind]
  /\ DisableAbsent \/ groups[k] > 0
  /\ table' = [table EXCEPT !.rows[FindSlotOrEmpty(table, k)].tag = Zero]
  /\ groups' = [groups EXCEPT ![k] = 0]
  /\ UNCHANGED <<input, pc, old, idx, op, reader, visits>>

LookupDisable(k) ==
  /\ pc = "idle" /\ kind = "sk" /\ k \in KeysOf[kind]
  /\ DisableAbsent \/ groups[k] > 0
  /\ table' = [table EXCEPT !.rows[FindSlotOrEmpty(table, k)].tag = Disabled(@)]
  /\ groups' = [groups EXCEPT ![k] = 0]
  /\ UNCHANGED <<input, pc, old, idx, op, reader, visits>>

-----------------------------------------------------------------------------
(* The source of the next pipeline.                                        *)

End == Capacity(table)

(* iteratorStart and iteratorAdvance stop at the next filled slot; `last`  *)
(* is the slot the iterator was at.                                        *)
NextFilled_StopsEarly(last) ==
  LET next == {s \in FilledSlots(table) : s > last /\ s < End - 1}
  IN  IF next = {} THEN End ELSE Min(next)
NextFilled(last) ==
  LET next == {s \in FilledSlots(table) : s > last}
  IN  IF next = {} THEN End ELSE Min(next)

(* HashTableSource::setUpStateImpl.                                        *)
StartReading ==
  /\ pc = "idle"
  /\ pc' = "pick"
  /\ reader' = [start |-> NextFilled(-1), end |-> NextFilled(-1),
                cursor |-> NextFilled(-1), size |-> 0]
  /\ visits' = [s \in Slots(table) |-> 0]
  /\ UNCHANGED <<input, table, old, idx, op, groups>>

(* HashTableSource::pickMorsel: the end moves over at most ChunkSize rows. *)
EndsFrom(first) ==
  LET ends[n \in 0 .. ChunkSize] ==
        IF n = 0 THEN first
        ELSE IF ends[n - 1] = End THEN End ELSE NextFilled(ends[n - 1])
  IN  ends

PickMorsel ==
  /\ pc = "pick"
  /\ IF reader.end = End
       THEN pc' = "done" /\ UNCHANGED reader
       ELSE LET ends == EndsFrom(reader.end)
                size == Min({n \in 1 .. ChunkSize : n = ChunkSize \/ ends[n] = End})
            IN  /\ pc' = "read"
                /\ reader' = [start |-> reader.end, end |-> ends[size],
                              cursor |-> reader.end, size |-> size]
  /\ UNCHANGED <<input, table, old, idx, op, groups, visits>>

(* The loop the source generates over its morsel.                          *)
ReadRow ==
  /\ pc = "read"
  /\ IF reader.cursor = reader.end
       THEN pc' = "pick" /\ UNCHANGED <<reader, visits>>
       ELSE /\ visits' = [visits EXCEPT ![reader.cursor] = @ + 1]
            /\ reader' = [reader EXCEPT !.cursor = NextFilled(@)]
            /\ UNCHANGED pc
  /\ UNCHANGED <<input, table, old, idx, op, groups>>

Next ==
  \/ \E name \in {"lookupOrInsert", "insert"}, k \in Keys : Call(name, k)
  \/ \E k \in Keys : LookupOrInsertDirect(k)
  \/ LookupOrInsertSingleKey
  \/ MoveSlot
  \/ MoveString
  \/ FinishCall
  \/ \E k \in Keys : LookupDisable(k)
  \/ StartReading
  \/ PickMorsel
  \/ ReadRow
  \/ pc = "done" /\ UNCHANGED vars

Spec == Init /\ [][Next]_vars

-----------------------------------------------------------------------------
(* Properties.                                                             *)

Tags == [fill : BOOLEAN, print : 0 .. Mask]
Rows == [tag : Tags, key : Keys, payload : Nat]

IsTable(t) ==
  t \in [rows : [0 .. Capacity(t) - 1 -> Rows], inserted : Nat, maxFill : Nat]

TypeOK ==
  /\ kind \in Kinds /\ text \in [Keys -> Keys]
  /\ hash \in [KeysOf[kind] -> [low : Nat, print : 0 .. Mask]]
  /\ IsTable(table) /\ IsTable(old)
  /\ pc \in {"idle", "move", "pick", "read", "done"}
  /\ idx \in Nat
  /\ op \in [name : {"none", "lookupOrInsert", "insert"}, key : Keys]
  /\ groups \in [Keys -> Nat]
  /\ reader \in [start : Nat, end : Nat, cursor : Nat, size : 0 .. ChunkSize]
  /\ DOMAIN visits \subseteq Nat /\ \A s \in DOMAIN visits : visits[s] \in Nat

(* The table is a map: a lookup finds the row of a key with everything     *)
(* that was written to it if and only if the key has a group, however the  *)
(* keys collide, wherever their chains wrap around, whatever was disabled  *)
(* in the middle of a chain and however often the rows were moved; and for *)
(* strings, through whichever pointer it was written.                      *)
TableIsMap ==
  pc # "move" => \A k \in KeysOf[kind] :
    /\ Found(table, k) <=> groups[text[k]] > 0
    /\ Found(table, k) =>
         LET row == table.rows[SlotOf(table, k)]
         IN  text[row.key] = text[k] /\ row.payload = groups[text[k]]

(* Every probe ends and the next resize comes in time: at most half of the *)
(* slots are filled, and `inserted` counts them, disabled ones included.   *)
HalfEmpty ==
  pc # "move" =>
    /\ table.inserted = Cardinality(FilledSlots(table))
    /\ kind # "dl" => Capacity(table) = 2 * table.maxFill /\ table.inserted <= table.maxFill

(* While a table is resized no row is in both tables or in neither.        *)
MovedOnce ==
  pc = "move" =>
    \A row \in {old.rows[s] : s \in FilledSlots(old)} :
      Cardinality({s \in Slots(old) : s < idx /\ old.rows[s] = row})
        = Cardinality({s \in Slots(table) : table.rows[s] = row})

(* The next pipeline reads every filled slot once, in morsels of the size  *)
(* the source announced, whatever the last slot of the table is.           *)
ReadOnce ==
  /\ pc \in {"pick", "read", "done"} => \A s \in Slots(table) :
       visits[s] = IF s \in FilledSlots(table) /\ s < reader.cursor THEN 1 ELSE 0
  /\ pc = "read" =>
       Cardinality({s \in FilledSlots(table) : reader.start <= s /\ s < reader.end})
         = reader.size
  /\ pc = "done" => reader.cursor = End
=============================================================================
