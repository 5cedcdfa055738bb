----------------------------- MODULE HashJoin_proofs -----------------------------
(***************************************************************************)
(* Proofs about HashJoin and the AtomicHashTable it uses, for any number of *)
(* threads, any keys, hash values and relations.                           *)
(***************************************************************************)
EXTENDS HashJoin, FiniteLemmas, SequenceTheorems

-----------------------------------------------------------------------------
(* The inductive invariant, in layers: each is inductive given the ones    *)
(* before it.                                                              *)

Outer == kind \in {"leftOuter", "marking"}

(* Where the query stands, and what is idle meanwhile.                     *)
PhaseInv ==
  /\ IsFiniteSet(Slots)
  /\ phase = "build" => Slots = {} /\ nextProbe = 0
  /\ phase # "build" => Slots # {} /\ nextBuild = Len(build)
  /\ phase = "insert" => nextProbe = 0
  /\ phase = "rest" => Outer
  /\ phase \in {"rest", "done"} => nextProbe = Len(probe)

(* What a worker may be doing, and where its chunk comes from.             *)
WorkerInv(t) ==
  /\ call[t].pc = "exchange" => call[t].fn \in {"insert", "insertOuter", "lookupDisable"}
  /\ call[t].pc = "found" => call[t].idx \in Slots
  /\ phase = "build" =>
       /\ call[t].pc = "idle" /\ offset[t] = 0
       /\ task[t].handle = 0 /\ task[t].tuples = << >>
  /\ phase = "insert" =>
       /\ InCall(t) => call[t].fn = BuildFn /\ call[t].pc # "mark"
       /\ task[t].tuples # << >> => task[t].handle \in Threads
  /\ phase \in {"probe", "rest", "done"} =>
       /\ task[t].handle = NumThreads /\ task[t].tuples = << >>
       /\ InCall(t) => probing[t] # 0
  /\ phase # "probe" => probing[t] = 0
  /\ \A h \in Threads : h < task[t].handle => offset[h] >= Len(materializers[h])

BaseInv == TypeOK /\ PhaseInv /\ \A t \in Threads : WorkerInv(t)

(* The chunks hold the rows picked so far, each of them once.              *)
ChunkNos == 1 .. Len(build) + 1
RowNos == 1 .. Len(build)
ChunksInv ==
  /\ \A t \in Threads :
       /\ Len(materializers[t]) \in 1 .. nextBuild + 1
       /\ \A c \in DOMAIN materializers[t] : Len(materializers[t][c]) <= nextBuild
  /\ \A t \in Threads, c \in ChunkNos, i \in RowNos, k \in Keys :
       Holds(t, c, i, k) => \E j \in 1 .. nextBuild : build[j] = k
  /\ \A j \in 1 .. nextBuild :
       \E t \in Threads, c \in ChunkNos, i \in RowNos : Holds(t, c, i, build[j])
  /\ \A t, u \in Threads, c, d \in ChunkNos, i, j \in RowNos, k \in Keys :
       Holds(t, c, i, k) /\ Holds(u, d, j, k) => t = u /\ c = d /\ i = j

(* A row of a chunk that was pulled is in the task of a worker, in one of  *)
(* its inserts or in a slot, in one of them only; no other row is.         *)
Pulled(k) ==
  \E t \in Threads, c \in ChunkNos, i \in RowNos : c <= offset[t] /\ Holds(t, c, i, k)
InTask(k, t, i) == i \in DOMAIN task[t].tuples /\ task[t].tuples[i] = k
Inserting(k, t) == phase = "insert" /\ InCall(t) /\ call[t].key = k
InSlot(k, s) == tags[s].fill /\ rows[s] = k

PulledInv ==
  /\ \A t \in Threads : Len(task[t].tuples) <= Len(build)
  /\ \A k \in Keys : Pulled(k) =>
       \/ \E t \in Threads, i \in RowNos : InTask(k, t, i)
       \/ \E t \in Threads : Inserting(k, t)
       \/ \E s \in Slots : InSlot(k, s)
  /\ \A k \in Keys, t \in Threads :
       /\ \A i \in RowNos : InTask(k, t, i) => Pulled(k)
       /\ Inserting(k, t) => Pulled(k)
  /\ \A k \in Keys, s \in Slots : InSlot(k, s) => Pulled(k)
ApartInv ==
  \A k \in Keys :
    /\ \A t, u \in Threads, i, j \in RowNos : InTask(k, t, i) /\ InTask(k, u, j) => t = u /\ i = j
    /\ \A t, u \in Threads : Inserting(k, t) /\ Inserting(k, u) => t = u
    /\ \A r, s \in Slots : InSlot(k, r) /\ InSlot(k, s) => r = s
    /\ \A t, u \in Threads, i \in RowNos : ~(InTask(k, t, i) /\ Inserting(k, u))
    /\ \A t \in Threads, i \in RowNos, s \in Slots : ~(InTask(k, t, i) /\ InSlot(k, s))
    /\ \A t \in Threads, s \in Slots : ~(Inserting(k, t) /\ InSlot(k, s))

(* As many rows are in chunks as were picked, and the table has twice as   *)
(* many slots.                                                             *)
SizeInv ==
  /\ phase = "build" => TotalRows = nextBuild
  /\ phase # "build" => Cardinality(Slots) >= 2 * Len(build)

(* u is probed before s when probing starts at slot home.                  *)
Before(home, s, u) ==
  IF home <= s THEN home <= u /\ u < s ELSE home <= u \/ u < s

(* A slot is claimed before it has a row. The tag of a row is what the     *)
(* calls of its kind of join make of it, and no slot before it is empty.   *)
BuildTag(k) == IF kind = "marking" THEN OuterTag(k) ELSE PlainTag(k)
Disabled(k) == Inverted(PlainTag(k))
RowTags(k) == CASE kind = "marking" -> {OuterTag(k), Marked(OuterTag(k))}
                [] kind = "leftSemi" -> {PlainTag(k), Disabled(k)}
                [] OTHER -> {PlainTag(k)}
FilledUpTo(k, s) == \A u \in Slots : Before(Home(k), s, u) => tags[u].fill
SlotInv(s) ==
  /\ ~tags[s].fill => tags[s] = Zero /\ rows[s] = NoRow
  /\ tags[s].fill /\ rows[s] = NoRow =>
       phase = "insert" /\ \E t \in Threads : call[t].pc = "populate" /\ call[t].idx = s
  /\ rows[s] # NoRow => FilledUpTo(rows[s], s) /\ tags[s] \in RowTags(rows[s])
InsertInv(t) ==
  phase = "insert" /\ InCall(t) =>
    /\ FilledUpTo(call[t].key, call[t].idx)
    /\ call[t].pc = "populate" =>
         /\ tags[call[t].idx] = BuildTag(call[t].key) /\ rows[call[t].idx] = NoRow
         /\ \A u \in Threads : call[u].pc = "populate" /\ call[u].idx = call[t].idx => t = u
TableInv == (\A s \in Slots : SlotInv(s)) /\ \A t \in Threads : InsertInv(t)

(* A worker looks up the row it picked, and does not pass a slot where it  *)
(* can be found.                                                           *)
Taken(k, s) == kind = "leftSemi" /\ tags[s] = Disabled(k)
Seen(k, s) ==
  /\ kind = "leftSemi" => tags[s] = Disabled(k)
  /\ kind = "marking" => tags[s].mark
Hidden(k) == \A s \in Slots : rows[s] = k => Taken(k, s)
ProbeInv(t) ==
  LET c == call[t] IN
  probing[t] # 0 =>
    /\ probing[t] <= nextProbe /\ c.key = probe[probing[t]] /\ c.fn = ProbeFn
    /\ \A u \in Threads : probing[u] = probing[t] => u = t
    /\ found[probing[t]] = NoRow
    /\ c.pc \in {"load", "exchange", "mark"} \cup Returned
    /\ c.pc = "load" => \A s \in Slots :
         rows[s] = c.key /\ ~Taken(c.key, s) => ~Before(Home(c.key), c.idx, s)
    /\ c.pc = "exchange" => kind = "leftSemi"
    /\ c.pc = "mark" => kind = "marking"
    /\ c.pc \in {"exchange", "mark", "found"} => rows[c.idx] = c.key
    /\ c.pc = "found" => Seen(c.key, c.idx)
    /\ c.pc = "absent" => Hidden(c.key)
FoundInv(i) ==
  /\ i > nextProbe => found[i] = NoRow
  /\ found[i] # NoRow =>
       found[i] = probe[i] /\ \E s \in Slots : rows[s] = probe[i] /\ Seen(probe[i], s)
  /\ i <= nextProbe /\ found[i] = NoRow =>
       (\E t \in Threads : probing[t] = i) \/ Hidden(probe[i])

(* A disabled row was found by one probe, a marked row by some.            *)
FoundBy(k, i) ==
  \/ found[i] = k
  \/ \E t \in Threads : probing[t] = i /\ call[t].pc = "found" /\ call[t].key = k
SeenInv(s) ==
  rows[s] # NoRow =>
    /\ kind = "marking" /\ tags[s].mark => \E i \in DOMAIN probe : probe[i] = rows[s]
    /\ kind = "leftSemi" =>
         /\ tags[s] = Disabled(rows[s]) => \E i \in DOMAIN probe : FoundBy(rows[s], i)
         /\ \A i, j \in DOMAIN probe : FoundBy(rows[s], i) /\ FoundBy(rows[s], j) => i = j
LookupInv ==
  /\ \A t \in Threads : ProbeInv(t)
  /\ \A i \in DOMAIN probe : FoundInv(i)
  /\ \A s \in Slots : SeenInv(s)

(* The scan for rows without a match.                                      *)
Unmatched(s) == tags[s].fill /\ ~tags[s].mark
Scanned(k, c) == \E s \in Slots : s < c /\ Unmatched(s) /\ rows[s] = k
RestInv ==
  /\ phase \notin {"rest", "done"} => \A k \in Keys : rest[k] = 0
  /\ phase \in {"rest", "done"} /\ Outer =>
       /\ cursor \in Slots => Unmatched(cursor)
       /\ phase = "done" => \A s \in Slots : s < cursor
       /\ \A k \in Keys : rest[k] = IF Scanned(k, cursor) THEN 1 ELSE 0

IInv ==
  BaseInv /\ ChunksInv /\ PulledInv /\ ApartInv /\ SizeInv /\ TableInv /\ LookupInv /\ RestInv

-----------------------------------------------------------------------------
(* Types, phases and what idles in them.                                   *)

(* The table has slots from 0 on, and a call starts at one of them.        *)
LEMMA SlotNumbers ==
  ASSUME TableTypeOK, IsFiniteSet(Slots)
  PROVE  /\ Cardinality(Slots) \in Nat
         /\ Slots = 0 .. Cardinality(Slots) - 1
         /\ tags \in [Slots -> Tags]
         /\ Slots # {} => \A k \in Keys : Home(k) \in Slots
<1> USE AtomicTableAssumption
<1>1. Cardinality(Slots) \in Nat
  BY FS_CardinalityType
<1>2. Slots = 0 .. Cardinality(Slots) - 1 /\ tags \in [Slots -> Tags]
  BY DEF TableTypeOK, Slots
<1>3. ASSUME Slots # {}, NEW k \in Keys PROVE Home(k) \in Slots
  <2>1. Cardinality(Slots) \in Nat \ {0}
    BY <1>1, <1>2, <1>3
  <2>2. hash[k].low \in Nat
    BY DEF TableTypeOK
  <2>3. hash[k].low % Cardinality(Slots) \in 0 .. Cardinality(Slots) - 1
    BY <2>1, <2>2
  <2> QED BY <2>3, <1>2 DEF Home
<1> QED BY <1>1, <1>2, <1>3

(* A step of a call changes the call, and at most the slot it is at.       *)
LEMMA CallSteps ==
  ASSUME TableTypeOK, IsFiniteSet(Slots), Slots # {}, NEW t \in Threads, CallStep(t),
         call[t].pc = "exchange" => call[t].fn \in {"insert", "insertOuter", "lookupDisable"}
  PROVE  /\ TableTypeOK' /\ Slots' = Slots /\ hash' = hash
         /\ InCall(t) /\ call[t].idx \in Slots
         /\ \A u \in Threads \ {t} : call'[u] = call[u]
         /\ call'[t].fn = call[t].fn /\ call'[t].key = call[t].key
         /\ \A s \in Slots \ {call[t].idx} : tags'[s] = tags[s] /\ rows'[s] = rows[s]
         /\ Advanced(call[t]).idx \in Slots
<1> USE AtomicTableAssumption
<1> DEFINE c == call[t]
<1>1. /\ Cardinality(Slots) \in Nat /\ Slots = 0 .. Cardinality(Slots) - 1
      /\ tags \in [Slots -> Tags]
  BY SlotNumbers
<1>2. /\ InCall(t) /\ c \in [fn : Fns, key : Keys, idx : Nat, pc : CallPcs]
      /\ c.idx \in Slots
  BY DEF CallStep, LoadTag, Exchange, Populate, Mark, InCall, Returned, TableTypeOK
<1>3. Advanced(c).idx \in Slots /\ Advanced(c) \in [fn : Fns, key : Keys, idx : Nat, pc : CallPcs]
      /\ Advanced(c).fn = c.fn /\ Advanced(c).key = c.key
  <2> DEFINE next == IF c.idx = Cardinality(Slots) - 1 THEN 0 ELSE c.idx + 1
  <2>1. next \in Slots /\ next \in Nat
    BY <1>1, <1>2
  <2>2. "load" \in CallPcs
    BY DEF CallPcs
  <2>3. Advanced(c) = [fn |-> c.fn, key |-> c.key, idx |-> next, pc |-> "load"]
    <3>1. Advanced(c) = [c EXCEPT !.idx = next, !.pc = "load"]
      BY Zenon DEF Advanced
    <3> HIDE DEF c, next
    <3> QED BY <1>2, <3>1
  <2> HIDE DEF c, next
  <2> QED BY <1>2, <2>1, <2>2, <2>3
<1>4. \A label \in CallPcs :
        /\ At(c, label) \in [fn : Fns, key : Keys, idx : Nat, pc : CallPcs]
        /\ At(c, label).idx = c.idx /\ At(c, label).fn = c.fn /\ At(c, label).key = c.key
  BY <1>2 DEF At
<1>5. hash[c.key] \in [low : Nat, mark : BOOLEAN, print : 0 .. Mask]
  BY <1>2 DEF TableTypeOK
<1> DEFINE Moved(d) == /\ d \in [fn : Fns, key : Keys, idx : Nat, pc : CallPcs]
                       /\ d.idx \in Slots /\ d.fn = c.fn /\ d.key = c.key
<1>6. Moved(Advanced(c)) /\ \A label \in CallPcs : Moved(At(c, label))
  BY <1>2, <1>3, <1>4
<1>7. \A tag \in Tags : Marked(tag) \in Tags /\ Inverted(tag) \in Tags
  <2> TAKE tag \in Tags
  <2>1. Mask - tag.print \in 0 .. Mask
    BY DEF Tags
  <2> QED BY <2>1 DEF Tags, Marked, Inverted
<1>8. PlainTag(c.key) \in Tags /\ OuterTag(c.key) \in Tags
  BY <1>5 DEF Tags, PlainTag, OuterTag
<1>9. /\ hash' = hash
      /\ \E d : Moved(d) /\ call' = [call EXCEPT ![t] = d]
      /\ tags' = tags \/ \E tag \in Tags : tags' = [tags EXCEPT ![c.idx] = tag]
      /\ rows' = rows \/ rows' = [rows EXCEPT ![c.idx] = c.key]
  <2>1. CASE LoadTag(t)
    <3>1. c.fn \in {"insert", "insertOuter"} => Moved(AfterInsertLoad(c, tags[c.idx]))
      BY <1>6 DEF AfterInsertLoad, CallPcs
    <3>2. c.fn \notin {"insert", "insertOuter"} => Moved(AfterLookupLoad(c, tags[c.idx]))
      BY <1>2, <1>6 DEF AfterLookupLoad, CallPcs, Fns, Returned
    <3> HIDE DEF Moved
    <3> QED BY <2>1, <3>1, <3>2 DEF LoadTag
  <2>2. CASE Exchange(t)
    <3>1. NewTag(c) \in Tags
      BY <2>2, <1>7, <1>8 DEF NewTag, Exchange
    <3> QED BY <2>2, <1>6, <3>1 DEF Exchange, Exchanged, CallPcs, Returned
  <2>3. CASE Populate(t)
    BY <2>3, <1>6 DEF Populate, CallPcs, Returned
  <2>4. CASE Mark(t)
    BY <2>4, <1>6, <1>7, <1>8 DEF Mark, CallPcs, Returned
  <2> QED BY <2>1, <2>2, <2>3, <2>4 DEF CallStep
<1>10. PICK d : Moved(d) /\ call' = [call EXCEPT ![t] = d]
  BY <1>9
<1>11. /\ \A u \in Threads \ {t} : call'[u] = call[u]
       /\ call'[t] = d
       /\ call' \in [Threads -> [fn : Fns, key : Keys, idx : Nat, pc : CallPcs]]
       /\ \A u \in Threads : InCall(u)' => call'[u].idx \in Slots
  <2> HIDE DEF c
  <2> QED BY <1>10 DEF TableTypeOK, InCall
<1>12. /\ \A s \in Slots \ {c.idx} : tags'[s] = tags[s] /\ rows'[s] = rows[s]
       /\ tags' \in [Slots -> Tags] /\ rows' \in [Slots -> Keys \cup {NoRow}]
  <2> HIDE DEF c
  <2>1. rows \in [Slots -> Keys \cup {NoRow}] /\ c.key \in Keys
    BY <1>2 DEF TableTypeOK
  <2> QED BY <1>1, <1>2, <1>9, <2>1, SMTT(60)
<1>13. Slots' = Slots
  BY <1>12 DEF Slots
<1>14. TableTypeOK'
  <2>1. Cardinality(Slots)' = Cardinality(Slots)
    BY <1>13
  <2>2. hash' \in [Keys -> Hashes]
    BY <1>9 DEF TableTypeOK
  <2>3. tags' \in [0 .. Cardinality(Slots)' - 1 -> Tags]
    BY <1>1, <1>12, <2>1
  <2> QED BY <1>11, <1>12, <1>13, <2>2, <2>3 DEF TableTypeOK
<1> QED BY <1>2, <1>3, <1>9, <1>10, <1>11, <1>12, <1>13, <1>14

(* What At and Advanced make of a call.                                    *)
Calls == [fn : Fns, key : Keys, idx : Nat, pc : CallPcs]

(* What At and Advanced keep and change of a call on the table. *)
LEMMA CallFields ==
  ASSUME NEW c \in Calls
  PROVE  /\ \A label \in CallPcs :
              /\ At(c, label).fn = c.fn /\ At(c, label).key = c.key
              /\ At(c, label).idx = c.idx /\ At(c, label).pc = label
         /\ Advanced(c).fn = c.fn /\ Advanced(c).key = c.key /\ Advanced(c).pc = "load"
         /\ Advanced(c).idx = IF c.idx = Cardinality(Slots) - 1 THEN 0 ELSE c.idx + 1
<1>1. \A label \in CallPcs :
        /\ At(c, label).fn = c.fn /\ At(c, label).key = c.key
        /\ At(c, label).idx = c.idx /\ At(c, label).pc = label
  BY DEF At, Calls
<1> DEFINE next == IF c.idx = Cardinality(Slots) - 1 THEN 0 ELSE c.idx + 1
<1>2. Advanced(c) = [c EXCEPT !.idx = next, !.pc = "load"]
  BY Zenon DEF Advanced
<1>3. /\ Advanced(c).fn = c.fn /\ Advanced(c).key = c.key /\ Advanced(c).pc = "load"
      /\ Advanced(c).idx = next
  <2> HIDE DEF next
  <2> QED BY <1>2 DEF Calls
<1> QED BY <1>1, <1>3

(* What a call does after it loaded a tag.                                 *)
LEMMA LoadOutcomes ==
  ASSUME TableTypeOK, NEW t \in Threads, LoadTag(t)
  PROVE  /\ tags' = tags /\ rows' = rows /\ hash' = hash /\ call[t].pc = "load"
         /\ LET c == call[t]
                tag == tags[c.idx]
            IN  CASE c.fn \in {"insert", "insertOuter"} ->
                       \/ tag.fill /\ call'[t] = Advanced(c)
                       \/ ~tag.fill /\ call'[t] = At(c, "exchange")
                  [] OTHER ->
                       \/ ~tag.fill /\ call'[t] = At(c, "absent")
                       \/ tag.fill /\ ~Matches(c, tag) /\ call'[t] = Advanced(c)
                       \/ tag.fill /\ Matches(c, tag) /\ c.fn = "lookup"
                            /\ call'[t] = At(c, "found")
                       \/ tag.fill /\ Matches(c, tag) /\ c.fn = "lookupDisable"
                            /\ call'[t] = At(c, "exchange")
                       \/ tag.fill /\ Matches(c, tag) /\ c.fn = "lookupOuter"
                            /\ tag = Marked(OuterTag(c.key)) /\ call'[t] = At(c, "found")
                       \/ tag.fill /\ Matches(c, tag) /\ c.fn = "lookupOuter"
                            /\ call'[t] = At(c, "mark")
<1> DEFINE c == call[t]
           tag == tags[c.idx]
<1>1. c \in Calls /\ tags' = tags /\ rows' = rows /\ hash' = hash /\ c.pc = "load"
  BY DEF TableTypeOK, Calls, LoadTag
<1>2. CASE c.fn \in {"insert", "insertOuter"}
  <2>1. call'[t] = AfterInsertLoad(c, tag)
    BY <1>2 DEF LoadTag, TableTypeOK
  <2> QED BY <1>1, <1>2, <2>1 DEF AfterInsertLoad
<1>3. CASE c.fn \notin {"insert", "insertOuter"}
  <2>1. call'[t] = AfterLookupLoad(c, tag)
    BY <1>3 DEF LoadTag, TableTypeOK
  <2>2. c.fn \in {"lookup", "lookupDisable", "lookupOuter"}
    BY <1>1, <1>3 DEF Calls, Fns
  <2> HIDE DEF c, tag
  <2>3. CASE c.fn = "lookup"
    BY <1>1, <1>3, <2>1, <2>3 DEF AfterLookupLoad, c, tag
  <2>4. CASE c.fn = "lookupDisable"
    BY <1>1, <1>3, <2>1, <2>4 DEF AfterLookupLoad, c, tag
  <2>5. CASE c.fn = "lookupOuter"
    BY <1>1, <1>3, <2>1, <2>5 DEF AfterLookupLoad, c, tag
  <2> QED BY <2>2, <2>3, <2>4, <2>5
<1> QED BY <1>2, <1>3

(* What a call does when it compares and exchanges a tag, writes its row   *)
(* or marks the slot.                                                      *)
LEMMA WriteOutcomes ==
  ASSUME TableTypeOK, NEW t \in Threads, Slots # {}
  PROVE  LET c == call[t] IN
         /\ Exchange(t) => c.pc = "exchange" /\ rows' = rows /\ hash' = hash /\
              \/ /\ tags[c.idx] = ExpectedTag(c) /\ tags' = [tags EXCEPT ![c.idx] = NewTag(c)]
                 /\ call'[t] = Exchanged(c)
              \/ /\ tags[c.idx] # ExpectedTag(c) /\ tags' = tags
                 /\ call'[t] = Advanced(c)
         /\ Populate(t) => c.pc = "populate" /\ tags' = tags /\ hash' = hash
              /\ rows' = [rows EXCEPT ![c.idx] = c.key] /\ call'[t] = At(c, "found")
         /\ Mark(t) => c.pc = "mark" /\ rows' = rows /\ hash' = hash
              /\ tags' = [tags EXCEPT ![c.idx] = Marked(OuterTag(c.key))]
              /\ call'[t] = At(c, "found")
BY DEF TableTypeOK, Exchange, Populate, Mark

-----------------------------------------------------------------------------
(* The base layer.                                                         *)

(* What the inputs of a join are.                                          *)
LEMMA Inputs ==
  ASSUME kind \in Kinds, build \in Builds, probe \in Probes
  PROVE  /\ build \in Seq(Keys) /\ Len(build) \in Nat /\ DOMAIN build = 1 .. Len(build)
         /\ \A i, j \in 1 .. Len(build) : build[i] = build[j] => i = j
         /\ probe \in Seq(Keys) /\ Len(probe) \in Nat /\ DOMAIN probe = 1 .. Len(probe)
         /\ kind \in {"inner", "leftSemi", "leftOuter", "marking"}
BY JoinAssumption

(* Before anything runs.                                                   *)
LEMMA BaseInit == Init => BaseInv
<1> SUFFICES ASSUME Init PROVE BaseInv
  OBVIOUS
<1> USE AtomicTableAssumption
<1>1. /\ Slots = {} /\ IsFiniteSet(Slots) /\ Cardinality(Slots) = 0
      /\ tags \in [0 .. Cardinality(Slots) - 1 -> Tags]
      /\ rows \in [Slots -> Keys \cup {NoRow}]
  <2>1. Slots = {} /\ DOMAIN rows = {}
    BY DEF Init, TableInit, Slots
  <2>2. IsFiniteSet(Slots) /\ Cardinality(Slots) = 0
    BY <2>1, FS_EmptySet
  <2>3. 0 .. Cardinality(Slots) - 1 = {}
    BY <2>2
  <2>4. tags = [s \in {} |-> s] /\ rows = [s \in {} |-> s]
    BY DEF Init, TableInit
  <2> QED BY <2>1, <2>2, <2>3, <2>4
<1>2. TableTypeOK
  BY <1>1 DEF TableTypeOK, Init, TableInit, Fns, CallPcs, InCall
<1>3. TypeOK
  <2>1. materializers \in [Threads -> Seq(Seq(Keys))]
    BY DEF Init
  <2> QED BY <1>2, <2>1, Inputs DEF TypeOK, Init, Threads
<1>4. PhaseInv
  BY <1>1 DEF PhaseInv, Init
<1>5. \A t \in Threads : WorkerInv(t)
  BY DEF WorkerInv, Init, TableInit, Threads
<1> QED BY <1>3, <1>4, <1>5 DEF BaseInv

(* Every action keeps the base layer.                                      *)
LEMMA BaseMaterialize ==
  ASSUME BaseInv, NEW t \in Threads, Materialize(t)
  PROVE  BaseInv'
<1> DEFINE chunks == materializers[t]
           last == Len(chunks)
           row == build[nextBuild + 1]
           new == IF Len(chunks[last]) + 1 > TuplesPerChunk
                    THEN Append(chunks, <<row>>)
                    ELSE [chunks EXCEPT ![last] = Append(@, row)]
<1> USE DEF BaseInv
<1>1. row \in Keys /\ nextBuild + 1 \in 0 .. Len(build)
  BY Inputs DEF TypeOK, Materialize
<1>2. chunks \in Seq(Seq(Keys)) /\ materializers' = [materializers EXCEPT ![t] = new]
  BY DEF TypeOK, Materialize
<1>3. new \in Seq(Seq(Keys))
  <2>1. chunks # << >> => chunks[last] \in Seq(Keys) /\ last \in 1 .. Len(chunks)
    BY <1>2
  <2>2. chunks = << >> => [chunks EXCEPT ![last] = Append(@, row)] = chunks
    BY <1>2
  <2> HIDE DEF chunks, row
  <2>3. <<row>> \in Seq(Keys)
    BY <1>1
  <2>4. Append(chunks, <<row>>) \in Seq(Seq(Keys))
    BY <1>2, <2>3
  <2>5. chunks # << >> => Append(chunks[last], row) \in Seq(Keys)
    BY <1>1, <2>1
  <2>6. chunks # << >> => [chunks EXCEPT ![last] = Append(@, row)] \in Seq(Seq(Keys))
    BY <1>2, <2>1, <2>5
  <2> QED BY <1>2, <2>2, <2>4, <2>6
<1>4. TypeOK'
  BY <1>1, <1>2, <1>3 DEF TypeOK, Materialize, tableVars, inputVars, probeVars, restVars,
     TableTypeOK, Slots, Tags, InCall
<1>5. PhaseInv'
  BY DEF PhaseInv, Materialize, tableVars, inputVars, probeVars, restVars, Slots, Outer
<1>6. \A u \in Threads : WorkerInv(u)'
  BY DEF WorkerInv, Materialize, tableVars, inputVars, probeVars, restVars, Threads
<1> QED BY <1>4, <1>5, <1>6

(* The table allocated for n rows has at least two slots for each of them. *)
LEMMA TotalSlotsEnough ==
  ASSUME NEW n \in Nat
  PROVE  TotalSlots(n) \in Nat /\ TotalSlots(n) >= 2 * n /\ TotalSlots(n) > 0
<1> DEFINE capacity == Max({2, 2 * n})
<1>1. capacity \in Nat /\ capacity >= 2 /\ capacity >= 2 * n
  <2>1. \A x \in {2, 2 * n} : \A y \in {2, 2 * n} : x <= y \/ y <= x
    OBVIOUS
  <2>2. \E x \in {2, 2 * n} : \A y \in {2, 2 * n} : x >= y
    OBVIOUS
  <2> QED BY <2>2 DEF Max
<1> HIDE DEF capacity
<1>2. \E m \in {2^e : e \in 1 .. capacity} : m >= capacity /\ m < 2 * capacity
  <2>1. PICK e \in 1 .. capacity :
          2^e \in Nat /\ 2^e >= capacity /\ (2^e = 2 \/ 2^e < 2 * capacity)
    <3>1. capacity \in Nat \ {0}
      BY <1>1
    <3> QED BY <3>1, RoundedUp, Zenon
  <2> DEFINE m == 2^e
  <2>2. m \in {2^i : i \in 1 .. capacity} /\ m \in Nat /\ m >= capacity
    BY <2>1
  <2>3. m = 2 \/ m < 2 * capacity
    BY <2>1
  <2> HIDE DEF m
  <2>4. m < 2 * capacity
    BY <1>1, <2>2, <2>3
  <2> QED BY <2>2, <2>4
<1>3. \A e \in 1 .. capacity : 2^e \in Nat
  BY <1>1, PowerOfTwo
<1>4. TotalSlots(n) = CHOOSE m \in {2^e : e \in 1 .. capacity} : m >= capacity /\ m < 2 * capacity
  BY DEF TotalSlots, capacity
<1>5. TotalSlots(n) \in Nat /\ TotalSlots(n) >= capacity
  BY <1>2, <1>3, <1>4
<1> QED BY <1>1, <1>5

(* The rows in the chunks of a worker, and of all workers.                 *)
RowsOf(chunks) == SumFunction([c \in DOMAIN chunks |-> Len(chunks[c])])

(* The rows of one materializer are a finite sum of its chunks' lengths. *)
LEMMA RowsOfType ==
  ASSUME NEW chunks \in Seq(Seq(Keys))
  PROVE  /\ RowsOf(chunks) \in Nat
         /\ DOMAIN chunks = 1 .. Len(chunks) /\ IsFiniteSet(DOMAIN chunks)
         /\ [c \in DOMAIN chunks |-> Len(chunks[c])] \in [DOMAIN chunks -> Nat]
<1>1. DOMAIN chunks = 1 .. Len(chunks) /\ Len(chunks) \in Nat
  OBVIOUS
<1>2. IsFiniteSet(DOMAIN chunks)
  BY <1>1, FS_Interval
<1>3. [c \in DOMAIN chunks |-> Len(chunks[c])] \in [DOMAIN chunks -> Nat]
  OBVIOUS
<1> QED BY <1>1, <1>2, <1>3, SumType DEF RowsOf

(* The worker indexes are finitely many and include 0. *)
LEMMA ThreadsFinite == IsFiniteSet(Threads) /\ 0 \in Threads
<1>1. NumThreads \in Nat \ {0}
  BY AtomicTableAssumption
<1>2. IsFiniteSet(0 .. NumThreads - 1)
  BY <1>1, FS_Interval
<1> QED BY <1>1, <1>2 DEF Threads

(* The rows of all materializers are a finite sum of the workers' rows. *)
LEMMA TotalRowsType ==
  ASSUME materializers \in [Threads -> Seq(Seq(Keys))]
  PROVE  /\ TotalRows \in Nat
         /\ TotalRows = SumFunction([t \in Threads |-> RowsOf(materializers[t])])
         /\ [t \in Threads |-> RowsOf(materializers[t])] \in [Threads -> Nat]
<1>1. [t \in Threads |-> RowsOf(materializers[t])] \in [Threads -> Nat]
  BY RowsOfType
<1>2. TotalRows = SumFunction([t \in Threads |-> RowsOf(materializers[t])])
  BY DEF TotalRows, RowsOf
<1> QED BY <1>1, <1>2, SumType, ThreadsFinite

(* The allocation types the table, with a slot range that is never empty. *)
LEMMA BaseAllocate ==
  ASSUME BaseInv, AllocHashTable
  PROVE  BaseInv' /\ Cardinality(Slots') = TotalSlots(TotalRows)
         /\ Slots' = 0 .. TotalSlots(TotalRows) - 1
<1> DEFINE n == TotalSlots(TotalRows)
<1> USE DEF BaseInv
<1>1. n \in Nat /\ n > 0
  BY TotalRowsType, TotalSlotsEnough DEF TypeOK
<1> HIDE DEF n
<1>2. tags' = [s \in 0 .. n - 1 |-> Zero] /\ rows' = [s \in 0 .. n - 1 |-> NoRow]
  BY DEF AllocHashTable, Allocate, n
<1>3. Slots' = 0 .. n - 1
  BY <1>2 DEF Slots
<1>4. IsFiniteSet(Slots') /\ Cardinality(Slots') = n /\ Slots' # {}
  <2>1. IsFiniteSet(0 .. n - 1) /\ Cardinality(0 .. n - 1) = n /\ 0 \in 0 .. n - 1
    BY <1>1, FS_Interval
  <2> QED BY <1>3, <2>1
<1>5. Zero \in Tags
  BY AtomicTableAssumption DEF Zero, Tags
<1>6. TableTypeOK'
  <2>1. tags' \in [0 .. Cardinality(Slots') - 1 -> Tags]
    BY <1>2, <1>4, <1>5
  <2>2. rows' \in [Slots' -> Keys \cup {NoRow}]
    BY <1>2, <1>3
  <2>3. hash' = hash /\ call' = call /\ phase = "build"
    BY DEF AllocHashTable
  <2>4. \A t \in Threads : call[t].pc = "idle"
    BY <2>3 DEF WorkerInv
  <2> QED BY <2>1, <2>2, <2>3, <2>4 DEF TableTypeOK, TypeOK, InCall
<1>7. TypeOK'
  BY <1>6 DEF TypeOK, AllocHashTable, inputVars, buildVars, probeVars, restVars
<1>8. PhaseInv'
  BY <1>4 DEF PhaseInv, AllocHashTable, inputVars, buildVars, probeVars, restVars
<1>9. \A t \in Threads : WorkerInv(t)'
  <2>1. /\ phase = "build" /\ phase' = "insert" /\ call' = call /\ offset' = offset
        /\ task' = task /\ materializers' = materializers /\ probing' = probing
    BY DEF AllocHashTable, inputVars, buildVars, probeVars, restVars
  <2> QED BY <2>1 DEF WorkerInv, InCall
<1> QED BY <1>3, <1>4, <1>7, <1>8, <1>9 DEF n

(* A worker that pulls a chunk starts on the rows of one of the
   materializers. *)
LEMMA BasePullChunk ==
  ASSUME BaseInv, NEW t \in Threads, PullChunk(t)
  PROVE  BaseInv'
<1> DEFINE h == task[t].handle
<1> USE DEF BaseInv
<1>0. NumThreads \in Nat \ {0}
  BY AtomicTableAssumption
<1>1. /\ h \in Threads /\ offset \in [Threads -> Nat] /\ materializers \in [Threads -> Seq(Seq(Keys))]
      /\ task \in [Threads -> [handle : 0 .. NumThreads, tuples : Seq(Keys)]]
  BY DEF PullChunk, TypeOK
<1>2. offset' = [offset EXCEPT ![h] = @ + 1] /\ offset' \in [Threads -> Nat]
  BY <1>1 DEF PullChunk
<1>3. offset[h] < Len(materializers[h]) => materializers[h][offset[h] + 1] \in Seq(Keys)
  <2>1. materializers[h] \in Seq(Seq(Keys)) /\ offset[h] \in Nat
    BY <1>1
  <2> QED BY <2>1
<1>4. /\ \A u \in Threads \ {t} : task'[u] = task[u]
      /\ task' \in [Threads -> [handle : 0 .. NumThreads, tuples : Seq(Keys)]]
      /\ offset[h] >= Len(materializers[h]) =>
           task'[t].handle = h + 1 /\ task'[t].tuples = task[t].tuples
      /\ offset[h] < Len(materializers[h]) =>
           task'[t].handle = h /\ task'[t].tuples = materializers[h][offset[h] + 1]
  <2>1. /\ offset[h] \in Nat /\ Len(materializers[h]) \in Nat
        /\ h \in Int /\ h + 1 \in 0 .. NumThreads
    BY <1>0, <1>1, SMTT(60) DEF Threads
  <2> DEFINE old == task[t]
             full == [old EXCEPT !.handle = h + 1]
             next == [old EXCEPT !.tuples = materializers[h][offset[h] + 1]]
  <2>2. task' = [task EXCEPT ![t] = IF offset[h] >= Len(materializers[h]) THEN full ELSE next]
    BY DEF PullChunk
  <2>3. old \in [handle : 0 .. NumThreads, tuples : Seq(Keys)] /\ old.handle = h
    BY <1>1
  <2>4. /\ full.handle = h + 1 /\ full.tuples = old.tuples
        /\ full \in [handle : 0 .. NumThreads, tuples : Seq(Keys)]
    <3> HIDE DEF h, old
    <3> QED BY <2>1, <2>3
  <2>5. offset[h] < Len(materializers[h]) =>
          /\ next.handle = h /\ next.tuples = materializers[h][offset[h] + 1]
          /\ next \in [handle : 0 .. NumThreads, tuples : Seq(Keys)]
    <3> HIDE DEF h, old
    <3> QED BY <1>3, <2>3
  <2> HIDE DEF full, next, h
  <2> QED BY <1>1, <2>1, <2>2, <2>4, <2>5, SMTT(60)
<1>6. TypeOK'
  BY <1>2, <1>4 DEF PullChunk, TypeOK, tableVars, inputVars, probeVars, restVars,
     TableTypeOK, Slots, InCall
<1>7. PhaseInv'
  BY DEF PhaseInv, PullChunk, tableVars, inputVars, probeVars, restVars, Slots, Outer
<1>8. /\ phase = "insert" /\ phase' = "insert" /\ call' = call /\ kind' = kind /\ ~InCall(t)
      /\ materializers' = materializers /\ probing' = probing /\ task[t].tuples = << >>
  BY DEF PullChunk, tableVars, inputVars, probeVars
<1>9. ASSUME NEW u \in Threads PROVE WorkerInv(u)'
  <2>1. WorkerInv(u)
    OBVIOUS
  <2>2. task'[u].tuples # << >> => task'[u].handle \in Threads
    <3>1. CASE u = t
      <4>1. offset[h] \in Nat /\ Len(materializers[h]) \in Nat
        BY <1>1
      <4>2. offset[h] >= Len(materializers[h]) \/ offset[h] < Len(materializers[h])
        BY <4>1
      <4> QED BY <1>1, <1>4, <1>8, <3>1, <4>2
    <3>2. CASE u # t
      BY <1>4, <1>8, <2>1, <3>2 DEF WorkerInv
    <3> QED BY <3>1, <3>2
  <2>3. ASSUME NEW v \in Threads, v < task'[u].handle PROVE offset'[v] >= Len(materializers[v])
    <3>1. v < task[u].handle \/ (v = h /\ offset[h] >= Len(materializers[h]))
      <4>1. h \in Int /\ v \in Int /\ Len(materializers[h]) \in Nat /\ offset[h] \in Nat
        BY <1>0, <1>1 DEF Threads
      <4>2. CASE u # t
        <5>1. task'[u] = task[u]
          BY <1>4, <4>2
        <5> QED BY <2>3, <5>1
      <4>3. CASE u = t /\ offset[h] >= Len(materializers[h])
        <5>1. task'[t].handle = h + 1
          BY <1>4, <4>3
        <5>2. v < h + 1
          BY <2>3, <4>3, <5>1
        <5>3. v < h \/ v = h
          <6> HIDE DEF h
          <6> QED BY <4>1, <5>2
        <5> QED BY <4>3, <5>3
      <4>4. CASE u = t /\ offset[h] < Len(materializers[h])
        <5>1. task'[t].handle = h
          BY <1>4, <4>4
        <5> QED BY <2>3, <4>4, <5>1
      <4> QED BY <4>1, <4>2, <4>3, <4>4
    <3>2. offset[v] >= Len(materializers[v])
      BY <2>1, <3>1 DEF WorkerInv
    <3>3. offset'[v] >= offset[v] /\ offset'[v] \in Nat /\ Len(materializers[v]) \in Nat
      BY <1>1, <1>2, SMTT(60)
    <3> QED BY <3>2, <3>3, <1>1
  <2>4. Slots' = Slots
    BY DEF PullChunk, tableVars, Slots
  <2> QED BY <1>8, <2>1, <2>2, <2>3, <2>4 DEF WorkerInv, InCall, BuildFn
<1> QED BY <1>6, <1>7, <1>9

(* The call a worker starts for the next row of its chunk is typed. *)
LEMMA BaseInsertTuple ==
  ASSUME BaseInv, NEW t \in Threads, InsertTuple(t)
  PROVE  BaseInv'
<1> DEFINE k == Head(task[t].tuples)
           c == [fn |-> BuildFn, key |-> k, idx |-> Home(k), pc |-> "load"]
<1> USE DEF BaseInv
<1>1. /\ k \in Keys /\ Tail(task[t].tuples) \in Seq(Keys)
      /\ task \in [Threads -> [handle : 0 .. NumThreads, tuples : Seq(Keys)]]
  BY DEF InsertTuple, TypeOK
<1>2. TableTypeOK /\ IsFiniteSet(Slots) /\ Slots # {} /\ phase = "insert" /\ phase' = "insert"
  BY DEF InsertTuple, TypeOK, PhaseInv
<1>3. c \in [fn : Fns, key : Keys, idx : Nat, pc : CallPcs] /\ c.idx \in Slots
  <2>1. Home(k) \in Slots /\ Home(k) \in Nat
    BY <1>1, <1>2, SlotNumbers
  <2> QED BY <1>1, <2>1 DEF BuildFn, Fns, CallPcs
<1>4. /\ call' = [call EXCEPT ![t] = c] /\ hash' = hash /\ tags' = tags /\ rows' = rows
      /\ task' = [task EXCEPT ![t].tuples = Tail(@)]
  BY DEF InsertTuple, StartCall
<1>5. TableTypeOK'
  BY <1>2, <1>3, <1>4 DEF TableTypeOK, Slots, InCall
<1>6. task' \in [Threads -> [handle : 0 .. NumThreads, tuples : Seq(Keys)]]
  BY <1>1, <1>4
<1>7. TypeOK'
  BY <1>5, <1>6 DEF InsertTuple, TypeOK, inputVars, probeVars, restVars
<1>8. PhaseInv'
  BY <1>4 DEF PhaseInv, InsertTuple, inputVars, probeVars, restVars, Slots, Outer
<1>9. ASSUME NEW u \in Threads PROVE WorkerInv(u)'
  <2>1. WorkerInv(u) /\ task[t].tuples # << >> /\ task[t].handle \in Threads
    BY <1>2 DEF InsertTuple, WorkerInv
  <2>2. task'[u].handle = task[u].handle
    BY <1>1, <1>4
  <2>3. task'[u].tuples # << >> => task'[u].handle \in Threads
    BY <1>1, <1>2, <1>4, <2>1 DEF WorkerInv
  <2>4. u = t => call'[u].fn = BuildFn /\ call'[u].pc = "load"
    BY <1>2, <1>4 DEF TableTypeOK
  <2>5. u # t => call'[u] = call[u]
    BY <1>2, <1>4 DEF TableTypeOK
  <2>6. /\ kind' = kind /\ offset' = offset /\ materializers' = materializers
        /\ probing' = probing
    BY DEF InsertTuple, inputVars, probeVars
  <2>7. Slots' = Slots
    BY <1>4 DEF Slots
  <2> QED BY <1>2, <2>1, <2>2, <2>3, <2>4, <2>5, <2>6, <2>7 DEF WorkerInv, InCall, BuildFn
<1> QED BY <1>7, <1>8, <1>9

(* The end of the build keeps the types. *)
LEMMA BaseFinishInsert ==
  ASSUME BaseInv, FinishInsert
  PROVE  BaseInv'
<1> USE DEF BaseInv
<1>1. TypeOK'
  BY DEF TypeOK, FinishInsert, tableVars, inputVars, buildVars, probeVars, restVars,
     TableTypeOK, Slots, InCall
<1>2. PhaseInv'
  BY DEF PhaseInv, FinishInsert, tableVars, inputVars, buildVars, probeVars, restVars, Slots
<1>3. ASSUME NEW t \in Threads PROVE WorkerInv(t)'
  <2>1. /\ phase = "insert" /\ phase' = "probe" /\ call' = call /\ offset' = offset
        /\ task' = task /\ materializers' = materializers /\ probing' = probing
        /\ task[t].handle \notin Threads /\ ~InCall(t)
    BY DEF FinishInsert, tableVars, buildVars, probeVars
  <2>2. task[t].handle \in 0 .. NumThreads /\ NumThreads \in Nat \ {0}
    BY AtomicTableAssumption DEF TypeOK
  <2>3. task[t].handle = NumThreads
    BY <2>1, <2>2 DEF Threads
  <2>4. Slots' = Slots
    BY DEF FinishInsert, tableVars, Slots
  <2> QED BY <2>1, <2>3, <2>4 DEF WorkerInv, InCall
<1> QED BY <1>1, <1>2, <1>3

(* The lookup a worker starts for the next probe row is typed. *)
LEMMA BaseProbe ==
  ASSUME BaseInv, NEW t \in Threads, Probe(t)
  PROVE  BaseInv'
<1> DEFINE k == probe[nextProbe + 1]
           c == [fn |-> ProbeFn, key |-> k, idx |-> Home(k), pc |-> "load"]
<1> USE DEF BaseInv
<1>1. k \in Keys /\ nextProbe + 1 \in 1 .. Len(probe)
  BY Inputs DEF Probe, TypeOK
<1>2. TableTypeOK /\ IsFiniteSet(Slots) /\ Slots # {} /\ phase = "probe" /\ phase' = "probe"
  BY DEF Probe, TypeOK, PhaseInv
<1>3. c \in [fn : Fns, key : Keys, idx : Nat, pc : CallPcs] /\ c.idx \in Slots
  <2>1. Home(k) \in Slots /\ Home(k) \in Nat
    BY <1>1, <1>2, SlotNumbers
  <2> QED BY <1>1, <2>1 DEF ProbeFn, Fns, CallPcs
<1>4. /\ call' = [call EXCEPT ![t] = c] /\ hash' = hash /\ tags' = tags /\ rows' = rows
      /\ probing' = [probing EXCEPT ![t] = nextProbe + 1]
  BY DEF Probe, StartCall
<1>5. TableTypeOK'
  BY <1>2, <1>3, <1>4 DEF TableTypeOK, Slots, InCall
<1>6. TypeOK'
  BY <1>1, <1>4, <1>5 DEF Probe, TypeOK, inputVars, buildVars, restVars
<1>7. PhaseInv'
  BY <1>4 DEF PhaseInv, Probe, inputVars, buildVars, restVars, Slots, Outer
<1>8. ASSUME NEW u \in Threads PROVE WorkerInv(u)'
  <2>1. WorkerInv(u)
    OBVIOUS
  <2>2. u = t => call'[u].pc = "load" /\ probing'[u] = nextProbe + 1
    BY <1>2, <1>4 DEF TableTypeOK, TypeOK
  <2>3. u # t => call'[u] = call[u] /\ probing'[u] = probing[u]
    BY <1>2, <1>4 DEF TableTypeOK, TypeOK
  <2>4. offset' = offset /\ materializers' = materializers /\ task' = task
    BY DEF Probe, buildVars
  <2>5. Slots' = Slots
    BY <1>4 DEF Slots
  <2> QED BY <1>1, <1>2, <2>1, <2>2, <2>3, <2>4, <2>5 DEF WorkerInv, InCall
<1> QED BY <1>6, <1>7, <1>8

(* The end of a lookup and the row it emits keep the types. *)
LEMMA BaseFinishProbe ==
  ASSUME BaseInv, NEW t \in Threads, FinishProbe(t)
  PROVE  BaseInv'
<1> USE DEF BaseInv
<1>1. /\ phase = "probe" /\ phase' = "probe" /\ probing' = [probing EXCEPT ![t] = 0]
      /\ hash' = hash /\ tags' = tags /\ rows' = rows /\ call' = call /\ offset' = offset
      /\ materializers' = materializers /\ task' = task
  BY DEF FinishProbe, WorkerInv, tableVars, buildVars
<1>2. probing \in [Threads -> 0 .. Len(probe)] /\ found \in [DOMAIN probe -> Keys \cup {NoRow}]
  BY DEF TypeOK
<1>3. probing' \in [Threads -> 0 .. Len(probe)]
  BY <1>1, <1>2, Inputs DEF TypeOK
<1>4. found' \in [DOMAIN probe -> Keys \cup {NoRow}]
  <2> DEFINE result == IF call[t].pc = "found" THEN rows[call[t].idx] ELSE NoRow
  <2>1. result \in Keys \cup {NoRow}
    BY DEF WorkerInv, TypeOK, TableTypeOK
  <2>2. found' = [found EXCEPT ![probing[t]] = result]
    BY DEF FinishProbe
  <2> HIDE DEF result
  <2> QED BY <1>2, <2>1, <2>2
<1>5. TypeOK'
  BY <1>1, <1>3, <1>4 DEF FinishProbe, TypeOK, inputVars, buildVars, restVars,
     TableTypeOK, Slots, InCall
<1>6. PhaseInv'
  BY <1>1 DEF PhaseInv, FinishProbe, inputVars, buildVars, restVars, Slots, Outer
<1>7. ASSUME NEW u \in Threads PROVE WorkerInv(u)'
  <2>1. WorkerInv(u)
    OBVIOUS
  <2>2. u # t => probing'[u] = probing[u]
    BY <1>1, <1>2
  <2>3. ~InCall(t)
    BY DEF FinishProbe, InCall
  <2> QED BY <1>1, <2>1, <2>2, <2>3 DEF WorkerInv, InCall, Slots
<1> QED BY <1>5, <1>6, <1>7

(* A step of a call on the table keeps the table typed and its index among
   the slots. *)
LEMMA BaseCallStep ==
  ASSUME BaseInv, NEW t \in Threads, CallStep(t), JoinUnchanged
  PROVE  BaseInv'
<1> DEFINE c == call[t]
<1> USE DEF BaseInv
<1>1. /\ phase' = phase /\ kind' = kind /\ offset' = offset /\ task' = task
      /\ materializers' = materializers /\ probing' = probing
  BY DEF JoinUnchanged, inputVars, buildVars, probeVars
<1>2. TableTypeOK /\ IsFiniteSet(Slots) /\ c \in Calls /\ InCall(t)
  BY DEF TypeOK, PhaseInv, TableTypeOK, Calls, CallStep, LoadTag, Exchange, Populate, Mark,
     InCall, Returned
<1>3. phase # "build" /\ Slots # {}
  BY <1>2 DEF WorkerInv, InCall, PhaseInv
<1>4. /\ TableTypeOK' /\ Slots' = Slots /\ hash' = hash /\ c.idx \in Slots
      /\ \A u \in Threads \ {t} : call'[u] = call[u]
      /\ call'[t].fn = c.fn /\ call'[t].key = c.key
  BY <1>2, <1>3, CallSteps DEF WorkerInv
<1>5. TypeOK'
  BY <1>4 DEF TypeOK, JoinUnchanged, inputVars, buildVars, probeVars, restVars
<1>6. PhaseInv'
  BY <1>4 DEF PhaseInv, JoinUnchanged, inputVars, buildVars, probeVars, restVars, Outer
<1>7. /\ call'[t].pc = "exchange" => c.fn \in {"insert", "insertOuter", "lookupDisable"}
      /\ call'[t].pc = "found" => call'[t].idx \in Slots
      /\ call'[t].pc = "mark" => c.fn \notin {"insert", "insertOuter"}
  <2> USE CallFields DEF CallPcs, Returned
  <2>1. CASE LoadTag(t)
    BY <1>2, <1>4, <2>1, LoadOutcomes
  <2>2. CASE Exchange(t)
    BY <1>2, <1>3, <1>4, <2>2, WriteOutcomes DEF Exchanged
  <2>3. CASE Populate(t)
    BY <1>2, <1>3, <1>4, <2>3, WriteOutcomes
  <2>4. CASE Mark(t)
    BY <1>2, <1>3, <1>4, <2>4, WriteOutcomes
  <2> QED BY <2>1, <2>2, <2>3, <2>4 DEF CallStep
<1>8. ASSUME NEW u \in Threads PROVE WorkerInv(u)'
  <2>1. WorkerInv(u)
    OBVIOUS
  <2>2. CASE u # t
    BY <1>1, <1>4, <2>1, <2>2 DEF WorkerInv, InCall, BuildFn
  <2>3. CASE u = t
    BY <1>1, <1>2, <1>3, <1>4, <1>7, <2>1, <2>3 DEF WorkerInv, InCall, BuildFn
  <2> QED BY <2>2, <2>3
<1> QED BY <1>5, <1>6, <1>8

(* The iterator goes to the next row without a mark, or past the last slot. *)
LEMMA NextUnmarkedIs ==
  ASSUME TableTypeOK, IsFiniteSet(Slots), NEW last \in Int
  PROVE  LET next == NextUnmarked(last) IN
         /\ next \in Nat
         /\ next \in Slots => Unmatched(next) /\ next > last
         /\ \A s \in Slots : s > last /\ s < next => ~Unmatched(s)
         /\ next \notin Slots => \A s \in Slots : s < next
<1> DEFINE later == {s \in Slots : s > last /\ tags[s].fill /\ ~tags[s].mark}
           next == NextUnmarked(last)
<1>1. Cardinality(Slots) \in Nat /\ Slots = 0 .. Cardinality(Slots) - 1
  BY SlotNumbers
<1>2. CASE later = {}
  <2>1. next = Cardinality(Slots)
    BY <1>2 DEF NextUnmarked
  <2> QED BY <1>1, <1>2, <2>1 DEF Unmatched
<1>3. CASE later # {}
  <2>1. later \in SUBSET Nat
    BY <1>1
  <2>2. \E m \in later : \A n \in later : m <= n
    <3> HIDE DEF later
    <3> QED BY <1>3, <2>1, LeastNatural
  <2>3. next \in later /\ \A n \in later : next <= n
    BY <1>3, <2>2 DEF NextUnmarked, Min
  <2>4. \A s \in Slots : s > last /\ s < next => ~Unmatched(s)
    <3> SUFFICES ASSUME NEW s \in Slots, s > last, s < next, Unmatched(s) PROVE FALSE
      OBVIOUS
    <3>1. s \in later
      BY DEF Unmatched
    <3>2. next <= s /\ s \in Int /\ next \in Int
      BY <1>1, <2>3, <3>1
    <3> QED BY <3>2
  <2> QED BY <1>1, <2>1, <2>3, <2>4 DEF Unmatched
<1> QED BY <1>2, <1>3

(* The end of the probe keeps the types. *)
LEMMA BaseProbeEnds ==
  ASSUME BaseInv, ProbeEnds
  PROVE  BaseInv'
<1> USE DEF BaseInv
<1>1. cursor' \in Nat
  <2>1. TableTypeOK /\ IsFiniteSet(Slots) /\ -1 \in Int /\ cursor \in Nat
    BY DEF TypeOK, PhaseInv
  <2>2. NextUnmarked(-1) \in Nat
    BY <2>1, NextUnmarkedIs
  <2> QED BY <2>1, <2>2 DEF ProbeEnds
<1>2. TypeOK'
  BY <1>1 DEF TypeOK, ProbeEnds, tableVars, inputVars, buildVars, probeVars,
     TableTypeOK, Slots, InCall
<1>3. PhaseInv'
  BY DEF PhaseInv, ProbeEnds, tableVars, inputVars, buildVars, probeVars, Slots, Outer
<1>4. /\ phase = "probe" /\ phase' \in {"rest", "done"} /\ call' = call /\ offset' = offset
      /\ task' = task /\ materializers' = materializers /\ probing' = probing /\ tags' = tags
      /\ \A t \in Threads : probing[t] = 0
  BY DEF ProbeEnds, tableVars, buildVars, probeVars
<1>5. \A t \in Threads : WorkerInv(t)'
  BY <1>4 DEF WorkerInv, InCall, Slots
<1> QED BY <1>2, <1>3, <1>5

(* The scan of the unmatched build rows keeps the types. *)
LEMMA BaseEmitRest ==
  ASSUME BaseInv, EmitRest
  PROVE  BaseInv'
<1> USE DEF BaseInv
<1>1. cursor' \in Nat /\ rest' \in [Keys -> Nat]
  <2>1. TableTypeOK /\ IsFiniteSet(Slots) /\ cursor \in Nat /\ rest \in [Keys -> Nat]
    BY DEF TypeOK, PhaseInv
  <2>2. NextUnmarked(cursor) \in Nat
    BY <2>1, NextUnmarkedIs
  <2> QED BY <2>1, <2>2 DEF EmitRest, restVars
<1>2. TypeOK'
  BY <1>1 DEF TypeOK, EmitRest, tableVars, inputVars, buildVars, probeVars,
     TableTypeOK, Slots, InCall
<1>3. PhaseInv'
  BY DEF PhaseInv, EmitRest, tableVars, inputVars, buildVars, probeVars, Slots, Outer
<1>4. /\ phase = "rest" /\ phase' \in {"rest", "done"} /\ call' = call /\ offset' = offset
      /\ task' = task /\ materializers' = materializers /\ probing' = probing /\ tags' = tags
  BY DEF EmitRest, tableVars, buildVars, probeVars
<1>5. \A t \in Threads : WorkerInv(t)'
  BY <1>4 DEF WorkerInv, InCall, Slots
<1> QED BY <1>2, <1>3, <1>5

(* A stuttering step keeps the types. *)
LEMMA BaseStutter ==
  ASSUME BaseInv, UNCHANGED vars
  PROVE  BaseInv'
<1> USE DEF BaseInv, vars, tableVars, inputVars, buildVars, probeVars, restVars
<1>1. TypeOK'
  BY DEF TypeOK, TableTypeOK, Slots, InCall
<1>2. PhaseInv'
  BY DEF PhaseInv, Slots, Outer
<1>3. \A t \in Threads : WorkerInv(t)'
  BY DEF WorkerInv, InCall, Slots, BuildFn
<1> QED BY <1>1, <1>2, <1>3

(* Every step keeps the types. *)
LEMMA BaseStep == BaseInv /\ [Next]_vars => BaseInv'
<1> SUFFICES ASSUME BaseInv, [Next]_vars PROVE BaseInv'
  OBVIOUS
<1>1. ASSUME NEW t \in Threads, WorkerStep(t) PROVE BaseInv'
  BY <1>1, BaseMaterialize, BasePullChunk, BaseInsertTuple, BaseProbe, BaseFinishProbe,
     BaseCallStep DEF WorkerStep
<1>2. CASE DriverStep
  BY <1>2, BaseAllocate, BaseFinishInsert, BaseProbeEnds, BaseEmitRest DEF DriverStep
<1>3. CASE UNCHANGED vars
  BY <1>3, BaseStutter
<1> QED BY <1>1, <1>2, <1>3 DEF Next

(* Every variable of the join and of its table keeps its type: no worker   *)
(* reads past a chunk, probes past the table or finds a row that is none.  *)
THEOREM TypeCorrect == Spec => []TypeOK
<1>1. Init => BaseInv
  BY BaseInit
<1>2. BaseInv /\ [Next]_vars => BaseInv'
  BY BaseStep
<1>3. BaseInv => TypeOK
  BY DEF BaseInv
<1> QED BY <1>1, <1>2, <1>3, PTL DEF Spec

-----------------------------------------------------------------------------
(* Chunks.                                                                 *)

(* The chunks of a worker after it materialized one more row: nothing but  *)
(* that row is new, in a place that was free.                              *)
WithRow(chunks, row) ==
  LET last == Len(chunks)
  IN  IF Len(chunks[last]) + 1 > TuplesPerChunk
        THEN Append(chunks, <<row>>)
        ELSE [chunks EXCEPT ![last] = Append(@, row)]
Entry(chunks, c, i, k) == c \in DOMAIN chunks /\ i \in DOMAIN chunks[c] /\ chunks[c][i] = k
Grown(chunks, new, row) ==
  /\ new \in Seq(Seq(Keys)) /\ Len(new) \in {Len(chunks), Len(chunks) + 1}
  /\ \A c \in DOMAIN chunks : Len(new[c]) \in {Len(chunks[c]), Len(chunks[c]) + 1}
  /\ \A c \in DOMAIN new \ DOMAIN chunks : Len(new[c]) = 1
  /\ \E C \in 1 .. Len(new), I \in Nat :
       /\ ~(C \in DOMAIN chunks /\ I \in DOMAIN chunks[C])
       /\ I \in DOMAIN new[C]
       /\ \A c \in Nat, i \in Nat, k \in Keys :
            Entry(new, c, i, k) <=> \/ Entry(chunks, c, i, k)
                                    \/ c = C /\ i = I /\ k = row
  /\ RowsOf(new) = RowsOf(chunks) + 1

(* A materialized row fills the last chunk or opens a new one, and adds one
   row. *)
LEMMA RowAdded ==
  ASSUME NEW chunks \in Seq(Seq(Keys)), chunks # << >>, NEW row \in Keys,
         NEW new, new = WithRow(chunks, row)
  PROVE  Grown(chunks, new, row)
<1> DEFINE last == Len(chunks)
<1>1. /\ last \in Nat \ {0} /\ last \in DOMAIN chunks /\ DOMAIN chunks = 1 .. last
      /\ \A c \in 1 .. last : /\ chunks[c] \in Seq(Keys) /\ Len(chunks[c]) \in Nat
                              /\ DOMAIN chunks[c] = 1 .. Len(chunks[c])
  OBVIOUS
<1>2. CASE Len(chunks[last]) + 1 > TuplesPerChunk
  <2>1. new = Append(chunks, <<row>>)
    BY <1>2 DEF WithRow
  <2>2. /\ new \in Seq(Seq(Keys)) /\ Len(new) = last + 1 /\ DOMAIN new = 1 .. last + 1
        /\ \A c \in 1 .. last : new[c] = chunks[c]
        /\ new[last + 1] = <<row>>
    <3>1. <<row>> \in Seq(Keys)
      OBVIOUS
    <3> QED BY <1>1, <2>1, <3>1
  <2>3. Len(<<row>>) = 1 /\ DOMAIN <<row>> = {1} /\ <<row>>[1] = row
    OBVIOUS
  <2> HIDE DEF last
  <2>4. \A c \in Nat, i \in Nat, k \in Keys :
          Entry(new, c, i, k) <=> \/ Entry(chunks, c, i, k)
                                  \/ c = last + 1 /\ i = 1 /\ k = row
    BY <1>1, <2>2, <2>3 DEF Entry
  <2>5. \E C \in 1 .. Len(new), I \in Nat :
              /\ ~(C \in DOMAIN chunks /\ I \in DOMAIN chunks[C])
              /\ I \in DOMAIN new[C]
              /\ \A c \in Nat, i \in Nat, k \in Keys :
                   Entry(new, c, i, k) <=> \/ Entry(chunks, c, i, k)
                                           \/ c = C /\ i = I /\ k = row
    <3>1. last + 1 \in 1 .. Len(new) /\ 1 \in Nat /\ last + 1 \notin DOMAIN chunks
          /\ 1 \in DOMAIN new[last + 1]
      BY <1>1, <2>2, <2>3
    <3> QED BY <2>4, <3>1, ZenonT(60)
  <2>6. RowsOf(new) = RowsOf(chunks) + 1
    <3> DEFINE S == DOMAIN new
               f == [c \in S |-> Len(new[c])]
               e == [c \in DOMAIN chunks |-> Len(chunks[c])]
               x == last + 1
    <3>1. f \in [S -> Int] /\ IsFiniteSet(S)
      BY <2>2, RowsOfType
    <3>2. x \in S /\ f[x] = 1
      <4>1. x \in S /\ new[x] = <<row>>
        BY <1>1, <2>2
      <4> QED BY <2>3, <4>1
    <3>3. S \ {x} = DOMAIN chunks
      BY <1>1, <2>2
    <3>4. [c \in S \ {x} |-> f[c]] = e
      BY <1>1, <2>2, <3>3
    <3>5. RowsOf(new) = SumFunction(f) /\ RowsOf(chunks) = SumFunction(e)
      BY DEF RowsOf
    <3> HIDE DEF f, e, x, S
    <3>6. /\ SumFunction(f) = f[x] + SumFunction([c \in S \ {x} |-> f[c]])
          /\ SumFunction([c \in S \ {x} |-> f[c]]) \in Int
      BY <3>1, <3>2, SumRemove, ZenonT(60)
    <3>7. SumFunction(f) = 1 + SumFunction(e) /\ SumFunction(e) \in Int
      BY <3>2, <3>4, <3>6
    <3> QED BY <3>5, <3>7
  <2>7. Len(new) \in {Len(chunks), Len(chunks) + 1}
    BY <2>2 DEF last
  <2>8. \A c \in DOMAIN chunks : Len(new[c]) \in {Len(chunks[c]), Len(chunks[c]) + 1}
    BY <1>1, <2>2
  <2>9. \A c \in DOMAIN new \ DOMAIN chunks : Len(new[c]) = 1
    <3>1. DOMAIN new \ DOMAIN chunks = {last + 1}
      BY <1>1, <2>2
    <3> QED BY <2>2, <2>3, <3>1
  <2> QED BY <2>2, <2>5, <2>6, <2>7, <2>8, <2>9 DEF Grown
<1>3. CASE ~(Len(chunks[last]) + 1 > TuplesPerChunk)
  <2> DEFINE longer == Append(chunks[last], row)
             I == Len(chunks[last]) + 1
  <2>1. new = [chunks EXCEPT ![last] = longer]
    BY <1>3 DEF WithRow
  <2>2. /\ longer \in Seq(Keys) /\ Len(longer) = I /\ DOMAIN longer = 1 .. I
        /\ longer[I] = row /\ \A i \in 1 .. I - 1 : longer[i] = chunks[last][i]
        /\ I \in Nat /\ DOMAIN chunks[last] = 1 .. I - 1
    BY <1>1
  <2>3. /\ new \in Seq(Seq(Keys)) /\ Len(new) = last /\ DOMAIN new = 1 .. last
        /\ \A c \in 1 .. last : c # last => new[c] = chunks[c]
        /\ new[last] = longer
    <3> HIDE DEF longer
    <3>1. /\ new \in Seq(Seq(Keys)) /\ Len(new) = last
          /\ \A c \in 1 .. last : new[c] = IF c = last THEN longer ELSE chunks[c]
      BY <1>1, <2>1, <2>2, ExceptSeq
    <3>2. last \in 1 .. last /\ DOMAIN new = 1 .. last
      BY <1>1, <3>1, LenProperties
    <3> HIDE DEF last
    <3> QED BY <3>1, <3>2
  <2> HIDE DEF last, longer, I
  <2>4. \A c \in Nat, i \in Nat, k \in Keys :
          Entry(new, c, i, k) <=> \/ Entry(chunks, c, i, k)
                                  \/ c = last /\ i = I /\ k = row
    <3> SUFFICES ASSUME NEW c \in Nat, NEW i \in Nat, NEW k \in Keys
                 PROVE  Entry(new, c, i, k) <=> \/ Entry(chunks, c, i, k)
                                                \/ c = last /\ i = I /\ k = row
      OBVIOUS
    <3>1. CASE c = last
      <4>1. c \in DOMAIN new /\ c \in DOMAIN chunks /\ new[c] = longer
        BY <1>1, <2>3, <3>1
      <4>2. i \in 1 .. I <=> (i \in 1 .. I - 1 \/ i = I)
        BY <2>2 DEF I
      <4>3. i \in DOMAIN new[c] <=> (i \in DOMAIN chunks[c] \/ i = I)
        BY <2>2, <3>1, <4>1, <4>2
      <4> QED BY <2>2, <3>1, <4>1, <4>3 DEF Entry
    <3>2. CASE c # last
      BY <1>1, <2>3, <3>2 DEF Entry
    <3> QED BY <3>1, <3>2
  <2>5. \E C \in 1 .. Len(new), J \in Nat :
              /\ ~(C \in DOMAIN chunks /\ J \in DOMAIN chunks[C])
              /\ J \in DOMAIN new[C]
              /\ \A c \in Nat, i \in Nat, k \in Keys :
                   Entry(new, c, i, k) <=> \/ Entry(chunks, c, i, k)
                                           \/ c = C /\ i = J /\ k = row
    <3>1. last \in 1 .. Len(new) /\ I \in Nat /\ I \notin DOMAIN chunks[last]
          /\ I \in DOMAIN new[last]
      BY <1>1, <2>2, <2>3 DEF I
    <3> QED BY <2>4, <3>1
  <2>6. RowsOf(new) = RowsOf(chunks) + 1
    <3> DEFINE S == DOMAIN chunks
               f == [c \in S |-> Len(new[c])]
               e == [c \in S |-> Len(chunks[c])]
    <3>1. f \in [S -> Int] /\ e \in [S -> Int] /\ IsFiniteSet(S) /\ DOMAIN new = S
      BY <1>1, <2>3, RowsOfType
    <3>2. last \in S /\ f[last] = e[last] + 1 /\ f[last] \in Int /\ e[last] \in Int
      BY <1>1, <2>2, <2>3 DEF I
    <3>3. \A c \in S \ {last} : e[c] = f[c]
      BY <1>1, <2>3
    <3>4. RowsOf(new) = SumFunction(f) /\ RowsOf(chunks) = SumFunction(e)
      BY <3>1 DEF RowsOf
    <3> HIDE DEF f, e, S
    <3>5. /\ SumFunction(f) = SumFunction(e) - e[last] + f[last]
          /\ SumFunction(e) \in Int /\ SumFunction(f) \in Int
      <4>1. last \in S
        BY <3>2
      <4> QED BY <3>1, <3>3, <4>1, SumChanged, ZenonT(60)
    <3> DEFINE old == SumFunction(e)
               now == SumFunction(f)
               a == e[last]
               b == f[last]
    <3>6. now = old - a + b /\ old \in Int /\ now \in Int /\ a \in Int /\ b = a + 1
      BY <3>2, <3>5
    <3>7. RowsOf(new) = now /\ RowsOf(chunks) = old
      BY <3>4
    <3> HIDE DEF old, now, a, b
    <3>8. now = old + 1
      BY <3>6
    <3> QED BY <3>7, <3>8
  <2>7. Len(new) \in {Len(chunks), Len(chunks) + 1}
    BY <2>3 DEF last
  <2>8. \A c \in DOMAIN chunks : Len(new[c]) \in {Len(chunks[c]), Len(chunks[c]) + 1}
    BY <1>1, <2>2, <2>3 DEF I
  <2>9. \A c \in DOMAIN new \ DOMAIN chunks : Len(new[c]) = 1
    BY <1>1, <2>3
  <2> QED BY <2>3, <2>5, <2>6, <2>7, <2>8, <2>9 DEF Grown
<1> QED BY <1>2, <1>3

(* Before the build no row is materialized. *)
LEMMA ChunksInit == Init => ChunksInv
<1> SUFFICES ASSUME Init PROVE ChunksInv
  OBVIOUS
<1>1. /\ nextBuild = 0 /\ Len(build) \in Nat
      /\ \A t \in Threads : materializers[t] = << << >> >>
  BY Inputs DEF Init
<1>2. /\ Len(<< << >> >>) = 1 /\ DOMAIN << << >> >> = {1} /\ << << >> >>[1] = << >>
      /\ Len(<< >>) = 0 /\ DOMAIN << >> = {}
  OBVIOUS
<1>3. \A t \in Threads : \A c, i, k : ~Holds(t, c, i, k)
  BY <1>1, <1>2 DEF Holds
<1>4. ASSUME NEW t \in Threads
      PROVE  /\ Len(materializers[t]) \in 1 .. nextBuild + 1
             /\ \A c \in DOMAIN materializers[t] : Len(materializers[t][c]) <= nextBuild
  <2> DEFINE chunks == << << >> >>
  <2>1. /\ Len(chunks) = 1 /\ materializers[t] = chunks
        /\ \A c \in DOMAIN chunks : Len(chunks[c]) = 0
    BY <1>1, <1>2
  <2> HIDE DEF chunks
  <2> QED BY <1>1, <2>1
<1> QED BY <1>1, <1>3, <1>4 DEF ChunksInv

(* Materializing a row keeps the chunks full but for the last, and their
   rows counted. *)
LEMMA ChunksMaterialize ==
  ASSUME BaseInv, ChunksInv, NEW t \in Threads, Materialize(t)
  PROVE  ChunksInv' /\ (SizeInv => SizeInv')
<1> DEFINE chunks == materializers[t]
           row == build[nextBuild + 1]
           new == WithRow(chunks, row)
<1> USE DEF BaseInv
<1>1. /\ phase = "build" /\ phase' = "build" /\ build' = build /\ nextBuild' = nextBuild + 1
      /\ nextBuild + 1 \in 1 .. Len(build) /\ nextBuild \in Nat /\ Len(build) \in Nat
      /\ row \in Keys /\ \A j \in 1 .. nextBuild : build[j] # row
  BY Inputs DEF Materialize, TypeOK, inputVars
<1>2. /\ chunks \in Seq(Seq(Keys)) /\ chunks # << >>
      /\ materializers \in [Threads -> Seq(Seq(Keys))]
      /\ materializers' = [materializers EXCEPT ![t] = new]
  <2>1. chunks \in Seq(Seq(Keys)) /\ Len(chunks) \in 1 .. nextBuild + 1
    BY DEF TypeOK, ChunksInv
  <2>2. chunks # << >>
    BY <2>1
  <2> QED BY <2>1, <2>2 DEF Materialize, WithRow, TypeOK
<1>0. Grown(chunks, new, row)
  <2>1. new = WithRow(chunks, row) /\ row \in Keys
    BY <1>1
  <2>2. chunks \in Seq(Seq(Keys)) /\ chunks # << >>
    BY <1>2
  <2> HIDE DEF chunks, row, new
  <2> QED BY <2>1, <2>2, RowAdded
<1> HIDE DEF new
<1>3. /\ new \in Seq(Seq(Keys)) /\ Len(new) \in {Len(chunks), Len(chunks) + 1}
      /\ \A c \in DOMAIN chunks : Len(new[c]) \in {Len(chunks[c]), Len(chunks[c]) + 1}
      /\ \A c \in DOMAIN new \ DOMAIN chunks : Len(new[c]) = 1
      /\ RowsOf(new) = RowsOf(chunks) + 1
  BY <1>0 DEF Grown
<1>4. PICK C \in 1 .. Len(new), I \in Nat :
        /\ ~(C \in DOMAIN chunks /\ I \in DOMAIN chunks[C])
        /\ I \in DOMAIN new[C]
        /\ \A c \in Nat, i \in Nat, k \in Keys :
             Entry(new, c, i, k) <=> \/ Entry(chunks, c, i, k)
                                     \/ c = C /\ i = I /\ k = row
  BY <1>0 DEF Grown
<1>5. /\ \A u \in Threads : materializers'[u] = IF u = t THEN new ELSE materializers[u]
      /\ \A u \in Threads : Len(materializers[u]) \in 1 .. nextBuild + 1
      /\ \A u \in Threads : \A c \in DOMAIN materializers[u] :
           materializers[u][c] \in Seq(Keys) /\ Len(materializers[u][c]) <= nextBuild
  BY <1>2 DEF ChunksInv
<1>6. /\ \A u \in Threads : Len(materializers'[u]) \in 1 .. nextBuild + 2
      /\ \A u \in Threads : \A c \in DOMAIN materializers'[u] :
           Len(materializers'[u][c]) <= nextBuild + 1
  <2>1. Len(new) \in 1 .. nextBuild + 2
    BY <1>1, <1>2, <1>3, <1>5
  <2>2. ASSUME NEW c \in DOMAIN new PROVE Len(new[c]) <= nextBuild + 1
    <3>1. CASE c \in DOMAIN chunks
      <4> DEFINE a == Len(chunks[c])
                 b == Len(new[c])
      <4>1. chunks[c] \in Seq(Keys) /\ a \in Nat /\ a <= nextBuild
        BY <1>5, <3>1
      <4>2. b \in {a, a + 1}
        BY <1>3, <3>1
      <4> HIDE DEF a, b
      <4>3. b <= nextBuild + 1
        BY <1>1, <4>1, <4>2
      <4> QED BY <4>3 DEF b
    <3>2. CASE c \notin DOMAIN chunks
      <4>1. Len(new[c]) = 1
        BY <1>3, <3>2
      <4> QED BY <1>1, <4>1
    <3> QED BY <3>1, <3>2
  <2>3. \A u \in Threads : Len(materializers[u]) \in 1 .. nextBuild + 2
    BY <1>1, <1>5
  <2>4. \A u \in Threads : \A c \in DOMAIN materializers[u] :
          Len(materializers[u][c]) <= nextBuild + 1
    <3> SUFFICES ASSUME NEW u \in Threads, NEW c \in DOMAIN materializers[u]
                 PROVE  Len(materializers[u][c]) <= nextBuild + 1
      OBVIOUS
    <3> DEFINE a == Len(materializers[u][c])
    <3>1. materializers[u][c] \in Seq(Keys) /\ a \in Nat /\ a <= nextBuild
      BY <1>5
    <3> HIDE DEF a
    <3>2. a <= nextBuild + 1
      BY <1>1, <3>1
    <3> QED BY <3>2 DEF a
  <2> QED BY <1>5, <2>1, <2>2, <2>3, <2>4
<1>7. C \in ChunkNos /\ I \in RowNos
  <2>1. C \in Nat \ {0} /\ C <= nextBuild + 2
    BY <1>1, <1>3, <1>5, <1>6
  <2>2. C \in DOMAIN new /\ new[C] \in Seq(Keys)
    BY <1>3, <1>4
  <2>3. Len(new[C]) \in Nat /\ Len(new[C]) <= nextBuild + 1 /\ DOMAIN new[C] = 1 .. Len(new[C])
    BY <1>5, <1>6, <2>2
  <2> QED BY <1>1, <1>4, <2>1, <2>3 DEF ChunkNos, RowNos
<1>8. \A u \in Threads, c \in ChunkNos, i \in RowNos, k \in Keys :
        /\ Holds(u, c, i, k)' <=> \/ Holds(u, c, i, k)
                                  \/ u = t /\ c = C /\ i = I /\ k = row
        /\ ~Holds(t, C, I, k)
        /\ Holds(u, c, i, k) => k # row
  <2> SUFFICES ASSUME NEW u \in Threads, NEW c \in ChunkNos, NEW i \in RowNos, NEW k \in Keys
               PROVE  /\ Holds(u, c, i, k)' <=> \/ Holds(u, c, i, k)
                                                \/ u = t /\ c = C /\ i = I /\ k = row
                      /\ ~Holds(t, C, I, k)
                      /\ Holds(u, c, i, k) => k # row
    OBVIOUS
  <2>1. c \in Nat /\ i \in Nat
    BY <1>1 DEF ChunkNos, RowNos
  <2>2. Holds(u, c, i, k)' <=> Entry(materializers'[u], c, i, k)
    BY DEF Holds, Entry
  <2>3. Holds(u, c, i, k) <=> Entry(materializers[u], c, i, k)
    BY DEF Holds, Entry
  <2>4. Holds(u, c, i, k) => k # row
    BY <1>1 DEF ChunksInv
  <2> QED BY <1>4, <1>5, <2>1, <2>2, <2>3, <2>4 DEF Holds
<1>9. ChunksInv'
  <2>1. ChunkNos' = ChunkNos /\ RowNos' = RowNos
    BY <1>1 DEF ChunkNos, RowNos
  <2>2. \A u \in Threads, c \in ChunkNos, i \in RowNos, k \in Keys :
          Holds(u, c, i, k)' => \E j \in 1 .. nextBuild + 1 : build[j] = k
    BY <1>1, <1>8 DEF ChunksInv
  <2>3. \A j \in 1 .. nextBuild + 1 :
          \E u \in Threads, c \in ChunkNos, i \in RowNos : Holds(u, c, i, build[j])'
    <3> SUFFICES ASSUME NEW j \in 1 .. nextBuild + 1
                 PROVE  \E u \in Threads, c \in ChunkNos, i \in RowNos : Holds(u, c, i, build[j])'
      OBVIOUS
    <3>1. build[j] \in Keys
      BY <1>1, Inputs DEF TypeOK
    <3>2. \A u \in Threads, c \in ChunkNos, i \in RowNos :
            \/ Holds(u, c, i, build[j])
            \/ j = nextBuild + 1 /\ u = t /\ c = C /\ i = I
            => Holds(u, c, i, build[j])'
      BY <1>1, <1>8, <3>1 DEF Holds
    <3>3. CASE j \in 1 .. nextBuild
      BY <3>2, <3>3 DEF ChunksInv
    <3>4. CASE j = nextBuild + 1
      BY <1>7, <3>2, <3>4
    <3> QED BY <1>1, <3>3, <3>4
  <2>4. \A u, v \in Threads, c, d \in ChunkNos, i, j \in RowNos, k \in Keys :
          Holds(u, c, i, k)' /\ Holds(v, d, j, k)' => u = v /\ c = d /\ i = j
    BY <1>8 DEF ChunksInv
  <2>5. (nextBuild + 1) + 1 = nextBuild + 2
    BY <1>1
  <2> QED BY <1>1, <1>6, <2>1, <2>2, <2>3, <2>4, <2>5 DEF ChunksInv
<1>10. ASSUME SizeInv PROVE SizeInv'
  <2> DEFINE f == [u \in Threads |-> RowsOf(materializers[u])]
             g == [u \in Threads |-> RowsOf(materializers'[u])]
             total == SumFunction(f)
             next == SumFunction(g)
             a == f[t]
             b == g[t]
  <2>1. f \in [Threads -> Int] /\ total = TotalRows /\ total = nextBuild
    BY <1>1, <1>2, <1>10, TotalRowsType DEF SizeInv
  <2>2. materializers' \in [Threads -> Seq(Seq(Keys))]
    BY <1>2, <1>3
  <2>3. g \in [Threads -> Int] /\ next = TotalRows'
    <3>1. /\ TotalRows' = SumFunction([u \in Threads |-> RowsOf(materializers[u])])'
          /\ \A u \in Threads : RowsOf(materializers'[u]) \in Nat
      BY <2>2, RowsOfType DEF TotalRows, RowsOf
    <3> QED BY <3>1 DEF RowsOf
  <2>4. a \in Int /\ b \in Int /\ b = a + 1 /\ \A u \in Threads \ {t} : f[u] = g[u]
    BY <1>2, <1>3, <1>5, RowsOfType
  <2>5. next = total - a + b /\ total \in Int /\ next \in Int
    <3> HIDE DEF f, g
    <3> QED BY <2>1, <2>3, <2>4, SumChanged, ThreadsFinite
  <2>6. next = nextBuild + 1
    <3> HIDE DEF f, g, total, next, a, b
    <3> QED BY <1>1, <2>1, <2>4, <2>5
  <2> QED BY <1>1, <2>3, <2>6 DEF SizeInv
<1> QED BY <1>9, <1>10

(* What each action leaves alone.                                          *)
Framed ==
  /\ kind' = kind /\ build' = build /\ probe' = probe /\ hash' = hash
  /\ \/ \E t \in Threads : Materialize(t)
     \/ materializers' = materializers /\ nextBuild' = nextBuild
  /\ \/ AllocHashTable
     \/ Slots' = Slots /\ (phase' = "build" <=> phase = "build")

(* After the allocation no step changes the materializers or the slots. *)
LEMMA Frame ==
  ASSUME BaseInv, [Next]_vars
  PROVE  Framed
<1>1. ASSUME NEW t \in Threads, WorkerStep(t) PROVE Framed
  <2>1. CASE Materialize(t)
    BY <2>1 DEF Framed, Materialize,
       tableVars, inputVars, buildVars, Slots
  <2>2. CASE PullChunk(t)
    BY <2>2 DEF Framed, PullChunk,
       tableVars, inputVars, buildVars, Slots
  <2>3. CASE InsertTuple(t)
    BY <2>3 DEF Framed, InsertTuple,
       tableVars, inputVars, buildVars, Slots
  <2>4. CASE Probe(t)
    BY <2>4 DEF Framed, Probe,
       tableVars, inputVars, buildVars, Slots
  <2>5. CASE FinishProbe(t)
    BY <2>5 DEF Framed, FinishProbe,
       tableVars, inputVars, buildVars, Slots
  <2>6. CASE CallStep(t) /\ JoinUnchanged
    <3>1. TableTypeOK /\ IsFiniteSet(Slots) /\ WorkerInv(t) /\ PhaseInv
      BY DEF BaseInv, TypeOK, PhaseInv
    <3>2. Slots # {}
      BY <2>6, <3>1 DEF WorkerInv, PhaseInv, CallStep, LoadTag, Exchange, Populate, Mark
    <3>3. Slots' = Slots /\ hash' = hash
      BY <2>6, <3>1, <3>2, CallSteps DEF WorkerInv
    <3> QED BY <2>6, <3>3 DEF Framed, JoinUnchanged, inputVars, buildVars
  <2> QED BY <1>1, <2>1, <2>2, <2>3, <2>4, <2>5, <2>6 DEF WorkerStep
<1>2. CASE DriverStep
  BY <1>2 DEF Framed, DriverStep, AllocHashTable, FinishInsert, ProbeEnds, EmitRest,
     tableVars, inputVars, buildVars, Slots
<1>3. CASE UNCHANGED vars
  BY <1>3 DEF Framed, vars, tableVars, inputVars, buildVars, Slots
<1> QED BY <1>1, <1>2, <1>3 DEF Next

(* Every step keeps the chunks and the size of the table. *)
LEMMA ChunksStep == BaseInv /\ ChunksInv /\ SizeInv /\ [Next]_vars => ChunksInv' /\ SizeInv'
<1> SUFFICES ASSUME BaseInv, ChunksInv, SizeInv, [Next]_vars PROVE ChunksInv' /\ SizeInv'
  OBVIOUS
<1>1. CASE \E t \in Threads : Materialize(t)
  BY <1>1, ChunksMaterialize
<1>2. CASE ~ \E t \in Threads : Materialize(t)
  <2>1. build' = build /\ materializers' = materializers /\ nextBuild' = nextBuild
    BY <1>2, Frame DEF Framed
  <2>2. ChunksInv'
    <3>1. \A t \in Threads, c \in ChunkNos, i \in RowNos : \A k :
            Holds(t, c, i, k)' <=> Holds(t, c, i, k)
      BY <2>1 DEF Holds
    <3>2. ChunkNos' = ChunkNos /\ RowNos' = RowNos
      BY <2>1 DEF ChunkNos, RowNos
    <3>3. \A t \in Threads, c \in ChunkNos, i \in RowNos : \A j :
            Holds(t, c, i, build[j])' <=> Holds(t, c, i, build[j])
      BY <2>1 DEF Holds
    <3> QED BY <2>1, <3>1, <3>2, <3>3 DEF ChunksInv
  <2>3. TotalRows' = TotalRows
    BY <2>1 DEF TotalRows
  <2>4. CASE AllocHashTable
    <3>1. /\ Cardinality(Slots') = TotalSlots(TotalRows) /\ TotalRows = Len(build)
          /\ phase' = "insert" /\ TotalRows \in Nat
      BY <2>4, BaseAllocate, TotalRowsType DEF AllocHashTable, SizeInv, BaseInv, TypeOK
    <3>2. TotalSlots(TotalRows) >= 2 * TotalRows
      BY <3>1, TotalSlotsEnough
    <3> QED BY <2>1, <2>2, <3>1, <3>2 DEF SizeInv
  <2>5. CASE ~AllocHashTable
    <3>1. Slots' = Slots /\ (phase' = "build" <=> phase = "build")
      BY <2>5, Frame DEF Framed
    <3> QED BY <2>1, <2>2, <2>3, <3>1 DEF SizeInv
  <2> QED BY <2>4, <2>5
<1> QED BY <1>1, <1>2

(* At the start there is no table whose size could be wrong. *)
LEMMA SizeInit == Init => SizeInv
<1> SUFFICES ASSUME Init PROVE SizeInv
  OBVIOUS
<1>1. phase = "build" /\ nextBuild = 0 /\ materializers \in [Threads -> Seq(Seq(Keys))]
  BY DEF Init
<1>2. ASSUME NEW t \in Threads PROVE RowsOf(materializers[t]) = 0
  <2> DEFINE chunks == << << >> >>
             f == [c \in DOMAIN chunks |-> Len(chunks[c])]
  <2>1. materializers[t] = chunks
    BY DEF Init
  <2>2. DOMAIN chunks = 1 .. 1 /\ \A c \in DOMAIN chunks : Len(chunks[c]) = 0
    OBVIOUS
  <2> HIDE DEF chunks
  <2>3. IsFiniteSet(DOMAIN chunks)
    <3>1. \A n \in Nat : IsFiniteSet(1 .. n)
      BY FS_Interval
    <3> QED BY <2>2, <3>1
  <2>4. f \in [DOMAIN chunks -> Int] /\ \A c \in DOMAIN chunks : f[c] = 0
    BY <2>2
  <2> HIDE DEF f
  <2>5. SumFunction(f) = 0
    BY <2>3, <2>4, SumZero
  <2> QED BY <2>1, <2>5 DEF RowsOf, f
<1> DEFINE total == [t \in Threads |-> RowsOf(materializers[t])]
<1>3. total \in [Threads -> Int] /\ \A t \in Threads : total[t] = 0
  BY <1>2
<1>4. TotalRows = SumFunction(total)
  BY <1>1, TotalRowsType
<1> HIDE DEF total
<1>5. SumFunction(total) = 0
  BY <1>3, ThreadsFinite, SumZero
<1> QED BY <1>1, <1>4, <1>5 DEF SizeInv

-----------------------------------------------------------------------------
(* Pulled rows.                                                            *)

(* Nothing is pulled before there is a table.                              *)
LEMMA NothingPulled ==
  ASSUME BaseInv, phase = "build"
  PROVE  PulledInv /\ ApartInv
<1>1. Slots = {} /\ \A t \in Threads : task[t].tuples = << >> /\ offset[t] = 0
  BY DEF BaseInv, PhaseInv, WorkerInv
<1>2. \A k \in Keys : ~Pulled(k)
  BY <1>1 DEF Pulled, ChunkNos
<1>3. \A k \in Keys, t \in Threads, i \in RowNos : ~InTask(k, t, i)
  BY <1>1 DEF InTask
<1>4. \A k \in Keys, t \in Threads : ~Inserting(k, t)
  BY DEF Inserting
<1>5. \A t \in Threads : Len(task[t].tuples) <= Len(build)
  <2>1. Len(build) \in Nat /\ Len(<< >>) = 0
    BY Inputs DEF BaseInv, TypeOK
  <2> QED BY <1>1, <2>1
<1>6. PulledInv
  BY <1>1, <1>2, <1>3, <1>4, <1>5 DEF PulledInv
<1>7. ApartInv
  BY <1>1, <1>3, <1>4 DEF ApartInv
<1> QED BY <1>6, <1>7

(* Steps that move no row.                                                 *)
LEMMA NoRowMoves ==
  ASSUME PulledInv, ApartInv, Slots' = Slots, build' = build,
         \A t \in Threads : Len(task'[t].tuples) <= Len(build),
         \A k \in Keys : Pulled(k)' <=> Pulled(k),
         \A k \in Keys, t \in Threads, i \in RowNos : InTask(k, t, i)' <=> InTask(k, t, i),
         \A k \in Keys, t \in Threads : Inserting(k, t)' <=> Inserting(k, t),
         \A k \in Keys, s \in Slots : InSlot(k, s)' <=> InSlot(k, s)
  PROVE  PulledInv' /\ ApartInv'
<1>1. RowNos' = RowNos
  BY DEF RowNos
<1>2. PulledInv'
  BY <1>1 DEF PulledInv
<1>3. ApartInv'
  BY <1>1 DEF ApartInv
<1> QED BY <1>2, <1>3

(* A worker pulls a chunk: its rows move from the chunk to the task.       *)
LEMMA ChunkPulled ==
  ASSUME IInv, NEW t \in Threads, PullChunk(t)
  PROVE  PulledInv' /\ ApartInv'
<1> DEFINE h == task[t].handle
           C == offset[h] + 1
<1>1. /\ h \in Threads /\ task[t].tuples = << >> /\ ~InCall(t) /\ phase = "insert"
      /\ offset \in [Threads -> Nat] /\ materializers \in [Threads -> Seq(Seq(Keys))]
      /\ task \in [Threads -> [handle : 0 .. NumThreads, tuples : Seq(Keys)]]
      /\ Len(materializers[h]) \in Nat /\ offset[h] \in Nat /\ Len(build) \in Nat
  <2>1. /\ offset \in [Threads -> Nat] /\ materializers \in [Threads -> Seq(Seq(Keys))]
        /\ task \in [Threads -> [handle : 0 .. NumThreads, tuples : Seq(Keys)]]
        /\ Len(build) \in Nat
    BY Inputs DEF IInv, BaseInv, TypeOK
  <2>2. /\ h \in Threads /\ task[t].tuples = << >> /\ ~InCall(t) /\ phase = "insert"
    BY DEF PullChunk
  <2> HIDE DEF h
  <2>3. materializers[h] \in Seq(Seq(Keys)) /\ offset[h] \in Nat
    BY <2>1, <2>2
  <2> QED BY <2>1, <2>2, <2>3 DEF h
<1>2. /\ offset' = [offset EXCEPT ![h] = @ + 1] /\ materializers' = materializers
      /\ build' = build /\ phase' = phase /\ call' = call /\ tags' = tags /\ rows' = rows
      /\ task' = [task EXCEPT ![t] = IF offset[h] >= Len(materializers[h])
                     THEN [task[t] EXCEPT !.handle = h + 1]
                     ELSE [task[t] EXCEPT !.tuples = materializers[h][offset[h] + 1]]]
  BY DEF PullChunk, tableVars, inputVars
<1>3. /\ Slots' = Slots /\ RowNos' = RowNos /\ ChunkNos' = ChunkNos
      /\ \A k \in Keys, u \in Threads : Inserting(k, u)' <=> Inserting(k, u)
      /\ \A k \in Keys, s \in Slots : InSlot(k, s)' <=> InSlot(k, s)
  BY <1>2 DEF Slots, RowNos, ChunkNos, Inserting, InCall, InSlot
<1>4. \A u \in Threads : offset'[u] = IF u = h THEN C ELSE offset[u]
  BY <1>1, <1>2
<1>5. \A u \in Threads, c \in ChunkNos, i \in RowNos : \A k :
        Holds(u, c, i, k)' <=> Holds(u, c, i, k)
  BY <1>2 DEF Holds
<1>6. \A k \in Keys : Pulled(k)' <=> \/ Pulled(k)
                                     \/ C \in ChunkNos /\ \E i \in RowNos : Holds(h, C, i, k)
  <2> SUFFICES ASSUME NEW k \in Keys
               PROVE  Pulled(k)' <=> \/ Pulled(k)
                                     \/ C \in ChunkNos /\ \E i \in RowNos : Holds(h, C, i, k)
    OBVIOUS
  <2>1. Pulled(k)' <=> \E u \in Threads, c \in ChunkNos, i \in RowNos :
                         c <= offset'[u] /\ Holds(u, c, i, k)
    BY <1>3, <1>5 DEF Pulled
  <2>2. \A u \in Threads, c \in ChunkNos :
          c <= offset'[u] <=> (c <= offset[u] \/ (u = h /\ c = C))
    <3> SUFFICES ASSUME NEW u \in Threads, NEW c \in ChunkNos
                 PROVE  c <= offset'[u] <=> (c <= offset[u] \/ (u = h /\ c = C))
      OBVIOUS
    <3>1. c \in Int /\ offset[u] \in Nat
      BY <1>1 DEF ChunkNos
    <3>2. CASE u = h
      <4>1. offset'[u] = offset[u] + 1 /\ C = offset[u] + 1
        BY <1>4, <3>2
      <4> HIDE DEF h, C
      <4> QED BY <3>1, <3>2, <4>1
    <3>3. CASE u # h
      BY <1>4, <3>3
    <3> QED BY <3>2, <3>3
  <2> HIDE DEF h, C
  <2> QED BY <1>1, <2>1, <2>2 DEF Pulled
<1>7. CASE offset[h] >= Len(materializers[h])
  <2>1. \A i \in RowNos : \A k : ~Holds(h, C, i, k)
    BY <1>1, <1>7 DEF Holds
  <2>2. \A u \in Threads : task'[u].tuples = task[u].tuples
    BY <1>1, <1>2, <1>7
  <2>3. \A k \in Keys : Pulled(k)' <=> Pulled(k)
    <3> HIDE DEF C
    <3> QED BY <1>6, <2>1
  <2>4. \A k \in Keys, u \in Threads, i \in RowNos : InTask(k, u, i)' <=> InTask(k, u, i)
    BY <2>2 DEF InTask
  <2>5. \A u \in Threads : Len(task'[u].tuples) <= Len(build)
    BY <2>2 DEF IInv, PulledInv
  <2>6. PulledInv /\ ApartInv
    BY DEF IInv
  <2> QED BY <1>2, <1>3, <2>3, <2>4, <2>5, <2>6, NoRowMoves
<1>8. CASE offset[h] < Len(materializers[h])
  <2>1. ~(offset[h] >= Len(materializers[h]))
    BY <1>1, <1>8
  <2>2. /\ \A u \in Threads \ {t} : task'[u] = task[u]
        /\ task'[t].tuples = materializers[h][C]
    BY <1>1, <1>2, <2>1
  <2>3. C \in ChunkNos /\ C \in DOMAIN materializers[h]
    <3>1. Len(materializers[h]) \in 1 .. nextBuild + 1 /\ nextBuild \in 0 .. Len(build)
      BY <1>1 DEF IInv, ChunksInv, BaseInv, TypeOK
    <3>2. C \in 1 .. Len(materializers[h])
      BY <1>1, <1>8
    <3> QED BY <1>1, <3>1, <3>2, SMTT(60) DEF ChunkNos
  <2>4. \A k \in Keys, u \in Threads, i \in RowNos :
          InTask(k, u, i)' <=> \/ u # t /\ InTask(k, u, i)
                               \/ u = t /\ Holds(h, C, i, k)
    BY <2>2, <2>3 DEF InTask, Holds
  <2>5. \A k \in Keys, i \in RowNos : ~InTask(k, t, i)
    BY <1>1 DEF InTask
  <2>6. \A k \in Keys, i \in RowNos : Holds(h, C, i, k) => ~Pulled(k)
    <3> SUFFICES ASSUME NEW k \in Keys, NEW i \in RowNos, Holds(h, C, i, k), Pulled(k) PROVE FALSE
      OBVIOUS
    <3>1. PICK u \in Threads, c \in ChunkNos, j \in RowNos : c <= offset[u] /\ Holds(u, c, j, k)
      BY DEF Pulled
    <3>2. ChunksInv /\ h \in Threads /\ C \in ChunkNos
      BY <1>1, <2>3 DEF IInv
    <3> HIDE DEF h, C
    <3>3. u = h /\ c = C
      BY <3>1, <3>2 DEF ChunksInv
    <3> QED BY <1>1, <3>1, <3>3 DEF h, C
  <2>7. \A k \in Keys, i, j \in RowNos : Holds(h, C, i, k) /\ Holds(h, C, j, k) => i = j
    BY <1>1, <2>3 DEF IInv, ChunksInv
  <2>8. \A u \in Threads : Len(task'[u].tuples) <= Len(build)
    <3>1. Len(materializers[h][C]) <= nextBuild /\ nextBuild \in 0 .. Len(build)
          /\ Len(materializers[h][C]) \in Nat
      BY <1>1, <2>3, SMTT(60) DEF IInv, ChunksInv, BaseInv, TypeOK
    <3>2. Len(materializers[h][C]) <= Len(build)
      <4> DEFINE n == Len(materializers[h][C])
      <4> HIDE DEF n
      <4> QED BY <1>1, <3>1 DEF n
    <3> QED BY <2>2, <3>2 DEF IInv, PulledInv
  <2> HIDE DEF h, C
  <2>9. \A k \in Keys : Pulled(k)' <=> \/ Pulled(k)
                                       \/ \E i \in RowNos : Holds(h, C, i, k)
    BY <1>6, <2>3
  <2>10. \A k \in Keys, i \in RowNos : Holds(h, C, i, k) =>
           /\ \A u \in Threads, j \in RowNos : ~InTask(k, u, j)
           /\ \A u \in Threads : ~Inserting(k, u)
           /\ \A s \in Slots : ~InSlot(k, s)
    BY <2>6 DEF IInv, PulledInv
  <2>11. PulledInv'
    <3>1. \A k \in Keys : Pulled(k)' =>
            \/ \E u \in Threads, i \in RowNos : InTask(k, u, i)'
            \/ \E u \in Threads : Inserting(k, u)'
            \/ \E s \in Slots : InSlot(k, s)'
      BY <1>3, <2>4, <2>5, <2>9 DEF IInv, PulledInv
    <3>2. \A k \in Keys, u \in Threads :
            /\ \A i \in RowNos : InTask(k, u, i)' => Pulled(k)'
            /\ Inserting(k, u)' => Pulled(k)'
      BY <1>3, <2>4, <2>9 DEF IInv, PulledInv
    <3>3. \A k \in Keys, s \in Slots : InSlot(k, s)' => Pulled(k)'
      BY <1>3, <2>9 DEF IInv, PulledInv
    <3> QED BY <1>2, <1>3, <2>8, <3>1, <3>2, <3>3 DEF PulledInv
  <2>12. ApartInv'
    BY <1>3, <2>4, <2>7, <2>10 DEF IInv, ApartInv
  <2> QED BY <2>11, <2>12
<1> QED BY <1>1, <1>7, <1>8

(* A worker starts to insert the next row of its task.                     *)
LEMMA InsertStarted ==
  ASSUME IInv, NEW t \in Threads, InsertTuple(t)
  PROVE  PulledInv' /\ ApartInv'
<1> DEFINE tuples == task[t].tuples
           K == Head(tuples)
<1>1. /\ tuples # << >> /\ tuples \in Seq(Keys) /\ ~InCall(t) /\ phase = "insert" /\ phase' = phase
      /\ Len(tuples) \in Nat /\ Len(tuples) <= Len(build) /\ Len(build) \in Nat /\ K \in Keys
      /\ Tail(tuples) \in Seq(Keys) /\ Len(Tail(tuples)) = Len(tuples) - 1
      /\ DOMAIN Tail(tuples) = 1 .. Len(tuples) - 1 /\ DOMAIN tuples = 1 .. Len(tuples)
      /\ \A i \in 1 .. Len(tuples) - 1 : Tail(tuples)[i] = tuples[i + 1]
      /\ tuples[1] = K
  <2>1. tuples \in Seq(Keys) /\ Len(build) \in Nat /\ Len(tuples) <= Len(build)
    BY Inputs DEF IInv, BaseInv, TypeOK, PulledInv
  <2>2. tuples # << >> /\ ~InCall(t) /\ phase = "insert" /\ phase' = phase
    BY DEF InsertTuple
  <2> HIDE DEF tuples
  <2> QED BY <2>1, <2>2
<1>2. /\ task \in [Threads -> [handle : 0 .. NumThreads, tuples : Seq(Keys)]]
      /\ task' = [task EXCEPT ![t].tuples = Tail(@)]
      /\ call \in [Threads -> [fn : Fns, key : Keys, idx : Nat, pc : CallPcs]]
      /\ call' = [call EXCEPT ![t] = [fn |-> BuildFn, key |-> K, idx |-> Home(K), pc |-> "load"]]
      /\ build' = build /\ tags' = tags /\ rows' = rows /\ offset' = offset
      /\ materializers' = materializers
  BY DEF InsertTuple, StartCall, inputVars, IInv, BaseInv, TypeOK, TableTypeOK
<1>3. /\ Slots' = Slots /\ RowNos' = RowNos /\ ChunkNos' = ChunkNos
      /\ \A k \in Keys : Pulled(k)' <=> Pulled(k)
      /\ \A k \in Keys, s \in Slots : InSlot(k, s)' <=> InSlot(k, s)
  BY <1>2 DEF Slots, RowNos, ChunkNos, InSlot, Pulled, Holds
<1>4. \A k \in Keys, u \in Threads :
        /\ Inserting(k, u)' <=> \/ Inserting(k, u)
                                \/ u = t /\ k = K
        /\ ~Inserting(k, t)
  BY <1>1, <1>2 DEF Inserting, InCall, Returned
<1>5. \A k \in Keys, u \in Threads, i \in RowNos :
        InTask(k, u, i)' <=> \/ u # t /\ InTask(k, u, i)
                             \/ u = t /\ i + 1 \in RowNos /\ InTask(k, t, i + 1)
  <2> SUFFICES ASSUME NEW k \in Keys, NEW u \in Threads, NEW i \in RowNos
               PROVE  InTask(k, u, i)' <=> \/ u # t /\ InTask(k, u, i)
                                           \/ u = t /\ i + 1 \in RowNos /\ InTask(k, t, i + 1)
    OBVIOUS
  <2>1. CASE u # t
    BY <1>2, <2>1 DEF InTask
  <2>2. CASE u = t
    <3>1. task'[t].tuples = Tail(tuples)
      BY <1>2
    <3>2. i \in 1 .. Len(tuples) - 1 <=> (i + 1 \in RowNos /\ i + 1 \in 1 .. Len(tuples))
      <4> DEFINE n == Len(tuples)
      <4>1. n \in Nat /\ n <= Len(build)
        BY <1>1
      <4> HIDE DEF n
      <4>2. i \in 1 .. n - 1 <=> (i + 1 \in RowNos /\ i + 1 \in 1 .. n)
        BY <1>1, <4>1 DEF RowNos
      <4> QED BY <4>2 DEF n
    <3> HIDE DEF tuples
    <3> QED BY <1>1, <2>2, <3>1, <3>2 DEF InTask, tuples
  <2> QED BY <2>1, <2>2
<1>6. 1 \in RowNos /\ \A k \in Keys : InTask(k, t, 1) <=> k = K
  <2> HIDE DEF K
  <2>1. Len(tuples) >= 1
    <3> HIDE DEF tuples
    <3> QED BY <1>1
  <2> QED BY <1>1, <2>1 DEF InTask, RowNos
<1>7. \A u \in Threads : Len(task'[u].tuples) <= Len(build)
  <2>1. Len(task'[t].tuples) <= Len(build)
    <3>1. task'[t].tuples = Tail(tuples)
      BY <1>2
    <3> HIDE DEF tuples
    <3> QED BY <1>1, <3>1
  <2> QED BY <1>2, <2>1 DEF IInv, PulledInv
<1> HIDE DEF K, tuples
<1>8. \A k \in Keys, i \in RowNos : InTask(k, t, i) =>
        \/ i = 1 /\ k = K
        \/ \E j \in RowNos : i = j + 1 /\ InTask(k, t, j)'
  <2> SUFFICES ASSUME NEW k \in Keys, NEW i \in RowNos, InTask(k, t, i), i # 1
               PROVE  \E j \in RowNos : i = j + 1 /\ InTask(k, t, j)'
    BY <1>6
  <2>1. i - 1 \in RowNos /\ (i - 1) + 1 = i
    BY <1>1 DEF RowNos
  <2> QED BY <1>5, <2>1
<1>9. PulledInv'
  <2>1. \A k \in Keys : Pulled(k)' =>
          \/ \E u \in Threads, i \in RowNos : InTask(k, u, i)'
          \/ \E u \in Threads : Inserting(k, u)'
          \/ \E s \in Slots : InSlot(k, s)'
    BY <1>3, <1>4, <1>5, <1>8 DEF IInv, PulledInv
  <2>2. \A k \in Keys, u \in Threads :
          /\ \A i \in RowNos : InTask(k, u, i)' => Pulled(k)'
          /\ Inserting(k, u)' => Pulled(k)'
    BY <1>3, <1>4, <1>5, <1>6 DEF IInv, PulledInv
  <2>3. \A k \in Keys, s \in Slots : InSlot(k, s)' => Pulled(k)'
    BY <1>3 DEF IInv, PulledInv
  <2> QED BY <1>2, <1>3, <1>7, <2>1, <2>2, <2>3 DEF PulledInv
<1>10. ApartInv'
  <2> SUFFICES ASSUME NEW k \in Keys
        PROVE
          /\ \A v, u \in Threads, i, j \in RowNos : InTask(k, v, i)' /\ InTask(k, u, j)' => v = u /\ i = j
          /\ \A v, u \in Threads : Inserting(k, v)' /\ Inserting(k, u)' => v = u
          /\ \A r, s \in Slots : InSlot(k, r)' /\ InSlot(k, s)' => r = s
          /\ \A v, u \in Threads, i \in RowNos : ~(InTask(k, v, i)' /\ Inserting(k, u)')
          /\ \A v \in Threads, i \in RowNos, s \in Slots : ~(InTask(k, v, i)' /\ InSlot(k, s)')
          /\ \A v \in Threads, s \in Slots : ~(Inserting(k, v)' /\ InSlot(k, s)')
    BY <1>3 DEF ApartInv
  <2>1. RowNos \subseteq Int
    BY DEF RowNos
  <2>2. \A v \in Threads, i \in RowNos : InTask(k, v, i)' =>
          \E j \in RowNos : InTask(k, v, j) /\ j = IF v = t THEN i + 1 ELSE i
    BY <1>5
  <2>3. \A v, u \in Threads, i, j \in RowNos : InTask(k, v, i)' /\ InTask(k, u, j)' => v = u /\ i = j
    BY <2>1, <2>2 DEF IInv, ApartInv
  <2>4. \A v, u \in Threads, i \in RowNos : ~(InTask(k, v, i)' /\ Inserting(k, u)')
    <3> SUFFICES ASSUME NEW v \in Threads, NEW u \in Threads, NEW i \in RowNos,
                        InTask(k, v, i)', Inserting(k, u)'
                 PROVE  FALSE
      OBVIOUS
    <3>1. PICK j \in RowNos : InTask(k, v, j) /\ j = IF v = t THEN i + 1 ELSE i
      BY <2>2
    <3>2. CASE Inserting(k, u)
      BY <3>1, <3>2 DEF IInv, ApartInv
    <3>3. CASE k = K
      <4>1. v = t /\ j = 1
        BY <1>6, <3>1, <3>3 DEF IInv, ApartInv
      <4> QED BY <1>1, <3>1, <4>1 DEF RowNos
    <3> QED BY <1>4, <3>2, <3>3
  <2> QED BY <1>3, <1>4, <1>6, <2>2, <2>3, <2>4 DEF IInv, ApartInv
<1> QED BY <1>9, <1>10

(* The steps of a call in a join: those of an insert while the table is    *)
(* built, those of a lookup while it is probed.                            *)
StaysPut(t, label) == call'[t].idx = call[t].idx /\ call'[t].pc = label
GoesOn(t) ==
  /\ call'[t].pc = "load"
  /\ call'[t].idx = IF call[t].idx = Cardinality(Slots) - 1 THEN 0 ELSE call[t].idx + 1
TableSame == tags' = tags /\ rows' = rows
CallFrame(t) ==
  /\ UNCHANGED <<hash, inputVars, phase, buildVars, probeVars, restVars>> /\ Slots' = Slots
  /\ call[t] \in Calls /\ call[t].key \in Keys /\ call[t].idx \in Slots /\ InCall(t)
  /\ call'[t].fn = call[t].fn /\ call'[t].key = call[t].key
  /\ \A u \in Threads \ {t} : call'[u] = call[u]
InsertStep(t) ==
  LET c == call[t] IN
  /\ phase = "insert" /\ c.fn = BuildFn
  /\ \/ c.pc = "load" /\ tags[c.idx].fill /\ TableSame /\ GoesOn(t)
     \/ c.pc = "load" /\ ~tags[c.idx].fill /\ TableSame /\ StaysPut(t, "exchange")
     \/ c.pc = "exchange" /\ tags[c.idx].fill /\ TableSame /\ GoesOn(t)
     \/ /\ c.pc = "exchange" /\ tags[c.idx] = Zero
        /\ tags' = [tags EXCEPT ![c.idx] = BuildTag(c.key)] /\ rows' = rows
        /\ StaysPut(t, "populate")
     \/ /\ c.pc = "populate" /\ tags' = tags /\ rows' = [rows EXCEPT ![c.idx] = c.key]
        /\ StaysPut(t, "found")
LookupStep(t) ==
  LET c == call[t]
      tag == tags[c.idx]
  IN
  /\ phase = "probe" /\ probing[t] # 0 /\ c.fn = ProbeFn
  /\ \/ c.pc = "load" /\ ~tag.fill /\ TableSame /\ StaysPut(t, "absent")
     \/ c.pc = "load" /\ tag.fill /\ ~Matches(c, tag) /\ TableSame /\ GoesOn(t)
     \/ /\ c.pc = "load" /\ tag.fill /\ Matches(c, tag) /\ TableSame
        /\ kind \in {"inner", "leftOuter"} /\ StaysPut(t, "found")
     \/ /\ c.pc = "load" /\ tag.fill /\ Matches(c, tag) /\ TableSame
        /\ kind = "leftSemi" /\ StaysPut(t, "exchange")
     \/ /\ c.pc = "load" /\ tag.fill /\ Matches(c, tag) /\ TableSame
        /\ kind = "marking" /\ tag.mark /\ StaysPut(t, "found")
     \/ /\ c.pc = "load" /\ tag.fill /\ Matches(c, tag) /\ TableSame
        /\ kind = "marking" /\ StaysPut(t, "mark")
     \/ /\ c.pc = "exchange" /\ kind = "leftSemi" /\ tag = PlainTag(c.key)
        /\ tags' = [tags EXCEPT ![c.idx] = Disabled(c.key)] /\ rows' = rows
        /\ StaysPut(t, "found")
     \/ /\ c.pc = "exchange" /\ kind = "leftSemi" /\ tag # PlainTag(c.key)
        /\ TableSame /\ GoesOn(t)
     \/ /\ c.pc = "mark" /\ kind = "marking"
        /\ tags' = [tags EXCEPT ![c.idx] = Marked(OuterTag(c.key))] /\ rows' = rows
        /\ StaysPut(t, "found")

(* The tags that a row may have.                                           *)
LEMMA TagFacts ==
  ASSUME TableTypeOK, NEW k \in Keys
  PROVE  /\ PlainTag(k) \in Tags /\ PlainTag(k).fill
         /\ OuterTag(k) \in Tags /\ OuterTag(k).fill /\ ~OuterTag(k).mark
         /\ Marked(OuterTag(k)) \in Tags /\ Marked(OuterTag(k)).fill /\ Marked(OuterTag(k)).mark
         /\ Disabled(k) \in Tags /\ Disabled(k).fill /\ Disabled(k) # PlainTag(k)
         /\ OuterTag(k).print = hash[k].print /\ Marked(OuterTag(k)).print = hash[k].print
         /\ Zero \in Tags /\ ~Zero.fill
<1>1. hash[k] \in [low : Nat, mark : BOOLEAN, print : 0 .. Mask] /\ Mask \in Nat
  BY AtomicTableAssumption DEF TableTypeOK
<1>2. Mask - hash[k].print \in 0 .. Mask /\ 0 \in 0 .. Mask
  BY <1>1
<1>3. PlainTag(k) \in Tags /\ PlainTag(k).fill /\ PlainTag(k).mark = hash[k].mark
  BY <1>1 DEF PlainTag, Tags
<1>4. OuterTag(k) \in Tags /\ OuterTag(k).fill /\ ~OuterTag(k).mark /\ OuterTag(k).print = hash[k].print
  BY <1>1 DEF OuterTag, Tags
<1>5. /\ Marked(OuterTag(k)) \in Tags /\ Marked(OuterTag(k)).fill /\ Marked(OuterTag(k)).mark
      /\ Marked(OuterTag(k)).print = hash[k].print
  BY <1>4 DEF Marked, Tags
<1>6. Disabled(k) \in Tags /\ Disabled(k).fill /\ Disabled(k).mark = ~PlainTag(k).mark
  BY <1>1, <1>2 DEF Disabled, Inverted, PlainTag, Tags
<1>7. Disabled(k) # PlainTag(k)
  BY <1>1, <1>3, <1>6
<1>8. Zero \in Tags /\ ~Zero.fill
  BY <1>2 DEF Zero, Tags
<1> QED BY <1>3, <1>4, <1>5, <1>6, <1>7, <1>8

(* A step of a call is one of the insert's steps or one of the lookup's. *)
LEMMA CallCases ==
  ASSUME IInv, NEW t \in Threads, CallStep(t), JoinUnchanged
  PROVE  CallFrame(t) /\ (InsertStep(t) \/ LookupStep(t))
<1> DEFINE c == call[t]
           tag == tags[c.idx]
<1>1. /\ TableTypeOK /\ IsFiniteSet(Slots) /\ c \in Calls /\ InCall(t) /\ WorkerInv(t)
      /\ kind \in {"inner", "leftSemi", "leftOuter", "marking"} /\ PhaseInv
      /\ phase \in {"build", "insert", "probe", "rest", "done"}
  <2>1. TypeOK /\ PhaseInv /\ WorkerInv(t)
    BY DEF IInv, BaseInv
  <2>2. TableTypeOK /\ kind \in {"inner", "leftSemi", "leftOuter", "marking"} /\ c \in Calls
        /\ phase \in {"build", "insert", "probe", "rest", "done"}
    BY <2>1, Inputs DEF TypeOK, TableTypeOK, Calls
  <2>3. InCall(t)
    BY DEF CallStep, LoadTag, Exchange, Populate, Mark, InCall, Returned
  <2> QED BY <2>1, <2>2, <2>3 DEF PhaseInv
<1>2. phase = "insert" \/ (phase = "probe" /\ probing[t] # 0)
  BY <1>1 DEF WorkerInv, InCall
<1>3. Slots # {}
  BY <1>1, <1>2 DEF PhaseInv
<1>4. /\ Slots' = Slots /\ hash' = hash /\ c.idx \in Slots
      /\ \A u \in Threads \ {t} : call'[u] = call[u]
      /\ call'[t].fn = c.fn /\ call'[t].key = c.key
  BY <1>1, <1>3, CallSteps DEF WorkerInv
<1>5. CallFrame(t)
  <2>1. c.key \in Keys
    BY <1>1 DEF Calls
  <2> QED BY <1>1, <1>4, <2>1 DEF CallFrame, JoinUnchanged
<1>6. tags \in [Slots -> Tags]
  BY <1>1, SlotNumbers
<1>7. /\ \A label \in CallPcs : call'[t] = At(c, label) => StaysPut(t, label)
      /\ call'[t] = Advanced(c) => GoesOn(t)
  BY <1>1, CallFields DEF StaysPut, GoesOn
<1>8. {"exchange", "populate", "found", "absent", "mark"} \subseteq CallPcs
  BY DEF CallPcs, Returned
<1>9. CASE phase = "insert"
  <2>1. /\ c.fn = BuildFn /\ c.pc # "mark" /\ c.fn \in {"insert", "insertOuter"}
        /\ c.fn = "insertOuter" <=> kind = "marking"
    BY <1>1, <1>9 DEF WorkerInv, BuildFn
  <2>2. CASE LoadTag(t)
    <3>1. \/ tag.fill /\ call'[t] = Advanced(c)
          \/ ~tag.fill /\ call'[t] = At(c, "exchange")
      BY <1>1, <2>1, <2>2, LoadOutcomes
    <3>2. tags' = tags /\ rows' = rows /\ c.pc = "load"
      BY <1>1, <2>2, LoadOutcomes
    <3> QED BY <1>5, <1>7, <1>8, <1>9, <2>1, <3>1, <3>2 DEF InsertStep, TableSame
  <2>3. CASE Exchange(t)
    <3>1. /\ c.pc = "exchange" /\ rows' = rows
          /\ \/ /\ tags[c.idx] = ExpectedTag(c) /\ tags' = [tags EXCEPT ![c.idx] = NewTag(c)]
                /\ call'[t] = Exchanged(c)
             \/ /\ tags[c.idx] # ExpectedTag(c) /\ tags' = tags
                /\ call'[t] = Advanced(c)
      BY <1>1, <1>3, <2>3, WriteOutcomes
    <3>2. ExpectedTag(c) = Zero /\ NewTag(c) = BuildTag(c.key) /\ Exchanged(c) = At(c, "populate")
      BY <2>1 DEF ExpectedTag, NewTag, Exchanged, BuildTag
    <3>3. tag # Zero => tag.fill
      BY <1>4 DEF IInv, TableInv, SlotInv
    <3> QED BY <1>5, <1>7, <1>8, <1>9, <2>1, <3>1, <3>2, <3>3 DEF InsertStep, TableSame
  <2>4. CASE Populate(t)
    BY <1>1, <1>3, <1>5, <1>7, <1>8, <1>9, <2>1, <2>4, WriteOutcomes DEF InsertStep
  <2>5. ~Mark(t)
    BY <2>1 DEF Mark
  <2> QED BY <2>2, <2>3, <2>4, <2>5 DEF CallStep
<1>10. CASE phase = "probe" /\ probing[t] # 0
  <2>1. /\ c.fn = ProbeFn /\ c.pc \in {"load", "exchange", "mark"} \cup Returned
        /\ c.pc = "exchange" => kind = "leftSemi"
        /\ c.pc = "mark" => kind = "marking"
    BY <1>10 DEF IInv, LookupInv, ProbeInv
  <2>2. /\ c.fn = "lookup" <=> kind \in {"inner", "leftOuter"}
        /\ c.fn = "lookupDisable" <=> kind = "leftSemi"
        /\ c.fn = "lookupOuter" <=> kind = "marking"
        /\ c.fn \notin {"insert", "insertOuter"}
    BY <1>1, <2>1 DEF ProbeFn
  <2>3. CASE LoadTag(t)
    <3>1. \/ ~tag.fill /\ call'[t] = At(c, "absent")
          \/ tag.fill /\ ~Matches(c, tag) /\ call'[t] = Advanced(c)
          \/ tag.fill /\ Matches(c, tag) /\ c.fn = "lookup"
               /\ call'[t] = At(c, "found")
          \/ tag.fill /\ Matches(c, tag) /\ c.fn = "lookupDisable"
               /\ call'[t] = At(c, "exchange")
          \/ tag.fill /\ Matches(c, tag) /\ c.fn = "lookupOuter"
               /\ tag = Marked(OuterTag(c.key)) /\ call'[t] = At(c, "found")
          \/ tag.fill /\ Matches(c, tag) /\ c.fn = "lookupOuter"
               /\ call'[t] = At(c, "mark")
      BY <1>1, <2>2, <2>3, LoadOutcomes
    <3>2. tags' = tags /\ rows' = rows /\ c.pc = "load"
      BY <1>1, <2>3, LoadOutcomes
    <3>3. tag = Marked(OuterTag(c.key)) => tag.mark
      BY <1>1, TagFacts DEF Calls
    <3> HIDE DEF c, tag
    <3> QED BY <1>5, <1>7, <1>8, <1>10, <2>1, <2>2, <3>1, <3>2, <3>3 DEF LookupStep, TableSame, c, tag
  <2>4. CASE Exchange(t)
    <3>1. /\ c.pc = "exchange" /\ rows' = rows
          /\ \/ /\ tags[c.idx] = ExpectedTag(c) /\ tags' = [tags EXCEPT ![c.idx] = NewTag(c)]
                /\ call'[t] = Exchanged(c)
             \/ /\ tags[c.idx] # ExpectedTag(c) /\ tags' = tags
                /\ call'[t] = Advanced(c)
      BY <1>1, <1>3, <2>4, WriteOutcomes
    <3>2. kind = "leftSemi" /\ c.fn = "lookupDisable"
      BY <2>1, <2>2, <3>1
    <3>3. /\ ExpectedTag(c) = PlainTag(c.key) /\ NewTag(c) = Disabled(c.key)
          /\ Exchanged(c) = At(c, "found")
      BY <3>2 DEF ExpectedTag, NewTag, Exchanged, Disabled
    <3> QED BY <1>5, <1>7, <1>8, <1>10, <2>1, <3>1, <3>2, <3>3 DEF LookupStep, TableSame
  <2>5. ~Populate(t)
    BY <2>1 DEF Populate, Returned
  <2>6. CASE Mark(t)
    BY <1>1, <1>3, <1>5, <1>7, <1>8, <1>10, <2>1, <2>6, WriteOutcomes DEF LookupStep
  <2> QED BY <2>3, <2>4, <2>5, <2>6 DEF CallStep
<1> QED BY <1>2, <1>5, <1>9, <1>10

(* What a lookup does to the table: no row changes, and the slot of its    *)
(* row only gets another tag of that row.                                  *)
TagMoves(t, s) ==
  \/ tags'[s] = tags[s]
  \/ /\ s = call[t].idx /\ rows[s] = call[t].key /\ call'[t].pc = "found"
     /\ \/ /\ kind = "leftSemi" /\ tags[s] = PlainTag(call[t].key)
           /\ tags'[s] = Disabled(call[t].key)
        \/ kind = "marking" /\ tags'[s] = Marked(OuterTag(call[t].key))

(* A lookup claims no slot and writes no row; at most it disables or marks
   the tag it found. *)
LEMMA LookupTags ==
  ASSUME IInv, NEW t \in Threads, CallFrame(t), LookupStep(t)
  PROVE  /\ rows' = rows
         /\ \A s \in Slots : TagMoves(t, s) /\ tags'[s].fill = tags[s].fill
<1> DEFINE c == call[t]
<1>1. /\ TableTypeOK /\ IsFiniteSet(Slots) /\ phase = "probe" /\ probing[t] # 0
      /\ c.idx \in Slots /\ c.key \in Keys
  BY DEF IInv, BaseInv, TypeOK, PhaseInv, LookupStep, CallFrame
<1>2. tags \in [Slots -> Tags] /\ rows' = rows
  BY <1>1, SlotNumbers DEF LookupStep, TableSame
<1>3. ASSUME NEW s \in Slots PROVE TagMoves(t, s)
  <2>1. c.pc \in {"exchange", "mark"} => rows[c.idx] = c.key
    BY <1>1 DEF IInv, LookupInv, ProbeInv
  <2>2. CASE tags' = tags
    BY <2>2 DEF TagMoves
  <2>3. CASE /\ c.pc = "exchange" /\ kind = "leftSemi" /\ tags[c.idx] = PlainTag(c.key)
             /\ tags' = [tags EXCEPT ![c.idx] = Disabled(c.key)] /\ StaysPut(t, "found")
    BY <1>1, <1>2, <2>1, <2>3 DEF TagMoves, StaysPut
  <2>4. CASE /\ c.pc = "mark" /\ kind = "marking" /\ StaysPut(t, "found")
             /\ tags' = [tags EXCEPT ![c.idx] = Marked(OuterTag(c.key))]
    BY <1>1, <1>2, <2>1, <2>4 DEF TagMoves, StaysPut
  <2> QED BY <2>2, <2>3, <2>4 DEF LookupStep, TableSame
<1>4. ASSUME NEW s \in Slots PROVE tags'[s].fill = tags[s].fill
  <2> DEFINE key == c.key
  <2>0. /\ PlainTag(key).fill = TRUE /\ Disabled(key).fill = TRUE
        /\ OuterTag(key).fill = TRUE /\ Marked(OuterTag(key)).fill = TRUE
    <3>1. key \in Keys /\ TableTypeOK
      BY <1>1
    <3> HIDE DEF key
    <3> QED BY <3>1 DEF PlainTag, Disabled, Inverted, OuterTag, Marked
  <2>1. CASE tags'[s] = tags[s]
    BY <2>1
  <2>2. CASE /\ s = c.idx /\ rows[s] = c.key /\ kind = "leftSemi" /\ tags[s] = PlainTag(c.key)
             /\ tags'[s] = Disabled(c.key)
    BY <2>0, <2>2
  <2>3. CASE /\ s = c.idx /\ rows[s] = c.key /\ kind = "marking"
             /\ tags'[s] = Marked(OuterTag(c.key))
    <3>1. rows[s] # NoRow /\ SlotInv(s)
      BY <1>1, <2>3, AtomicTableAssumption DEF IInv, TableInv
    <3>2. tags[s] \in {OuterTag(c.key), Marked(OuterTag(c.key))}
      BY <2>3, <3>1 DEF SlotInv, RowTags
    <3> QED BY <2>0, <2>3, <3>2
  <2> QED BY <1>3, <2>1, <2>2, <2>3 DEF TagMoves
<1> QED BY <1>2, <1>3, <1>4

(* The steps of a call move a row when an insert writes it into its slot.  *)
LEMMA PlacesCall ==
  ASSUME IInv, NEW t \in Threads, CallStep(t), JoinUnchanged
  PROVE  PulledInv' /\ ApartInv'
<1> DEFINE c == call[t]
<1>1. CallFrame(t) /\ (InsertStep(t) \/ LookupStep(t))
  BY CallCases
<1>2. /\ build' = build /\ offset' = offset /\ task' = task /\ materializers' = materializers
      /\ phase' = phase /\ Slots' = Slots /\ c.key \in Keys /\ c.idx \in Slots /\ InCall(t)
      /\ call'[t].key = c.key /\ \A u \in Threads \ {t} : call'[u] = call[u]
  BY <1>1 DEF CallFrame, buildVars, inputVars
<1>3. /\ \A k \in Keys : Pulled(k)' <=> Pulled(k)
      /\ \A k \in Keys, u \in Threads, i \in RowNos : InTask(k, u, i)' <=> InTask(k, u, i)
      /\ \A k \in Keys, u \in Threads \ {t} : Inserting(k, u)' <=> Inserting(k, u)
      /\ RowNos' = RowNos
  BY <1>2 DEF Pulled, ChunkNos, RowNos, Holds, InTask, Inserting, InCall
<1>4. /\ \A u \in Threads : Len(task'[u].tuples) <= Len(build)
      /\ PulledInv /\ ApartInv
      /\ TableTypeOK /\ IsFiniteSet(Slots) /\ tags \in [Slots -> Tags]
      /\ rows \in [Slots -> Keys \cup {NoRow}] /\ NoRow \notin Keys
  <2>1. TableTypeOK /\ IsFiniteSet(Slots) /\ PulledInv /\ ApartInv
    BY DEF IInv, BaseInv, TypeOK, PhaseInv
  <2>2. \A u \in Threads : Len(task'[u].tuples) <= Len(build)
    BY <1>2, <2>1 DEF PulledInv
  <2> QED BY <2>1, <2>2, SlotNumbers, AtomicTableAssumption DEF TableTypeOK
<1>5. CASE LookupStep(t)
  <2>1. phase = "probe"
    BY <1>5 DEF LookupStep
  <2>2. \A k \in Keys, u \in Threads : Inserting(k, u)' <=> Inserting(k, u)
    BY <1>2, <2>1 DEF Inserting
  <2>3. \A k \in Keys, s \in Slots : InSlot(k, s)' <=> InSlot(k, s)
    BY <1>1, <1>5, LookupTags DEF InSlot
  <2> QED BY <1>2, <1>3, <1>4, <2>2, <2>3, NoRowMoves
<1>6. CASE InsertStep(t)
  <2>1. phase = "insert" /\ SlotInv(c.idx) /\ InsertInv(t)
    BY <1>2, <1>6 DEF IInv, TableInv, InsertStep
  <2>2. CASE /\ c.pc \in {"load", "exchange"} /\ call'[t].pc \in {"load", "exchange", "populate"}
             /\ rows' = rows
             /\ \/ tags' = tags
                \/ /\ tags[c.idx] = Zero
                   /\ tags' = [tags EXCEPT ![c.idx] = BuildTag(c.key)]
    <3>1. \A k \in Keys : Inserting(k, t)' <=> Inserting(k, t)
      BY <1>2, <2>2 DEF Inserting, InCall, Returned
    <3>2. \A k \in Keys, s \in Slots : InSlot(k, s)' <=> InSlot(k, s)
      <4>1. CASE tags' = tags
        BY <2>2, <4>1 DEF InSlot
      <4>2. CASE tags[c.idx] = Zero /\ tags' = [tags EXCEPT ![c.idx] = BuildTag(c.key)]
        <5>1. rows[c.idx] = NoRow
          BY <1>2, <1>4, <2>1, <4>2, TagFacts DEF SlotInv
        <5> QED BY <1>2, <1>4, <2>2, <4>2, <5>1 DEF InSlot
      <4> QED BY <2>2, <4>1, <4>2
    <3> QED BY <1>2, <1>3, <1>4, <3>1, <3>2, NoRowMoves
  <2>3. CASE /\ c.pc = "populate" /\ tags' = tags /\ rows' = [rows EXCEPT ![c.idx] = c.key]
             /\ StaysPut(t, "found")
    <3>1. rows[c.idx] = NoRow /\ tags[c.idx].fill
      <4>1. tags[c.idx] = BuildTag(c.key) /\ rows[c.idx] = NoRow
        BY <1>2, <2>1, <2>3 DEF InsertInv
      <4> QED BY <1>2, <1>4, <4>1, TagFacts DEF BuildTag
    <3>2. \A k \in Keys : ~Inserting(k, t)' /\ (Inserting(k, t) <=> k = c.key)
      BY <1>2, <2>1, <2>3 DEF Inserting, InCall, StaysPut, Returned
    <3>3. \A k \in Keys, s \in Slots : InSlot(k, s)' <=> InSlot(k, s) \/ (s = c.idx /\ k = c.key)
      BY <1>2, <1>4, <2>3, <3>1 DEF InSlot
    <3> HIDE DEF c
    <3>4. PulledInv'
      <4>1. \A k \in Keys : Pulled(k)' =>
              \/ \E u \in Threads, i \in RowNos : InTask(k, u, i)'
              \/ \E u \in Threads : Inserting(k, u)'
              \/ \E s \in Slots : InSlot(k, s)'
        BY <1>2, <1>3, <1>4, <3>2, <3>3 DEF PulledInv
      <4>2. \A k \in Keys, u \in Threads :
              /\ \A i \in RowNos : InTask(k, u, i)' => Pulled(k)'
              /\ Inserting(k, u)' => Pulled(k)'
        BY <1>3, <1>4, <3>2 DEF PulledInv
      <4>3. \A k \in Keys, s \in Slots : InSlot(k, s)' => Pulled(k)'
        BY <1>3, <1>4, <3>2, <3>3 DEF PulledInv
      <4> QED BY <1>2, <1>3, <1>4, <4>1, <4>2, <4>3 DEF PulledInv
    <3>5. ApartInv'
      <4>1. \A u \in Threads, i \in RowNos : ~InTask(c.key, u, i)
        BY <1>2, <1>4, <3>2 DEF ApartInv
      <4>2. \A u \in Threads \ {t} : ~Inserting(c.key, u)
        BY <1>2, <1>4, <3>2 DEF ApartInv
      <4>3. \A s \in Slots : ~InSlot(c.key, s)
        BY <1>2, <1>4, <3>2 DEF ApartInv
      <4>4. \A k \in Keys, u \in Threads : Inserting(k, u)' => Inserting(k, u) /\ k # c.key
        BY <1>3, <3>2, <4>2
      <4> QED BY <1>2, <1>3, <1>4, <3>3, <4>1, <4>3, <4>4 DEF ApartInv
    <3> QED BY <3>4, <3>5
  <2> QED BY <1>6, <2>2, <2>3 DEF InsertStep, TableSame, GoesOn, StaysPut
<1> QED BY <1>1, <1>5, <1>6

(* Every step keeps the places of rows.                                    *)
LEMMA PlacesStep == IInv /\ [Next]_vars => PulledInv' /\ ApartInv'
<1> SUFFICES ASSUME IInv, [Next]_vars PROVE PulledInv' /\ ApartInv'
  OBVIOUS
<1>1. /\ PulledInv /\ ApartInv /\ PhaseInv /\ \A t \in Threads : WorkerInv(t)
      /\ \A t \in Threads : Len(task[t].tuples) <= Len(build)
      /\ TableTypeOK
  BY DEF IInv, BaseInv, PulledInv, TypeOK
<1>2. ASSUME /\ task' = task /\ offset' = offset /\ materializers' = materializers /\ build' = build
             /\ tags' = tags /\ rows' = rows
             /\ \A k \in Keys, t \in Threads : Inserting(k, t)' <=> Inserting(k, t)
      PROVE  PulledInv' /\ ApartInv'
  <2>1. /\ Slots' = Slots
        /\ \A k \in Keys : Pulled(k)' <=> Pulled(k)
        /\ \A k \in Keys, t \in Threads, i \in RowNos : InTask(k, t, i)' <=> InTask(k, t, i)
        /\ \A k \in Keys, s \in Slots : InSlot(k, s)' <=> InSlot(k, s)
        /\ \A t \in Threads : Len(task'[t].tuples) <= Len(build)
    BY <1>1, <1>2 DEF Slots, Pulled, ChunkNos, RowNos, Holds, InTask, InSlot
  <2> QED BY <1>1, <1>2, <2>1, NoRowMoves
<1>3. ASSUME NEW t \in Threads, WorkerStep(t) PROVE PulledInv' /\ ApartInv'
  <2>1. CASE Materialize(t)
    <3>1. /\ phase = "build" /\ phase' = "build" /\ task' = task /\ tags' = tags
          /\ offset' = offset /\ Slots' = Slots /\ build' = build
      BY <2>1 DEF Materialize, tableVars, inputVars, Slots
    <3>2. Slots = {} /\ \A u \in Threads : task[u].tuples = << >> /\ offset[u] = 0
      BY <1>1, <3>1 DEF PhaseInv, WorkerInv
    <3>3. /\ \A k \in Keys : ~Pulled(k)' /\ ~Pulled(k)
          /\ \A k \in Keys, u \in Threads, i \in RowNos : ~InTask(k, u, i)' /\ ~InTask(k, u, i)
          /\ \A k \in Keys, u \in Threads : ~Inserting(k, u)' /\ ~Inserting(k, u)
      BY <3>1, <3>2 DEF Pulled, ChunkNos, InTask, Inserting
    <3>4. /\ \A u \in Threads : Len(task'[u].tuples) <= Len(build)
          /\ \A k \in Keys, s \in Slots : InSlot(k, s)' <=> InSlot(k, s)
      BY <1>1, <3>1, <3>2
    <3> QED BY <1>1, <3>1, <3>3, <3>4, NoRowMoves
  <2>2. CASE PullChunk(t)
    BY <2>2, ChunkPulled
  <2>3. CASE InsertTuple(t)
    BY <2>3, InsertStarted
  <2>4. CASE Probe(t)
    BY <1>2, <2>4 DEF Probe, inputVars, buildVars, Inserting
  <2>5. CASE FinishProbe(t)
    BY <1>2, <2>5 DEF FinishProbe, tableVars, inputVars, buildVars, Inserting, InCall
  <2>6. CASE CallStep(t) /\ JoinUnchanged
    BY <2>6, PlacesCall
  <2> QED BY <1>3, <2>1, <2>2, <2>3, <2>4, <2>5, <2>6 DEF WorkerStep
<1>4. CASE AllocHashTable
  <2>1. /\ phase = "build" /\ task' = task /\ offset' = offset /\ call' = call /\ build' = build
        /\ tags' = [s \in 0 .. TotalSlots(TotalRows) - 1 |-> Zero]
    BY <1>4 DEF AllocHashTable, Allocate, inputVars, buildVars
  <2>2. \A u \in Threads : task[u].tuples = << >> /\ offset[u] = 0 /\ call[u].pc = "idle"
    BY <1>1, <2>1 DEF WorkerInv
  <2>3. /\ \A k \in Keys : ~Pulled(k)'
        /\ \A k \in Keys, u \in Threads, i \in RowNos' : ~InTask(k, u, i)'
        /\ \A k \in Keys, u \in Threads : ~Inserting(k, u)'
        /\ \A k \in Keys, s \in Slots' : ~InSlot(k, s)'
        /\ \A u \in Threads : Len(task'[u].tuples) <= Len(build')
    BY <1>1, <2>1, <2>2 DEF Pulled, ChunkNos, InTask, Inserting, InCall, InSlot, Slots, Zero
  <2>4. PulledInv'
    BY <2>3 DEF PulledInv
  <2>5. ApartInv'
    BY <2>3 DEF ApartInv
  <2> QED BY <2>4, <2>5
<1>5. CASE FinishInsert
  <2>1. \A k \in Keys, t \in Threads : ~Inserting(k, t)' /\ ~Inserting(k, t)
    BY <1>5 DEF FinishInsert, Inserting
  <2> QED BY <1>2, <1>5, <2>1 DEF FinishInsert, tableVars, inputVars, buildVars
<1>6. CASE ProbeEnds \/ EmitRest
  <2>1. phase \notin {"insert"} /\ phase' \notin {"insert"}
    BY <1>6 DEF ProbeEnds, EmitRest
  <2>2. \A k \in Keys, t \in Threads : ~Inserting(k, t)' /\ ~Inserting(k, t)
    BY <2>1 DEF Inserting
  <2> QED BY <1>2, <1>6, <2>2 DEF ProbeEnds, EmitRest, tableVars, inputVars, buildVars
<1>7. CASE UNCHANGED vars
  BY <1>2, <1>7 DEF vars, tableVars, inputVars, buildVars, Inserting, InCall
<1> QED BY <1>3, <1>4, <1>5, <1>6, <1>7 DEF Next, DriverStep

-----------------------------------------------------------------------------
(* The order of probing and the rows in the table.                         *)

(* Probing starts at home, comes to one slot after the other and orders    *)
(* them all.                                                               *)
LEMMA Probing ==
  ASSUME NEW n \in Nat, NEW home \in 0 .. n - 1, NEW s \in 0 .. n - 1, NEW u \in 0 .. n - 1
  PROVE  /\ ~Before(home, home, u) /\ ~Before(home, s, s)
         /\ Before(home, IF s = n - 1 THEN 0 ELSE s + 1, u) => u = s \/ Before(home, s, u)
         /\ s # u => Before(home, s, u) \/ Before(home, u, s)
<1>1. CASE s = n - 1
  BY <1>1 DEF Before
<1>2. CASE s # n - 1
  BY <1>2 DEF Before
<1> QED BY <1>1, <1>2

(* The same for the slots of a table and the homes of its keys.            *)
LEMMA ProbingSlots ==
  ASSUME IInv, NEW k \in Keys, NEW s \in Slots, NEW u \in Slots
  PROVE  /\ ~Before(Home(k), Home(k), u) /\ ~Before(Home(k), s, s)
         /\ Before(Home(k), IF s = Cardinality(Slots) - 1 THEN 0 ELSE s + 1, u)
              => u = s \/ Before(Home(k), s, u)
         /\ s # u => Before(Home(k), s, u) \/ Before(Home(k), u, s)
<1> DEFINE n == Cardinality(Slots)
           home == Home(k)
<1>1. n \in Nat /\ home \in 0 .. n - 1 /\ s \in 0 .. n - 1 /\ u \in 0 .. n - 1
  <2>1. TableTypeOK /\ IsFiniteSet(Slots)
    BY DEF IInv, BaseInv, TypeOK, PhaseInv
  <2> QED BY <2>1, SlotNumbers
<1> HIDE DEF n, home
<1>2. /\ ~Before(home, home, u) /\ ~Before(home, s, s)
      /\ Before(home, IF s = n - 1 THEN 0 ELSE s + 1, u) => u = s \/ Before(home, s, u)
      /\ s # u => Before(home, s, u) \/ Before(home, u, s)
  BY <1>1, Probing
<1> QED BY <1>2 DEF n, home

(* Steps that change no slot and no call, or leave the phases of inserts   *)
(* alone.                                                                  *)
LEMMA TableKept ==
  ASSUME TableInv, hash' = hash, tags' = tags, rows' = rows, kind' = kind,
         \/ phase' = phase /\ call' = call
         \/ phase # "insert" /\ phase' # "insert"
  PROVE  TableInv'
<1>1. Slots' = Slots
  BY DEF Slots
<1>4. ASSUME NEW s \in Slots PROVE SlotInv(s)'
  <2>1. /\ FilledUpTo(rows[s], s)' <=> FilledUpTo(rows[s], s)
        /\ RowTags(rows[s])' = RowTags(rows[s])
    BY <1>1 DEF FilledUpTo, Home, RowTags, OuterTag, PlainTag, Disabled, Marked, Inverted
  <2> QED BY <2>1 DEF TableInv, SlotInv, Zero
<1>5. ASSUME NEW t \in Threads PROVE InsertInv(t)'
  <2>1. CASE phase' # "insert"
    BY <2>1 DEF InsertInv
  <2>2. CASE phase' = phase /\ call' = call
    <3>1. /\ FilledUpTo(call[t].key, call[t].idx)' <=> FilledUpTo(call[t].key, call[t].idx)
          /\ BuildTag(call[t].key)' = BuildTag(call[t].key)
      BY <1>1, <2>2 DEF FilledUpTo, Home, BuildTag, OuterTag, PlainTag
    <3> QED BY <2>2, <3>1 DEF TableInv, InsertInv, InCall
  <2> QED BY <2>1, <2>2
<1> QED BY <1>1, <1>4, <1>5 DEF TableInv

(* A lookup changes tags among those a row may have.                       *)
LEMMA TableLookup ==
  ASSUME IInv, NEW t \in Threads, CallFrame(t), LookupStep(t)
  PROVE  TableInv'
<1>1. /\ phase = "probe" /\ phase' = "probe" /\ kind' = kind /\ hash' = hash /\ Slots' = Slots
      /\ call[t].key \in Keys /\ NoRow \notin Keys
  BY AtomicTableAssumption DEF CallFrame, LookupStep, inputVars
<1>2. rows' = rows /\ \A s \in Slots : TagMoves(t, s) /\ tags'[s].fill = tags[s].fill
  BY LookupTags
<1>3. ASSUME NEW s \in Slots PROVE SlotInv(s)'
  <2>0. SlotInv(s) /\ tags'[s].fill = tags[s].fill
    BY <1>2, <1>3 DEF IInv, TableInv
  <2>1. CASE ~tags[s].fill
    <3>1. tags[s] = Zero /\ rows[s] = NoRow /\ tags'[s] = tags[s]
      BY <1>1, <1>2, <2>0, <2>1 DEF SlotInv, TagMoves
    <3> QED BY <1>2, <2>0, <2>1, <3>1 DEF SlotInv, Zero
  <2>2. CASE tags[s].fill
    <3>1. rows[s] # NoRow /\ FilledUpTo(rows[s], s) /\ tags[s] \in RowTags(rows[s])
      BY <1>1, <2>0, <2>2 DEF SlotInv
    <3>2. FilledUpTo(rows[s], s)'
      BY <1>1, <1>2, <3>1 DEF FilledUpTo, Home
    <3>3. tags'[s] \in RowTags(rows[s])
      BY <1>2, <3>1 DEF TagMoves, RowTags
    <3>4. RowTags(rows[s])' = RowTags(rows[s])
      BY <1>1, <1>2 DEF RowTags, OuterTag, PlainTag, Disabled, Marked, Inverted
    <3> QED BY <1>2, <2>0, <2>2, <3>1, <3>2, <3>3, <3>4 DEF SlotInv
  <2> QED BY <2>1, <2>2
<1>4. \A u \in Threads : InsertInv(u)'
  BY <1>1 DEF InsertInv
<1> QED BY <1>1, <1>3, <1>4 DEF TableInv

(* An insert passes filled slots only; it claims an empty slot and writes  *)
(* its row there.                                                          *)
LEMMA TableInsert ==
  ASSUME IInv, NEW t \in Threads, CallFrame(t), InsertStep(t)
  PROVE  TableInv'
<1> DEFINE c == call[t]
           next == IF c.idx = Cardinality(Slots) - 1 THEN 0 ELSE c.idx + 1
<1>1. /\ phase = "insert" /\ phase' = "insert" /\ kind' = kind /\ hash' = hash /\ Slots' = Slots
      /\ c.key \in Keys /\ NoRow \notin Keys /\ c.idx \in Slots /\ InCall(t)
      /\ call'[t].key = c.key /\ \A u \in Threads \ {t} : call'[u] = call[u]
      /\ \A s \in Slots : SlotInv(s)
      /\ \A u \in Threads : InsertInv(u)
  BY AtomicTableAssumption DEF CallFrame, InsertStep, inputVars, IInv, TableInv
<1>2. /\ tags \in [Slots -> Tags] /\ rows \in [Slots -> Keys \cup {NoRow}]
      /\ \A u \in Threads : call[u] \in Calls /\ (InCall(u) => call[u].idx \in Slots)
      /\ TableTypeOK
  <2>1. TableTypeOK /\ IsFiniteSet(Slots)
    BY DEF IInv, BaseInv, TypeOK, PhaseInv
  <2> QED BY <2>1, SlotNumbers DEF TableTypeOK, Calls
<1>3. \A u \in Threads : call[u].pc \in {"load", "exchange", "populate"} => InCall(u)
  BY DEF InCall, Returned
<1>4. /\ \A k : RowTags(k)' = RowTags(k) /\ BuildTag(k)' = BuildTag(k)
      /\ \A k \in Keys : BuildTag(k) \in RowTags(k)
      /\ BuildTag(c.key) \in Tags /\ BuildTag(c.key).fill
  <2>1. \A k : RowTags(k)' = RowTags(k) /\ BuildTag(k)' = BuildTag(k)
    BY <1>1 DEF RowTags, BuildTag, OuterTag, PlainTag, Disabled, Marked, Inverted
  <2>2. \A k \in Keys : BuildTag(k) \in RowTags(k)
    BY DEF RowTags, BuildTag
  <2> QED BY <1>1, <1>2, <2>1, <2>2, TagFacts DEF BuildTag
<1>5. FilledUpTo(c.key, c.idx)
  BY <1>1 DEF InsertInv
<1> DEFINE Kept == \A s \in Slots : tags[s].fill => tags'[s].fill
<1>6. ASSUME Kept, NEW k \in Keys, NEW s \in Slots, FilledUpTo(k, s)
      PROVE  /\ FilledUpTo(k, s)'
             /\ \A u \in Slots : Before(Home(k)', s, u) => tags'[u].fill
  BY <1>1, <1>6 DEF FilledUpTo, Home
<1>7. CASE /\ TableSame /\ c.pc \in {"load", "exchange"}
           /\ \/ tags[c.idx].fill /\ GoesOn(t)
              \/ StaysPut(t, "exchange")
  <2>1. rows' = rows /\ tags' = tags /\ call'[t].pc \in {"load", "exchange"}
    BY <1>7 DEF TableSame, GoesOn, StaysPut
  <2>2. ASSUME NEW s \in Slots PROVE SlotInv(s)'
    <3>1. tags[s].fill /\ rows[s] = NoRow =>
            \E u \in Threads : call'[u].pc = "populate" /\ call'[u].idx = s
      BY <1>1, <1>7 DEF SlotInv
    <3>2. rows[s] # NoRow => FilledUpTo(rows[s], s)' /\ tags[s] \in RowTags(rows[s])'
      <4>1. FilledUpTo(rows[s], s)' <=> FilledUpTo(rows[s], s)
        BY <1>1, <2>1 DEF FilledUpTo, Home
      <4>2. RowTags(rows[s])' = RowTags(rows[s])
        BY <1>4, <2>1
      <4> QED BY <1>1, <4>1, <4>2 DEF SlotInv
    <3> QED BY <1>1, <2>1, <3>1, <3>2 DEF SlotInv, Zero
  <2>3. \A u \in Slots : Before(Home(c.key), call'[t].idx, u) => tags[u].fill
    <3>1. CASE StaysPut(t, "exchange")
      BY <1>5, <3>1 DEF StaysPut, FilledUpTo
    <3>2. CASE tags[c.idx].fill /\ GoesOn(t)
      <4> SUFFICES ASSUME NEW u \in Slots, Before(Home(c.key), next, u) PROVE tags[u].fill
        BY <3>2 DEF GoesOn
      <4>1. u = c.idx \/ Before(Home(c.key), c.idx, u)
        BY <1>1, ProbingSlots
      <4> QED BY <1>5, <3>2, <4>1 DEF FilledUpTo
    <3> QED BY <1>7, <3>1, <3>2
  <2>4. ASSUME NEW u \in Threads PROVE InsertInv(u)'
    <3>1. CASE u = t
      <4>1. FilledUpTo(call[t].key, call[t].idx)'
        BY <1>1, <2>1, <2>3 DEF FilledUpTo, Home
      <4> QED BY <2>1, <3>1, <4>1 DEF InsertInv
    <3>2. CASE u # t
      <4>1. /\ FilledUpTo(call[u].key, call[u].idx)' <=> FilledUpTo(call[u].key, call[u].idx)
            /\ BuildTag(call[u].key)' = BuildTag(call[u].key)
        BY <1>1, <2>1, <3>2 DEF FilledUpTo, Home, BuildTag, OuterTag, PlainTag
      <4>2. call'[u] = call[u]
        BY <1>1, <3>2
      <4> QED BY <1>1, <2>1, <4>1, <4>2 DEF InsertInv, InCall
    <3> QED BY <3>1, <3>2
  <2> QED BY <1>1, <2>2, <2>4 DEF TableInv
<1>8. CASE /\ c.pc = "exchange" /\ tags[c.idx] = Zero /\ rows' = rows
           /\ tags' = [tags EXCEPT ![c.idx] = BuildTag(c.key)] /\ StaysPut(t, "populate")
  <2>1. /\ ~tags[c.idx].fill /\ rows[c.idx] = NoRow
        /\ tags'[c.idx] = BuildTag(c.key) /\ tags'[c.idx].fill
        /\ \A s \in Slots \ {c.idx} : tags'[s] = tags[s]
        /\ call'[t].pc = "populate" /\ call'[t].idx = c.idx
    BY <1>1, <1>2, <1>4, <1>8 DEF SlotInv, StaysPut, Zero
  <2>2. Kept
    BY <2>1
  <2>3. ASSUME NEW s \in Slots PROVE SlotInv(s)'
    <3>1. CASE s = c.idx
      BY <1>1, <1>8, <2>1, <3>1 DEF SlotInv
    <3>2. CASE s # c.idx
      <4>1. tags[s].fill /\ rows[s] = NoRow =>
              \E u \in Threads : call'[u].pc = "populate" /\ call'[u].idx = s
        BY <1>1, <1>8 DEF SlotInv
      <4>2. rows[s] # NoRow => FilledUpTo(rows[s], s)' /\ tags[s] \in RowTags(rows[s])'
        <5> SUFFICES ASSUME rows[s] # NoRow
                     PROVE  FilledUpTo(rows[s], s)' /\ tags[s] \in RowTags(rows[s])'
          OBVIOUS
        <5>1. rows[s] \in Keys /\ FilledUpTo(rows[s], s) /\ tags[s] \in RowTags(rows[s])
          BY <1>1, <1>2 DEF SlotInv
        <5>2. \A u \in Slots : Before(Home(rows[s]), s, u) => tags'[u].fill
          BY <2>2, <5>1 DEF FilledUpTo
        <5>3. FilledUpTo(rows[s], s)'
          BY <1>1, <1>8, <5>2 DEF FilledUpTo, Home
        <5>4. RowTags(rows[s])' = RowTags(rows[s])
          BY <1>1, <1>8 DEF RowTags, OuterTag, PlainTag, Disabled, Marked, Inverted
        <5> QED BY <5>1, <5>3, <5>4
      <4> QED BY <1>1, <1>8, <2>1, <3>2, <4>1, <4>2 DEF SlotInv, Zero
    <3> QED BY <3>1, <3>2
  <2>4. \A u \in Threads : call[u].pc = "populate" => call[u].idx # c.idx
    BY <1>1, <1>2, <1>3, <1>4, <2>1, TagFacts DEF InsertInv, BuildTag, Calls
  <2>5. ASSUME NEW u \in Threads PROVE InsertInv(u)'
    <3>1. CASE u = t
      <4>1. FilledUpTo(call[t].key, call[t].idx)'
        BY <1>1, <1>5, <2>1, <2>2 DEF FilledUpTo, Home
      <4>2. BuildTag(call[t].key)' = BuildTag(c.key)
        BY <1>1 DEF BuildTag, OuterTag, PlainTag
      <4>3. \A v \in Threads : call'[v].pc = "populate" /\ call'[v].idx = c.idx => v = t
        BY <1>1, <2>4
      <4> QED BY <1>8, <2>1, <3>1, <4>1, <4>2, <4>3 DEF InsertInv
    <3>2. CASE u # t
      <4> SUFFICES ASSUME InCall(u) PROVE InsertInv(u)'
        BY <1>1, <3>2 DEF InsertInv, InCall
      <4> DEFINE d == call[u]
      <4>1. call'[u] = d /\ d.idx \in Slots /\ d.key \in Keys
        BY <1>1, <1>2, <3>2 DEF Calls
      <4>2. FilledUpTo(d.key, d.idx)
        BY <1>1 DEF InsertInv
      <4>3. FilledUpTo(call[u].key, call[u].idx)'
        BY <1>1, <2>2, <4>1, <4>2 DEF FilledUpTo, Home
      <4>4. BuildTag(call[u].key)' = BuildTag(d.key)
        BY <1>1, <4>1 DEF BuildTag, OuterTag, PlainTag
      <4>5. d.pc = "populate" =>
              /\ tags'[d.idx] = BuildTag(d.key) /\ rows[d.idx] = NoRow
              /\ \A v \in Threads : call'[v].pc = "populate" /\ call'[v].idx = d.idx => u = v
        BY <1>1, <2>1, <2>4, <4>1 DEF InsertInv
      <4> QED BY <1>8, <4>1, <4>3, <4>4, <4>5 DEF InsertInv
    <3> QED BY <3>1, <3>2
  <2> QED BY <1>1, <2>3, <2>5 DEF TableInv
<1>9. CASE /\ c.pc = "populate" /\ tags' = tags /\ rows' = [rows EXCEPT ![c.idx] = c.key]
           /\ StaysPut(t, "found")
  <2>1. /\ rows[c.idx] = NoRow /\ rows'[c.idx] = c.key /\ tags[c.idx] = BuildTag(c.key)
        /\ \A s \in Slots \ {c.idx} : rows'[s] = rows[s]
        /\ \A u \in Threads \ {t} : call[u].pc = "populate" => call[u].idx # c.idx
        /\ call'[t].pc = "found"
    BY <1>1, <1>2, <1>9 DEF InsertInv, StaysPut
  <2>2. ASSUME NEW s \in Slots PROVE SlotInv(s)'
    <3>1. CASE s = c.idx
      <4>0. rows'[s] = c.key /\ \A u \in Slots : Before(Home(c.key), s, u) => tags[u].fill
        BY <1>5, <2>1, <3>1 DEF FilledUpTo
      <4>1. FilledUpTo(rows[s], s)'
        <5>1. \A u \in Slots : Before(Home(c.key), s, u) => tags'[u].fill
          BY <1>9, <4>0
        <5>2. Home(c.key) = Home(rows[s])'
          BY <1>1, <4>0 DEF Home
        <5> QED BY <1>1, <5>1, <5>2 DEF FilledUpTo
      <4>2. RowTags(rows[s])' = RowTags(c.key)
        BY <1>1, <4>0 DEF RowTags, OuterTag, PlainTag, Disabled, Marked, Inverted
      <4> QED BY <1>1, <1>4, <1>9, <2>1, <3>1, <4>1, <4>2 DEF SlotInv
    <3>2. CASE s # c.idx
      <4>1. tags[s].fill /\ rows[s] = NoRow =>
              \E u \in Threads : call'[u].pc = "populate" /\ call'[u].idx = s
        BY <1>1, <3>2 DEF SlotInv
      <4>2. FilledUpTo(rows[s], s)' <=> FilledUpTo(rows[s], s)
        BY <1>1, <1>9, <2>1, <3>2 DEF FilledUpTo, Home
      <4>3. RowTags(rows[s])' = RowTags(rows[s])
        BY <1>1, <2>1, <3>2 DEF RowTags, OuterTag, PlainTag, Disabled, Marked, Inverted
      <4> QED BY <1>1, <1>9, <2>1, <3>2, <4>1, <4>2, <4>3 DEF SlotInv, Zero
    <3> QED BY <3>1, <3>2
  <2>3. ASSUME NEW u \in Threads PROVE InsertInv(u)'
    <3>1. CASE u = t
      BY <2>1, <3>1 DEF InsertInv, InCall, Returned
    <3>2. CASE u # t
      <4>1. call'[u] = call[u] /\ (InCall(u)' <=> InCall(u))
        BY <1>1, <3>2 DEF InCall
      <4>2. /\ FilledUpTo(call[u].key, call[u].idx)' <=> FilledUpTo(call[u].key, call[u].idx)
            /\ BuildTag(call[u].key)' = BuildTag(call[u].key)
        BY <1>1, <1>9, <4>1 DEF FilledUpTo, Home, BuildTag, OuterTag, PlainTag
      <4>3. call[u].pc = "populate" /\ InCall(u) => rows'[call[u].idx] = rows[call[u].idx]
        BY <1>2, <2>1, <3>2
      <4>4. \A v \in Threads : call'[v].pc = "populate" => call[v].pc = "populate"
                                                           /\ call'[v].idx = call[v].idx
        BY <1>1, <2>1
      <4> QED BY <1>1, <1>9, <4>1, <4>2, <4>3, <4>4 DEF InsertInv
    <3> QED BY <3>1, <3>2
  <2> QED BY <1>1, <2>2, <2>3 DEF TableInv
<1> QED BY <1>7, <1>8, <1>9 DEF InsertStep

(* Every step keeps the rows of the table where a probe looks for them.    *)
LEMMA TableStep == IInv /\ [Next]_vars => TableInv'
<1> SUFFICES ASSUME IInv, [Next]_vars PROVE TableInv'
  OBVIOUS
<1>1. /\ TableInv /\ TableTypeOK /\ PhaseInv /\ \A t \in Threads : WorkerInv(t)
      /\ kind' = kind /\ hash' = hash
  BY Frame DEF IInv, BaseInv, TypeOK, Framed
<1>2. ASSUME NEW t \in Threads, WorkerStep(t) PROVE TableInv'
  <2>1. CASE Materialize(t) \/ PullChunk(t) \/ FinishProbe(t)
    BY <1>1, <2>1, TableKept DEF Materialize, PullChunk, FinishProbe, tableVars
  <2>2. CASE InsertTuple(t)
    <3> DEFINE K == Head(task[t].tuples)
               started == [fn |-> BuildFn, key |-> K, idx |-> Home(K), pc |-> "load"]
    <3>1. /\ phase' = phase /\ tags' = tags /\ rows' = rows /\ ~InCall(t)
          /\ call' = [call EXCEPT ![t] = started] /\ phase = "insert"
      BY <2>2 DEF InsertTuple, StartCall
    <3>2. Slots' = Slots /\ call'[t] = started /\ \A u \in Threads \ {t} : call'[u] = call[u]
      BY <1>1, <3>1 DEF Slots, TableTypeOK
    <3>3. K \in Keys /\ Slots # {}
      <4>1. task[t].tuples \in Seq(Keys) /\ task[t].tuples # << >>
        BY <2>2 DEF InsertTuple, IInv, BaseInv, TypeOK
      <4> QED BY <1>1, <3>1, <4>1 DEF PhaseInv
    <3> HIDE DEF K
    <3>4. call[t].pc # "populate" /\ call'[t].pc # "populate"
      BY <3>1, <3>2 DEF InCall, Returned
    <3>5. ASSUME NEW s \in Slots PROVE SlotInv(s)'
      <4>1. tags[s].fill /\ rows[s] = NoRow =>
              \E u \in Threads : call'[u].pc = "populate" /\ call'[u].idx = s
        BY <1>1, <3>2, <3>4 DEF TableInv, SlotInv
      <4>2. /\ FilledUpTo(rows[s], s)' <=> FilledUpTo(rows[s], s)
            /\ RowTags(rows[s])' = RowTags(rows[s])
        BY <1>1, <3>1, <3>2
           DEF FilledUpTo, Home, RowTags, OuterTag, PlainTag, Disabled, Marked, Inverted
      <4> QED BY <1>1, <3>1, <4>1, <4>2 DEF TableInv, SlotInv, Zero
    <3>6. ASSUME NEW u \in Threads PROVE InsertInv(u)'
      <4>1. CASE u = t
        <5>1. \A s \in Slots : ~Before(Home(K), Home(K), s)
          <6>1. Home(K) \in Slots /\ IsFiniteSet(Slots)
            BY <1>1, <3>3, SlotNumbers DEF PhaseInv
          <6> QED BY <3>3, <6>1, ProbingSlots
        <5>2. /\ call'[t].key = K /\ call'[t].idx = Home(K)
              /\ Home(call[t].key)' = Home(K)
          BY <1>1, <3>2 DEF Home
        <5>3. FilledUpTo(call[t].key, call[t].idx)'
          BY <3>2, <5>1, <5>2 DEF FilledUpTo
        <5> QED BY <3>4, <4>1, <5>3 DEF InsertInv
      <4>2. CASE u # t
        <5>1. call'[u] = call[u] /\ (InCall(u)' <=> InCall(u))
          BY <3>2, <4>2 DEF InCall
        <5>2. /\ FilledUpTo(call[u].key, call[u].idx)' <=> FilledUpTo(call[u].key, call[u].idx)
              /\ BuildTag(call[u].key)' = BuildTag(call[u].key)
          BY <1>1, <3>1, <3>2, <5>1 DEF FilledUpTo, Home, BuildTag, OuterTag, PlainTag
        <5>3. \A v \in Threads : call'[v].pc = "populate" => call'[v] = call[v]
          BY <3>2, <3>4
        <5> QED BY <1>1, <3>1, <5>1, <5>2, <5>3 DEF TableInv, InsertInv
      <4> QED BY <4>1, <4>2
    <3> QED BY <3>2, <3>5, <3>6 DEF TableInv
  <2>3. CASE Probe(t)
    BY <1>1, <2>3, TableKept DEF Probe
  <2>4. CASE CallStep(t) /\ JoinUnchanged
    BY <2>4, CallCases, TableInsert, TableLookup
  <2> QED BY <1>2, <2>1, <2>2, <2>3, <2>4 DEF WorkerStep
<1>3. CASE AllocHashTable
  <2>1. /\ phase = "build" /\ call' = call /\ IsFiniteSet(Slots) /\ TableTypeOK
        /\ tags' = [s \in 0 .. TotalSlots(TotalRows) - 1 |-> Zero]
        /\ rows' = [s \in 0 .. TotalSlots(TotalRows) - 1 |-> NoRow]
    BY <1>1, <1>3 DEF AllocHashTable, Allocate, PhaseInv
  <2>2. \A u \in Threads : ~InCall(u)' /\ ~InCall(u)
    BY <1>1, <2>1 DEF WorkerInv, InCall
  <2>3. \A s \in Slots' : SlotInv(s)'
    BY <2>1 DEF Slots, SlotInv, Zero
  <2>4. \A u \in Threads : InsertInv(u)'
    BY <2>2 DEF InsertInv
  <2> QED BY <2>3, <2>4 DEF TableInv
<1>4. CASE FinishInsert
  <2>1. /\ tags' = tags /\ rows' = rows /\ \A u \in Threads : ~InCall(u)
        /\ phase = "insert" /\ phase' = "probe" /\ Slots' = Slots
    BY <1>4 DEF FinishInsert, tableVars, Slots
  <2>2. \A u \in Threads : call[u].pc # "populate"
    BY <2>1 DEF InCall, Returned
  <2>3. ASSUME NEW s \in Slots PROVE SlotInv(s)'
    <3>1. ~(tags[s].fill /\ rows[s] = NoRow)
      BY <1>1, <2>2 DEF TableInv, SlotInv
    <3>2. /\ FilledUpTo(rows[s], s)' <=> FilledUpTo(rows[s], s)
          /\ RowTags(rows[s])' = RowTags(rows[s])
      BY <1>1, <2>1
         DEF FilledUpTo, Home, RowTags, OuterTag, PlainTag, Disabled, Marked, Inverted
    <3> QED BY <1>1, <2>1, <3>1, <3>2 DEF TableInv, SlotInv, Zero
  <2>4. \A u \in Threads : InsertInv(u)'
    BY <2>1 DEF InsertInv
  <2> QED BY <2>1, <2>3, <2>4 DEF TableInv
<1>5. CASE ProbeEnds \/ EmitRest
  BY <1>1, <1>5, TableKept DEF ProbeEnds, EmitRest, tableVars
<1>6. CASE UNCHANGED vars
  BY <1>1, <1>6, TableKept DEF vars, tableVars
<1> QED BY <1>2, <1>3, <1>4, <1>5, <1>6 DEF Next, DriverStep

-----------------------------------------------------------------------------
(* What the probes find.                                                   *)

(* A row is in one slot.                                                   *)
LEMMA UniqueRow ==
  ASSUME IInv, NEW r \in Slots, rows[r] # NoRow
  PROVE  rows[r] \in Keys /\ tags[r].fill /\ \A s \in Slots : rows[s] = rows[r] => s = r
<1>1. rows[r] \in Keys
  BY DEF IInv, BaseInv, TypeOK, TableTypeOK
<1>2. \A s \in Slots : rows[s] # NoRow => tags[s].fill
  BY DEF IInv, TableInv, SlotInv
<1>3. \A s \in Slots : rows[s] = rows[r] => InSlot(rows[r], s) /\ InSlot(rows[r], r)
  BY <1>2 DEF InSlot
<1> QED BY <1>1, <1>2, <1>3 DEF IInv, ApartInv

(* What the lookups' layer is about.                                       *)
LEMMA LookupTypes ==
  ASSUME IInv
  PROVE  /\ DOMAIN probe = 1 .. Len(probe) /\ Len(probe) \in Nat /\ probe \in Seq(Keys)
         /\ \A i \in DOMAIN probe : probe[i] \in Keys
         /\ nextProbe \in 0 .. Len(probe) /\ probing \in [Threads -> 0 .. Len(probe)]
         /\ found \in [DOMAIN probe -> Keys \cup {NoRow}]
         /\ call \in [Threads -> Calls] /\ TableTypeOK
         /\ rows \in [Slots -> Keys \cup {NoRow}] /\ NoRow \notin Keys
         /\ kind \in {"inner", "leftSemi", "leftOuter", "marking"}
         /\ phase # "probe" => \A t \in Threads : probing[t] = 0
<1>1. TypeOK /\ \A t \in Threads : WorkerInv(t)
  BY DEF IInv, BaseInv
<1>2. /\ DOMAIN probe = 1 .. Len(probe) /\ Len(probe) \in Nat /\ probe \in Seq(Keys)
      /\ kind \in {"inner", "leftSemi", "leftOuter", "marking"}
  BY <1>1, Inputs DEF TypeOK
<1>3. \A i \in DOMAIN probe : probe[i] \in Keys
  BY <1>2
<1> QED BY <1>1, <1>2, <1>3, AtomicTableAssumption DEF TypeOK, TableTypeOK, Calls, WorkerInv

(* Steps outside of the lookups.                                           *)
LEMMA LookupsKept ==
  ASSUME LookupInv, UNCHANGED <<hash, tags, rows, kind, probe, nextProbe, probing, found>>,
         \/ call' = call
         \/ probing \in [Threads -> {0}] /\ 0 \notin DOMAIN probe
  PROVE  LookupInv'
<1>1. Slots' = Slots
  BY DEF Slots
<1>4. ASSUME NEW t \in Threads PROVE ProbeInv(t)'
  <2>1. CASE probing[t] = 0
    BY <2>1 DEF ProbeInv
  <2>2. CASE call' = call /\ probing[t] # 0
    <3>1. /\ \A s \in Slots : Taken(call[t].key, s)' <=> Taken(call[t].key, s)
          /\ Home(call[t].key)' = Home(call[t].key) /\ (Hidden(call[t].key)' <=> Hidden(call[t].key))
          /\ Seen(call[t].key, call[t].idx)' <=> Seen(call[t].key, call[t].idx)
          /\ ProbeFn' = ProbeFn
      BY <1>1, <2>2 DEF Taken, Seen, Hidden, Home, Disabled, PlainTag, Inverted, ProbeFn
    <3>2. \A u \in Threads : probing'[u] = probing'[t] => u = t
      BY <2>2 DEF LookupInv, ProbeInv
    <3> QED BY <1>1, <2>2, <3>1, <3>2 DEF LookupInv, ProbeInv
  <2> QED BY <2>1, <2>2
<1>5. ASSUME NEW i \in DOMAIN probe PROVE FoundInv(i)'
  <2>1. /\ \A s \in Slots : Seen(probe[i], s)' <=> Seen(probe[i], s)
        /\ Hidden(probe[i])' <=> Hidden(probe[i])
    BY <1>1 DEF Seen, Hidden, Taken, Disabled, PlainTag, Inverted
  <2> QED BY <1>1, <2>1 DEF LookupInv, FoundInv
<1>6. ASSUME NEW s \in Slots PROVE SeenInv(s)'
  <2>1. \A i \in DOMAIN probe : FoundBy(rows[s], i)' <=> FoundBy(rows[s], i)
    BY DEF FoundBy
  <2>2. Disabled(rows[s])' = Disabled(rows[s])
    BY DEF Disabled, PlainTag, Inverted
  <2> QED BY <2>1, <2>2 DEF LookupInv, SeenInv
<1> QED BY <1>1, <1>4, <1>5, <1>6 DEF LookupInv

(* While the table is built nothing is found.                              *)
LEMMA LookupInsert ==
  ASSUME IInv, NEW t \in Threads, CallFrame(t), InsertStep(t)
  PROVE  LookupInv'
<1> DEFINE c == call[t]
<1>1. /\ phase = "insert" /\ nextProbe = 0 /\ \A u \in Threads : probing[u] = 0
      /\ nextProbe' = nextProbe /\ probing' = probing /\ found' = found /\ probe' = probe
      /\ kind' = kind /\ hash' = hash /\ Slots' = Slots
      /\ c.idx \in Slots /\ c.key \in Keys
      /\ InCall(t) /\ InsertInv(t)
  BY LookupTypes DEF CallFrame, InsertStep, inputVars, probeVars, IInv, BaseInv, PhaseInv, TableInv
<1>2. 0 \notin DOMAIN probe /\ \A i \in DOMAIN probe : found[i] = NoRow
  <2>1. \A i \in DOMAIN probe : i > 0
    BY LookupTypes
  <2> QED BY <1>1, <2>1 DEF IInv, LookupInv, FoundInv
<1>3. \A u \in Threads : ProbeInv(u)'
  BY <1>1 DEF ProbeInv
<1>4. \A i \in DOMAIN probe : FoundInv(i)'
  <2>1. \A i \in DOMAIN probe : ~(i <= nextProbe)
    BY <1>1, LookupTypes
  <2> QED BY <1>1, <1>2, <2>1 DEF FoundInv
<1>5. ASSUME NEW s \in Slots PROVE SeenInv(s)'
  <2>1. \A i \in DOMAIN probe : \A k \in Keys : ~FoundBy(k, i)' /\ ~FoundBy(k, i)
    BY <1>1, <1>2, LookupTypes DEF FoundBy
  <2>2. \/ rows'[s] = rows[s] /\ tags'[s] = tags[s]
        \/ rows'[s] = NoRow
        \/ rows'[s] = c.key /\ tags'[s] = BuildTag(c.key)
    <3>1. CASE TableSame
      BY <3>1 DEF TableSame
    <3>2. CASE /\ tags[c.idx] = Zero /\ rows' = rows
               /\ tags' = [tags EXCEPT ![c.idx] = BuildTag(c.key)]
      <4>1. rows[c.idx] = NoRow
        BY <1>1, <3>2 DEF IInv, TableInv, SlotInv, Zero
      <4> QED BY <1>1, <3>2, <4>1 DEF Slots
    <3>3. CASE c.pc = "populate" /\ tags' = tags /\ rows' = [rows EXCEPT ![c.idx] = c.key]
      BY <1>1, <3>3, LookupTypes DEF InsertInv
    <3> QED BY <3>1, <3>2, <3>3 DEF InsertStep
  <2> SUFFICES ASSUME rows'[s] # NoRow PROVE SeenInv(s)'
    BY DEF SeenInv
  <2>3. CASE rows'[s] = rows[s] /\ tags'[s] = tags[s]
    <3>1. rows[s] \in Keys /\ SeenInv(s)
      BY <2>3, LookupTypes DEF IInv, LookupInv
    <3>2. \A i \in DOMAIN probe : ~FoundBy(rows[s], i)' /\ ~FoundBy(rows[s], i)
      BY <2>1, <2>3, <3>1 DEF FoundBy
    <3>3. Disabled(rows[s])' = Disabled(rows[s])
      BY <1>1, <2>3 DEF Disabled, PlainTag, Inverted
    <3> QED BY <1>1, <2>3, <3>1, <3>2, <3>3 DEF SeenInv
  <2>4. CASE rows'[s] = c.key /\ tags'[s] = BuildTag(c.key)
    <3>1. \A i \in DOMAIN probe : ~FoundBy(rows[s], i)'
      BY <1>1, <2>1, <2>4 DEF FoundBy
    <3>2. Disabled(rows[s])' = Disabled(c.key)
      BY <1>1, <2>4 DEF Disabled, PlainTag, Inverted
    <3>3. Disabled(c.key) # PlainTag(c.key) /\ ~OuterTag(c.key).mark
      BY <1>1, LookupTypes, TagFacts
    <3> QED BY <1>1, <2>4, <3>1, <3>2, <3>3 DEF SeenInv, BuildTag
  <2> QED BY <2>2, <2>3, <2>4
<1> QED BY <1>1, <1>3, <1>4, <1>5 DEF LookupInv

(* What was taken or seen stays so while rows are looked up.               *)
LEMMA SeenStays ==
  ASSUME IInv, NEW t \in Threads, CallFrame(t), LookupStep(t)
  PROVE  /\ \A s \in Slots, k \in Keys : rows[s] = k =>
              (Taken(k, s) => Taken(k, s)') /\ (Seen(k, s) => Seen(k, s)')
         /\ \A k \in Keys : Hidden(k) => Hidden(k)'
<1> DEFINE key == call[t].key
<1>1. /\ key \in Keys /\ kind' = kind /\ hash' = hash /\ Slots' = Slots /\ rows' = rows
      /\ \A s \in Slots : TagMoves(t, s)
      /\ TableTypeOK
  BY LookupTags, LookupTypes DEF CallFrame, inputVars
<1>2. PlainTag(key) # Disabled(key) /\ Marked(OuterTag(key)).mark
  <2> HIDE DEF key
  <2> QED BY <1>1, TagFacts
<1>3. ASSUME NEW s \in Slots, NEW k \in Keys, rows[s] = k
      PROVE  (Taken(k, s) => Taken(k, s)') /\ (Seen(k, s) => Seen(k, s)')
  <2>1. Disabled(k)' = Disabled(k)
    BY <1>1 DEF Disabled, PlainTag, Inverted
  <2>2. CASE tags'[s] = tags[s]
    BY <1>1, <2>1, <2>2 DEF Taken, Seen
  <2>3. CASE tags'[s] # tags[s]
    <3>1. /\ k = key
          /\ \/ kind = "leftSemi" /\ tags[s] = PlainTag(key)
             \/ kind = "marking" /\ tags'[s] = Marked(OuterTag(key))
      BY <1>1, <1>3, <2>3 DEF TagMoves
    <3> HIDE DEF key
    <3> QED BY <1>1, <1>2, <2>1, <3>1 DEF Taken, Seen
  <2> QED BY <2>2, <2>3
<1>4. ASSUME NEW k \in Keys, Hidden(k) PROVE Hidden(k)'
  BY <1>1, <1>3, <1>4 DEF Hidden
<1> QED BY <1>3, <1>4

(* A lookup passes no slot where its row can be found.                     *)
LEMMA LookupGoesOn ==
  ASSUME IInv, NEW t \in Threads, CallFrame(t), LookupStep(t)
  PROVE  ProbeInv(t)'
<1> DEFINE c == call[t]
           next == IF c.idx = Cardinality(Slots) - 1 THEN 0 ELSE c.idx + 1
           noticed == /\ kind = "leftSemi" => tags'[c.idx] = Disabled(c.key)
                      /\ kind = "marking" => tags'[c.idx].mark
<1>1. /\ c.key \in Keys /\ c.idx \in Slots /\ kind' = kind /\ hash' = hash /\ Slots' = Slots
      /\ rows' = rows /\ probing' = probing /\ nextProbe' = nextProbe /\ found' = found
      /\ probe' = probe /\ call'[t].fn = c.fn /\ call'[t].key = c.key
      /\ \A u \in Threads \ {t} : call'[u] = call[u]
      /\ ProbeInv(t) /\ probing[t] # 0 /\ c.fn = ProbeFn /\ TableTypeOK
      /\ kind \in {"inner", "leftSemi", "leftOuter", "marking"}
  BY LookupTags, LookupTypes DEF CallFrame, LookupStep, inputVars, probeVars, IInv, LookupInv
<1>2. /\ Home(c.key)' = Home(c.key) /\ ProbeFn' = ProbeFn /\ Home(call[t].key)' = Home(c.key)
      /\ Disabled(c.key)' = Disabled(c.key)
  BY <1>1 DEF Home, ProbeFn, Disabled, PlainTag, Inverted
<1>3. /\ PlainTag(c.key) # Disabled(c.key) /\ Marked(OuterTag(c.key)).mark
      /\ OuterTag(c.key).print = hash[c.key].print
      /\ Marked(OuterTag(c.key)).print = hash[c.key].print
  BY <1>1, TagFacts
<1>4. \A s \in Slots : rows[s] = c.key =>
        /\ tags[s].fill /\ tags[s] \in RowTags(c.key) /\ FilledUpTo(c.key, s)
        /\ rows[c.idx] = c.key => s = c.idx
  <2> SUFFICES ASSUME NEW s \in Slots, rows[s] = c.key
               PROVE  /\ tags[s].fill /\ tags[s] \in RowTags(c.key) /\ FilledUpTo(c.key, s)
                      /\ rows[c.idx] = c.key => s = c.idx
    OBVIOUS
  <2>1. rows[s] # NoRow
    BY <1>1, AtomicTableAssumption
  <2>2. tags[s].fill /\ \A r \in Slots : rows[r] = rows[s] => r = s
    BY <2>1, UniqueRow
  <2> QED BY <1>1, <2>1, <2>2 DEF IInv, TableInv, SlotInv
<1>5. ASSUME \/ GoesOn(t) /\ \A s \in Slots : rows[s] = c.key /\ ~Taken(c.key, s)' =>
                               s # c.idx /\ ~Before(Home(c.key), c.idx, s)
             \/ StaysPut(t, "absent") /\ Hidden(c.key)'
             \/ StaysPut(t, "exchange") /\ kind = "leftSemi" /\ rows[c.idx] = c.key
             \/ StaysPut(t, "mark") /\ kind = "marking" /\ rows[c.idx] = c.key
             \/ StaysPut(t, "found") /\ rows[c.idx] = c.key /\ noticed
      PROVE  ProbeInv(t)'
  <2>1. /\ probing[t] <= nextProbe /\ c.key = probe[probing[t]]
        /\ \A u \in Threads : probing[u] = probing[t] => u = t
        /\ found[probing[t]] = NoRow
    BY <1>1 DEF ProbeInv
  <2>2. CASE GoesOn(t) /\ \A s \in Slots : rows[s] = c.key /\ ~Taken(c.key, s)' =>
                               s # c.idx /\ ~Before(Home(c.key), c.idx, s)
    <3>1. \A s \in Slots : rows[s] = c.key /\ ~Taken(c.key, s)' => ~Before(Home(c.key), next, s)
      BY <1>1, <2>2, ProbingSlots
    <3>2. call'[t].pc = "load" /\ call'[t].idx = next
      BY <2>2 DEF GoesOn
    <3>3. \A s \in Slots : Taken(c.key, s)' <=> Taken(call[t].key, s)'
      BY <1>1 DEF Taken, Disabled, PlainTag, Inverted
    <3> HIDE DEF next
    <3> QED BY <1>1, <1>2, <2>1, <3>1, <3>2, <3>3 DEF ProbeInv, Returned
  <2>3. CASE StaysPut(t, "absent") /\ Hidden(c.key)'
    <3>1. Hidden(call[t].key)'
      BY <1>1, <2>3 DEF Hidden, Taken, Disabled, PlainTag, Inverted
    <3> QED BY <1>1, <1>2, <2>1, <2>3, <3>1 DEF ProbeInv, Returned, StaysPut
  <2>4. CASE \/ StaysPut(t, "exchange") /\ kind = "leftSemi" /\ rows[c.idx] = c.key
             \/ StaysPut(t, "mark") /\ kind = "marking" /\ rows[c.idx] = c.key
    BY <1>1, <1>2, <2>1, <2>4 DEF ProbeInv, Returned, StaysPut
  <2>5. CASE StaysPut(t, "found") /\ rows[c.idx] = c.key /\ noticed
    <3>1. Seen(call[t].key, call[t].idx)'
      BY <1>1, <1>2, <2>5 DEF Seen, StaysPut, Disabled, PlainTag, Inverted
    <3> QED BY <1>1, <1>2, <2>1, <2>5, <3>1 DEF ProbeInv, Returned, StaysPut
  <2> QED BY <1>5, <2>2, <2>3, <2>4, <2>5
<1> DEFINE tag == tags[c.idx]
<1>6. CASE c.pc = "load" /\ TableSame
  <2>1. \A s \in Slots : rows[s] = c.key /\ ~Taken(c.key, s) => ~Before(Home(c.key), c.idx, s)
    BY <1>1, <1>6 DEF ProbeInv
  <2>2. tags' = tags /\ \A s \in Slots : Taken(c.key, s)' <=> Taken(c.key, s)
    BY <1>1, <1>2, <1>6 DEF TableSame, Taken
  <2>3. CASE ~tag.fill /\ StaysPut(t, "absent")
    <3>1. ASSUME NEW s \in Slots, rows[s] = c.key, ~Taken(c.key, s) PROVE FALSE
      <4>1. s # c.idx /\ FilledUpTo(c.key, s)
        BY <1>4, <2>3, <3>1
      <4>2. Before(Home(c.key), s, c.idx)
        BY <1>1, <2>1, <3>1, <4>1, ProbingSlots
      <4> QED BY <1>1, <2>3, <4>1, <4>2 DEF FilledUpTo
    <3>2. Hidden(c.key)'
      BY <1>1, <2>2, <3>1 DEF Hidden
    <3> QED BY <1>5, <2>3, <3>2
  <2>4. CASE tag.fill /\ ~Matches(c, tag) /\ GoesOn(t)
    <3>1. rows[c.idx] = c.key => Taken(c.key, c.idx)
      <4> SUFFICES ASSUME rows[c.idx] = c.key PROVE Taken(c.key, c.idx)
        OBVIOUS
      <4>1. tag \in RowTags(c.key)
        BY <1>1, <1>4
      <4>2. kind # "marking" => tag # PlainTag(c.key)
        BY <1>1, <2>4 DEF Matches, ProbeFn
      <4>3. kind = "marking" => tag.print # hash[c.key].print
        BY <1>1, <2>4 DEF Matches, ProbeFn
      <4>4. kind # "marking"
        BY <1>3, <4>1, <4>3 DEF RowTags
      <4> QED BY <1>1, <4>1, <4>2, <4>4 DEF RowTags, Taken
    <3> QED BY <1>5, <2>1, <2>2, <2>4, <3>1
  <2>5. CASE tag.fill /\ Matches(c, tag)
    <3>1. rows[c.idx] = c.key
      BY <2>5 DEF Matches
    <3>2. kind \in {"inner", "leftOuter"} \/ (kind = "marking" /\ tag.mark) => noticed
      BY <2>2
    <3> QED BY <1>1, <1>5, <1>6, <2>5, <3>1, <3>2 DEF LookupStep
  <2> QED BY <1>6, <2>3, <2>4, <2>5 DEF LookupStep
<1>7. CASE c.pc = "exchange"
  <2>1. rows[c.idx] = c.key /\ kind = "leftSemi"
    BY <1>1, <1>7 DEF ProbeInv
  <2>2. CASE tags' = [tags EXCEPT ![c.idx] = Disabled(c.key)] /\ StaysPut(t, "found")
    <3>1. noticed
      BY <1>1, <2>1, <2>2 DEF Slots
    <3> QED BY <1>5, <2>1, <2>2, <3>1
  <2>3. CASE tag # PlainTag(c.key) /\ TableSame /\ GoesOn(t)
    <3>1. tag = Disabled(c.key)
      BY <1>1, <1>4, <2>1, <2>3 DEF RowTags
    <3>2. \A s \in Slots : rows[s] = c.key => Taken(c.key, s)'
      BY <1>1, <1>2, <1>4, <2>1, <2>3, <3>1 DEF Taken, TableSame
    <3> QED BY <1>5, <2>3, <3>2
  <2> QED BY <1>7, <2>2, <2>3 DEF LookupStep
<1>8. CASE c.pc = "mark"
  <2>1. rows[c.idx] = c.key /\ kind = "marking"
    BY <1>1, <1>8 DEF ProbeInv
  <2>2. tags' = [tags EXCEPT ![c.idx] = Marked(OuterTag(c.key))] /\ StaysPut(t, "found")
    BY <1>8 DEF LookupStep
  <2>3. noticed
    BY <1>1, <1>3, <2>1, <2>2 DEF Slots
  <2> QED BY <1>5, <2>1, <2>2, <2>3
<1> QED BY <1>6, <1>7, <1>8 DEF LookupStep

(* A row whose tag says that nobody took it was found by no probe.         *)
LEMMA NotFoundYet ==
  ASSUME IInv, kind = "leftSemi", NEW s \in Slots, NEW k \in Keys, rows[s] = k,
         tags[s] = PlainTag(k), NEW i \in DOMAIN probe
  PROVE  ~FoundBy(k, i)
<1> SUFFICES ASSUME FoundBy(k, i) PROVE FALSE
  OBVIOUS
<1>1. k # NoRow /\ PlainTag(k) # Disabled(k)
  BY LookupTypes, TagFacts
<1>2. \A r \in Slots : rows[r] = k => ~Seen(k, r)
  BY <1>1, UniqueRow DEF Seen
<1>3. found[i] # k
  BY <1>1, <1>2 DEF IInv, LookupInv, FoundInv
<1>4. PICK t \in Threads : probing[t] = i /\ call[t].pc = "found" /\ call[t].key = k
  BY <1>3 DEF FoundBy
<1>5. probing[t] # 0
  BY <1>4, LookupTypes
<1>6. rows[call[t].idx] = k /\ Seen(k, call[t].idx)
  BY <1>4, <1>5 DEF IInv, LookupInv, ProbeInv
<1>7. call[t].idx \in Slots
  BY <1>4 DEF IInv, BaseInv, WorkerInv
<1> QED BY <1>2, <1>6, <1>7

(* The steps of a lookup.                                                  *)
LEMMA LookupCall ==
  ASSUME IInv, NEW t \in Threads, CallFrame(t), LookupStep(t)
  PROVE  LookupInv'
<1> DEFINE c == call[t]
<1>1. /\ c.key \in Keys /\ c.idx \in Slots /\ kind' = kind /\ hash' = hash /\ Slots' = Slots
      /\ rows' = rows /\ probing' = probing /\ nextProbe' = nextProbe /\ found' = found
      /\ probe' = probe /\ call'[t].key = c.key /\ InCall(t)
      /\ \A u \in Threads \ {t} : call'[u] = call[u]
      /\ probing[t] # 0 /\ \A s \in Slots : TagMoves(t, s)
      /\ LookupInv
  BY LookupTags DEF CallFrame, LookupStep, inputVars, probeVars, IInv
<1>2. /\ \A s \in Slots, k \in Keys : rows[s] = k =>
           (Taken(k, s) => Taken(k, s)') /\ (Seen(k, s) => Seen(k, s)')
      /\ \A k \in Keys : Hidden(k) => Hidden(k)'
  BY SeenStays
<1>3. /\ DOMAIN probe = 1 .. Len(probe) /\ Len(probe) \in Nat
      /\ \A i \in DOMAIN probe : probe[i] \in Keys
      /\ probing \in [Threads -> 0 .. Len(probe)]
      /\ call \in [Threads -> Calls] /\ rows \in [Slots -> Keys \cup {NoRow}] /\ NoRow \notin Keys
      /\ \A u \in Threads : call[u].key \in Keys
      /\ \A u \in Threads : call[u].pc = "found" => call[u].idx \in Slots
  BY LookupTypes DEF Calls, IInv, BaseInv, WorkerInv
<1>4. ASSUME NEW u \in Threads PROVE ProbeInv(u)'
  <2>1. CASE u = t
    BY <2>1, LookupGoesOn
  <2>2. CASE u # t /\ probing[u] # 0
    <3> DEFINE d == call[u]
    <3>1. call'[u] = d /\ d.key \in Keys /\ ProbeInv(u)
      BY <1>1, <1>3, <2>2 DEF LookupInv
    <3>2. /\ Home(call[u].key)' = Home(d.key) /\ ProbeFn' = ProbeFn
      BY <1>1, <3>1 DEF Home, ProbeFn
    <3>3. /\ \A s \in Slots : rows[s] = d.key /\ Taken(d.key, s) => Taken(call[u].key, s)'
          /\ Hidden(d.key) => Hidden(call[u].key)'
      <4>1. \A s : Taken(d.key, s)' <=> Taken(call[u].key, s)'
        BY <1>1, <3>1 DEF Taken, Disabled, PlainTag, Inverted
      <4>2. Hidden(d.key)' <=> Hidden(call[u].key)'
        BY <3>1, <1>1, <4>1 DEF Hidden
      <4> QED BY <1>2, <3>1, <4>1, <4>2
    <3>4. d.pc = "found" => Seen(call[u].key, call[u].idx)'
      <4> SUFFICES ASSUME d.pc = "found" PROVE Seen(call[u].key, call[u].idx)'
        OBVIOUS
      <4>1. d.idx \in Slots /\ rows[d.idx] = d.key /\ Seen(d.key, d.idx)
        BY <1>3, <2>2, <3>1 DEF ProbeInv
      <4>2. \A s \in Slots, k \in Keys : s = d.idx /\ k = d.key => Seen(k, s)'
        BY <1>2, <4>1
      <4>3. \A s \in Slots, k \in Keys : s = d.idx /\ k = d.key /\ Seen(k, s)' =>
              Seen(call[u].key, call[u].idx)'
        BY <3>1 DEF Seen, Disabled, PlainTag, Inverted
      <4> QED BY <3>1, <4>1, <4>2, <4>3
    <3>5. \A v \in Threads : probing'[v] = probing'[u] => v = u
      BY <1>1, <2>2, <3>1 DEF ProbeInv
    <3> QED BY <1>1, <2>2, <3>1, <3>2, <3>3, <3>4, <3>5 DEF ProbeInv
  <2>3. CASE probing[u] = 0
    BY <1>1, <2>3 DEF ProbeInv
  <2> QED BY <2>1, <2>2, <2>3
<1>5. ASSUME NEW i \in DOMAIN probe PROVE FoundInv(i)'
  <2> DEFINE k == probe[i]
  <2>1. k \in Keys /\ FoundInv(i) /\ probe'[i] = k
    BY <1>1, <1>3 DEF LookupInv
  <2>2. \A s \in Slots : rows[s] = k /\ Seen(k, s) => Seen(probe[i], s)'
    <3>1. \A s : \A key \in Keys : key = k => (Seen(probe[i], s)' <=> Seen(key, s)')
      BY <1>1 DEF Seen, Disabled, PlainTag, Inverted
    <3> QED BY <1>2, <2>1, <3>1
  <2>3. Hidden(k) => Hidden(probe[i])'
    <3>1. \A key \in Keys : key = k => (Hidden(probe[i])' <=> Hidden(key)')
      BY <1>1 DEF Hidden, Taken, Disabled, PlainTag, Inverted
    <3> QED BY <1>2, <2>1, <3>1
  <2> QED BY <1>1, <2>1, <2>2, <2>3 DEF FoundInv
<1>6. \A i \in DOMAIN probe, k \in Keys :
        FoundBy(k, i)' <=> \/ FoundBy(k, i)
                           \/ i = probing[t] /\ k = c.key /\ call'[t].pc = "found"
  <2>1. c.pc # "found"
    BY <1>1 DEF InCall, Returned
  <2> QED BY <1>1, <2>1 DEF FoundBy
<1>7. ASSUME NEW s \in Slots PROVE SeenInv(s)'
  <2> DEFINE k == rows[s]
             i0 == probing[t]
  <2> SUFFICES ASSUME k # NoRow PROVE SeenInv(s)'
    BY <1>1 DEF SeenInv
  <2>1. k \in Keys /\ rows'[s] = k /\ SeenInv(s) /\ i0 \in DOMAIN probe /\ probe[i0] = c.key
    BY <1>1, <1>3 DEF LookupInv, ProbeInv
  <2>2. Disabled(rows[s])' = Disabled(k)
    BY <1>1, <2>1 DEF Disabled, PlainTag, Inverted
  <2>3. kind = "marking" /\ tags'[s].mark => \E i \in DOMAIN probe : probe[i] = k
    <3> SUFFICES ASSUME kind = "marking", tags'[s].mark PROVE \E i \in DOMAIN probe : probe[i] = k
      OBVIOUS
    <3>1. tags'[s] = tags[s] \/ k = c.key
      BY <1>1 DEF TagMoves
    <3> QED BY <2>1, <3>1 DEF SeenInv
  <2>4. ASSUME kind = "leftSemi"
        PROVE  /\ tags'[s] = Disabled(k) => \E i \in DOMAIN probe : FoundBy(k, i)'
               /\ \A i, j \in DOMAIN probe : FoundBy(k, i)' /\ FoundBy(k, j)' => i = j
    <3>1. /\ tags[s] = Disabled(k) => \E i \in DOMAIN probe : FoundBy(k, i)
          /\ \A i, j \in DOMAIN probe : FoundBy(k, i) /\ FoundBy(k, j) => i = j
      BY <2>1, <2>4 DEF SeenInv
    <3>2. CASE k = c.key /\ call'[t].pc = "found"
      <4>1. rows[c.idx] = c.key /\ tags[c.idx] = PlainTag(c.key)
        <5>1. c.pc = "exchange" /\ tags[c.idx] = PlainTag(c.key)
          BY <2>4, <3>2 DEF LookupStep, GoesOn, StaysPut
        <5> QED BY <1>1, <5>1 DEF LookupInv, ProbeInv
      <4>2. \A i \in DOMAIN probe : ~FoundBy(k, i)
        BY <1>1, <2>4, <3>2, <4>1, NotFoundYet
      <4>3. \A i \in DOMAIN probe : FoundBy(k, i)' <=> i = i0
        BY <1>6, <2>1, <3>2, <4>2
      <4> QED BY <2>1, <4>3
    <3>3. CASE ~(k = c.key /\ call'[t].pc = "found")
      <4>1. \A i \in DOMAIN probe : FoundBy(k, i)' <=> FoundBy(k, i)
        BY <1>6, <2>1, <3>3
      <4>2. tags'[s] = tags[s]
        BY <1>1, <3>3 DEF TagMoves
      <4> QED BY <3>1, <4>1, <4>2
    <3> QED BY <3>2, <3>3
  <2>5. \A i : FoundBy(k, i)' <=> FoundBy(rows[s], i)'
    BY <2>1 DEF FoundBy
  <2> HIDE DEF k
  <2> QED BY <1>1, <2>1, <2>2, <2>3, <2>4, <2>5 DEF SeenInv, k
<1> QED BY <1>1, <1>4, <1>5, <1>7 DEF LookupInv

(* A worker picks the next row to look up.                                 *)
LEMMA LookupStarts ==
  ASSUME IInv, NEW t \in Threads, Probe(t)
  PROVE  LookupInv'
<1> DEFINE n == nextProbe + 1
           k == probe[n]
           started == [fn |-> ProbeFn, key |-> k, idx |-> Home(k), pc |-> "load"]
<1>1. /\ DOMAIN probe = 1 .. Len(probe) /\ Len(probe) \in Nat /\ nextProbe \in 0 .. Len(probe)
      /\ \A i \in DOMAIN probe : probe[i] \in Keys
      /\ probing \in [Threads -> 0 .. Len(probe)] /\ call \in [Threads -> Calls]
  BY LookupTypes
<1>2. /\ phase = "probe" /\ probing[t] = 0 /\ nextProbe < Len(probe) /\ nextProbe' = n
      /\ probing' = [probing EXCEPT ![t] = n] /\ call' = [call EXCEPT ![t] = started]
      /\ kind' = kind /\ probe' = probe /\ hash' = hash /\ tags' = tags /\ rows' = rows
      /\ found' = found /\ Slots' = Slots
  BY DEF Probe, StartCall, inputVars, Slots
<1>3. n \in DOMAIN probe /\ k \in Keys /\ n > nextProbe /\ n \in Nat /\ n # 0
  BY <1>1, <1>2
<1>4. /\ probing'[t] = n /\ call'[t] = started
      /\ \A u \in Threads \ {t} : probing'[u] = probing[u] /\ call'[u] = call[u]
  BY <1>1, <1>2
<1>5. \A u \in Threads : probing[u] # n
  BY <1>1, <1>3 DEF IInv, LookupInv, ProbeInv
<1>6. ASSUME NEW u \in Threads PROVE ProbeInv(u)'
  <2>1. CASE u = t
    <3>1. /\ call'[t].key = k /\ call'[t].fn = ProbeFn /\ call'[t].pc = "load"
          /\ call'[t].idx = Home(k) /\ ProbeFn' = ProbeFn /\ Home(call[t].key)' = Home(k)
      BY <1>2, <1>4 DEF ProbeFn, Home
    <3>2. found[n] = NoRow
      BY <1>3 DEF IInv, LookupInv, FoundInv
    <3>3. \A s \in Slots : ~Before(Home(k), Home(k), s)
      <4>1. Home(k) \in Slots
        <5>1. TableTypeOK /\ IsFiniteSet(Slots) /\ Slots # {}
          BY <1>2 DEF IInv, BaseInv, TypeOK, PhaseInv
        <5> QED BY <1>3, <5>1, SlotNumbers
      <4> QED BY <1>3, <4>1, ProbingSlots
    <3>4. \A v \in Threads : probing'[v] = n => v = t
      BY <1>4, <1>5
    <3>5. n <= nextProbe' /\ probe'[n] = k /\ found'[n] = NoRow
      BY <1>2, <1>3, <3>2
    <3> HIDE DEF n, k
    <3> QED BY <1>2, <1>4, <2>1, <3>1, <3>3, <3>4, <3>5 DEF ProbeInv, Returned
  <2>2. CASE u # t /\ probing[u] # 0
    <3>0. kind' = kind /\ hash' = hash /\ tags' = tags /\ rows' = rows /\ Slots' = Slots
      BY <1>2
    <3>1. /\ call'[u] = call[u] /\ probing'[u] = probing[u] /\ ProbeInv(u)
          /\ probing[u] <= n
      BY <1>1, <1>2, <1>4, <2>2 DEF IInv, LookupInv, ProbeInv
    <3>2. /\ \A s \in Slots : Taken(call[u].key, s)' <=> Taken(call[u].key, s)
          /\ Home(call[u].key)' = Home(call[u].key) /\ (Hidden(call[u].key)' <=> Hidden(call[u].key))
          /\ Seen(call[u].key, call[u].idx)' <=> Seen(call[u].key, call[u].idx)
          /\ ProbeFn' = ProbeFn
      BY <3>0, <3>1 DEF Taken, Seen, Hidden, Home, Disabled, PlainTag, Inverted, ProbeFn
    <3>3. \A v \in Threads : probing'[v] = probing'[u] => v = u
      BY <1>4, <1>5, <2>2, <3>1 DEF ProbeInv
    <3> HIDE DEF n
    <3> QED BY <1>2, <2>2, <3>1, <3>2, <3>3 DEF ProbeInv
  <2>3. CASE u # t /\ probing[u] = 0
    BY <1>4, <2>3 DEF ProbeInv
  <2> QED BY <2>1, <2>2, <2>3
<1>7. ASSUME NEW i \in DOMAIN probe PROVE FoundInv(i)'
  <2>1. /\ \A s \in Slots : Seen(probe[i], s)' <=> Seen(probe[i], s)
        /\ Hidden(probe[i])' <=> Hidden(probe[i])
        /\ FoundInv(i)
    BY <1>2 DEF Seen, Hidden, Taken, Disabled, PlainTag, Inverted, IInv, LookupInv
  <2>2. (\E u \in Threads : probing[u] = i) => \E u \in Threads : probing'[u] = i
    BY <1>1, <1>2, <1>4
  <2>3. i > n => i > nextProbe
    BY <1>1
  <2>4. i <= n => i <= nextProbe \/ i = n
    BY <1>1
  <2> HIDE DEF n
  <2> QED BY <1>2, <1>4, <2>1, <2>2, <2>3, <2>4 DEF FoundInv
<1>8. ASSUME NEW s \in Slots PROVE SeenInv(s)'
  <2>1. \A i \in DOMAIN probe : FoundBy(rows[s], i)' <=> FoundBy(rows[s], i)
    <3> SUFFICES ASSUME NEW i \in DOMAIN probe
                 PROVE  FoundBy(rows[s], i)' <=> FoundBy(rows[s], i)
      OBVIOUS
    <3>1. i # 0 /\ call'[t].pc # "found"
      BY <1>1, <1>4
    <3> QED BY <1>2, <1>4, <3>1 DEF FoundBy
  <2>2. Disabled(rows[s])' = Disabled(rows[s])
    BY <1>2 DEF Disabled, PlainTag, Inverted
  <2> QED BY <1>2, <2>1, <2>2 DEF IInv, LookupInv, SeenInv
<1> QED BY <1>2, <1>6, <1>7, <1>8 DEF LookupInv

(* A worker keeps what its lookup found.                                   *)
LEMMA LookupEnds ==
  ASSUME IInv, NEW t \in Threads, FinishProbe(t)
  PROVE  LookupInv'
<1> DEFINE c == call[t]
           n == probing[t]
           value == IF c.pc = "found" THEN rows[c.idx] ELSE NoRow
<1>1. /\ DOMAIN probe = 1 .. Len(probe) /\ Len(probe) \in Nat /\ nextProbe \in 0 .. Len(probe)
      /\ \A i \in DOMAIN probe : probe[i] \in Keys
      /\ probing \in [Threads -> 0 .. Len(probe)] /\ call \in [Threads -> Calls]
      /\ found \in [DOMAIN probe -> Keys \cup {NoRow}] /\ NoRow \notin Keys
      /\ rows \in [Slots -> Keys \cup {NoRow}]
  BY LookupTypes
<1>2. /\ n # 0 /\ c.pc \in Returned /\ probing' = [probing EXCEPT ![t] = 0]
      /\ found' = [found EXCEPT ![n] = value]
      /\ kind' = kind /\ probe' = probe /\ hash' = hash /\ tags' = tags /\ rows' = rows
      /\ call' = call /\ nextProbe' = nextProbe /\ Slots' = Slots
  BY DEF FinishProbe, inputVars, tableVars, Slots
<1>3. /\ n \in DOMAIN probe /\ n <= nextProbe /\ c.key = probe[n] /\ found[n] = NoRow
      /\ \A u \in Threads : probing[u] = n => u = t
      /\ c.pc = "found" => c.idx \in Slots /\ rows[c.idx] = c.key /\ Seen(c.key, c.idx)
      /\ c.pc = "absent" => Hidden(c.key)
  <2>1. n \in DOMAIN probe
    BY <1>1, <1>2
  <2> QED BY <1>2, <2>1 DEF IInv, LookupInv, ProbeInv, BaseInv, WorkerInv
<1>4. /\ probing'[t] = 0 /\ found'[n] = value /\ value = IF c.pc = "found" THEN c.key ELSE NoRow
      /\ \A u \in Threads \ {t} : probing'[u] = probing[u]
      /\ \A i \in DOMAIN probe \ {n} : found'[i] = found[i]
  BY <1>1, <1>2, <1>3
<1>5. ASSUME NEW u \in Threads PROVE ProbeInv(u)'
  <2>1. CASE u = t \/ probing[u] = 0
    BY <1>4, <2>1 DEF ProbeInv
  <2>2. CASE u # t /\ probing[u] # 0
    <3>1. /\ call'[u] = call[u] /\ probing'[u] = probing[u] /\ ProbeInv(u)
          /\ probing[u] \in DOMAIN probe /\ probing[u] # n
      BY <1>1, <1>2, <1>3, <1>4, <2>2 DEF IInv, LookupInv
    <3>2. /\ \A s \in Slots : Taken(call[u].key, s)' <=> Taken(call[u].key, s)
          /\ Home(call[u].key)' = Home(call[u].key) /\ (Hidden(call[u].key)' <=> Hidden(call[u].key))
          /\ Seen(call[u].key, call[u].idx)' <=> Seen(call[u].key, call[u].idx)
          /\ ProbeFn' = ProbeFn
      BY <1>2, <3>1 DEF Taken, Seen, Hidden, Home, Disabled, PlainTag, Inverted, ProbeFn
    <3>3. \A v \in Threads : probing'[v] = probing'[u] => v = u
      BY <1>4, <2>2, <3>1 DEF ProbeInv
    <3>4. found'[probing[u]] = found[probing[u]]
      BY <1>4, <3>1
    <3> HIDE DEF n
    <3> QED BY <1>2, <2>2, <3>1, <3>2, <3>3, <3>4 DEF ProbeInv
  <2> QED BY <2>1, <2>2
<1>6. ASSUME NEW i \in DOMAIN probe PROVE FoundInv(i)'
  <2>1. /\ \A s \in Slots : Seen(probe[i], s)' <=> Seen(probe[i], s)
        /\ Hidden(probe[i])' <=> Hidden(probe[i])
        /\ FoundInv(i)
    BY <1>2 DEF Seen, Hidden, Taken, Disabled, PlainTag, Inverted, IInv, LookupInv
  <2>2. CASE i # n
    <3>1. found'[i] = found[i]
      BY <1>4, <2>2
    <3>2. (\E u \in Threads : probing[u] = i) => \E u \in Threads : probing'[u] = i
      BY <1>4, <2>2
    <3> QED BY <1>2, <2>1, <3>1, <3>2 DEF FoundInv
  <2>3. CASE i = n
    <3>1. ~(n > nextProbe)
      BY <1>1, <1>3
    <3>2. CASE c.pc = "found"
      <4>1. found'[i] = probe[i] /\ rows[c.idx] = probe[i] /\ Seen(probe[i], c.idx)
            /\ c.idx \in Slots /\ probe[i] # NoRow
        BY <1>1, <1>3, <1>4, <2>3, <3>2
      <4> HIDE DEF c, n
      <4> QED BY <1>2, <2>1, <2>3, <3>1, <4>1 DEF FoundInv
    <3>3. CASE c.pc = "absent"
      <4>1. found'[i] = NoRow /\ Hidden(probe[i])
        BY <1>3, <1>4, <2>3, <3>3
      <4> HIDE DEF n
      <4> QED BY <1>2, <2>1, <2>3, <3>1, <4>1 DEF FoundInv
    <3> QED BY <1>2, <3>2, <3>3 DEF Returned
  <2> QED BY <2>2, <2>3
<1>7. ASSUME NEW s \in Slots PROVE SeenInv(s)'
  <2> SUFFICES ASSUME rows[s] # NoRow PROVE SeenInv(s)'
    BY <1>2 DEF SeenInv
  <2>1. \A i \in DOMAIN probe : FoundBy(rows[s], i)' <=> FoundBy(rows[s], i)
    <3> SUFFICES ASSUME NEW i \in DOMAIN probe
                 PROVE  FoundBy(rows[s], i)' <=> FoundBy(rows[s], i)
      OBVIOUS
    <3>1. CASE i # n
      <4>1. i # 0 /\ found'[i] = found[i]
        BY <1>1, <1>4, <3>1
      <4>2. \A u \in Threads : probing'[u] = i <=> probing[u] = i
        BY <1>4, <3>1, <4>1
      <4> QED BY <1>2, <4>1, <4>2 DEF FoundBy
    <3>2. CASE i = n
      <4>0. i # 0 /\ probing[t] = i /\ found[i] = NoRow
        BY <1>2, <1>3, <3>2
      <4>1. FoundBy(rows[s], i)' <=> value = rows[s]
        <5>1. \A u \in Threads : probing'[u] # i
          BY <1>1, <1>3, <1>4, <3>2, <4>0
        <5>2. found'[i] = value
          BY <1>4, <3>2
        <5> HIDE DEF value
        <5> QED BY <1>2, <5>1, <5>2 DEF FoundBy
      <4>2. FoundBy(rows[s], i) <=> c.pc = "found" /\ c.key = rows[s]
        BY <1>3, <3>2, <4>0 DEF FoundBy
      <4> QED BY <1>4, <4>1, <4>2
    <3> QED BY <3>1, <3>2
  <2>2. Disabled(rows[s])' = Disabled(rows[s])
    BY <1>2 DEF Disabled, PlainTag, Inverted
  <2> QED BY <1>2, <2>1, <2>2 DEF IInv, LookupInv, SeenInv
<1> QED BY <1>2, <1>5, <1>6, <1>7 DEF LookupInv

(* Every step keeps what the probes found.                                 *)
LEMMA LookupsStep == IInv /\ [Next]_vars => LookupInv'
<1> SUFFICES ASSUME IInv, [Next]_vars PROVE LookupInv'
  OBVIOUS
<1>1. LookupInv /\ kind' = kind /\ hash' = hash /\ probe' = probe
  BY Frame DEF IInv, Framed
<1>2. /\ phase # "probe" => probing \in [Threads -> {0}]
      /\ 0 \notin DOMAIN probe
  BY LookupTypes
<1>3. ASSUME NEW t \in Threads, WorkerStep(t) PROVE LookupInv'
  <2>1. CASE Materialize(t) \/ PullChunk(t)
    BY <1>1, <2>1, LookupsKept DEF Materialize, PullChunk, tableVars, probeVars
  <2>2. CASE InsertTuple(t)
    BY <1>1, <1>2, <2>2, LookupsKept DEF InsertTuple, probeVars
  <2>3. CASE Probe(t)
    BY <2>3, LookupStarts
  <2>4. CASE FinishProbe(t)
    BY <2>4, LookupEnds
  <2>5. CASE CallStep(t) /\ JoinUnchanged
    BY <2>5, CallCases, LookupInsert, LookupCall
  <2> QED BY <1>3, <2>1, <2>2, <2>3, <2>4, <2>5 DEF WorkerStep
<1>4. CASE AllocHashTable
  <2>1. /\ phase = "build" /\ UNCHANGED <<nextProbe, probing, found>>
        /\ rows' = [s \in 0 .. TotalSlots(TotalRows) - 1 |-> NoRow]
        /\ tags' = [s \in 0 .. TotalSlots(TotalRows) - 1 |-> Zero]
    BY <1>4 DEF AllocHashTable, Allocate, probeVars
  <2>2. nextProbe = 0 /\ \A t \in Threads : probing[t] = 0
    BY <1>2, <2>1 DEF IInv, BaseInv, PhaseInv
  <2>3. \A i \in DOMAIN probe : found[i] = NoRow /\ ~(i <= nextProbe)
    <3>1. \A i \in DOMAIN probe : i > nextProbe /\ ~(i <= nextProbe)
      BY <2>2, LookupTypes
    <3> QED BY <1>1, <3>1 DEF LookupInv, FoundInv
  <2>4. \A t \in Threads : ProbeInv(t)'
    BY <2>1, <2>2 DEF ProbeInv
  <2>5. \A i \in DOMAIN probe : FoundInv(i)'
    BY <1>1, <2>1, <2>3 DEF FoundInv
  <2>6. \A s \in Slots' : SeenInv(s)'
    BY <2>1 DEF SeenInv, Slots
  <2> QED BY <1>1, <2>4, <2>5, <2>6 DEF LookupInv
<1>5. CASE FinishInsert \/ ProbeEnds \/ EmitRest
  BY <1>1, <1>5, LookupsKept DEF FinishInsert, ProbeEnds, EmitRest, tableVars, probeVars
<1>6. CASE UNCHANGED vars
  BY <1>1, <1>6, LookupsKept DEF vars, tableVars, probeVars
<1> QED BY <1>3, <1>4, <1>5, <1>6 DEF Next, DriverStep

-----------------------------------------------------------------------------
(* The scan for rows without a match.                                      *)

(* Steps that leave the scan and the table alone.                          *)
LEMMA RestKept ==
  ASSUME RestInv, kind' = kind, rest' = rest,
         \/ phase' \notin {"rest", "done"} /\ phase \notin {"rest", "done"}
         \/ phase' = phase /\ cursor' = cursor /\ tags' = tags /\ rows' = rows
  PROVE  RestInv'
<1>1. CASE phase' \notin {"rest", "done"} /\ phase \notin {"rest", "done"}
  BY <1>1 DEF RestInv
<1>2. CASE phase' = phase /\ cursor' = cursor /\ tags' = tags /\ rows' = rows
  <2>1. /\ Outer' <=> Outer
        /\ Slots' = Slots
        /\ \A k \in Keys : Scanned(k, cursor)' <=> Scanned(k, cursor)
        /\ cursor \in Slots => (Unmatched(cursor)' <=> Unmatched(cursor))
    BY <1>2 DEF Outer, Scanned, Unmatched, Slots
  <2> QED BY <1>2, <2>1 DEF RestInv
<1> QED BY <1>1, <1>2

(* What the scan has emitted when it moves on to a slot.                   *)
LEMMA RestMoves ==
  ASSUME IInv, NEW last \in Int, phase' \in {"rest"}, kind' = kind, tags' = tags, rows' = rows,
         cursor' = NextUnmarked(last),
         \A k \in Keys : rest'[k] =
           IF \E s \in Slots : s <= last /\ Unmatched(s) /\ rows[s] = k THEN 1 ELSE 0
  PROVE  RestInv'
<1>1. /\ TableTypeOK /\ IsFiniteSet(Slots) /\ Slots' = Slots
      /\ Cardinality(Slots) \in Nat /\ Slots = 0 .. Cardinality(Slots) - 1
  <2>1. TableTypeOK /\ IsFiniteSet(Slots)
    BY DEF IInv, BaseInv, TypeOK, PhaseInv
  <2> QED BY <2>1, SlotNumbers DEF Slots
<1>2. /\ cursor' \in Nat
      /\ cursor' \in Slots => Unmatched(cursor') /\ cursor' > last
      /\ \A s \in Slots : s > last /\ s < cursor' => ~Unmatched(s)
      /\ cursor' \notin Slots => \A s \in Slots : s < cursor'
  BY <1>1, NextUnmarkedIs
<1>3. ASSUME NEW k \in Keys
      PROVE  Scanned(k, cursor') <=> \E s \in Slots : s <= last /\ Unmatched(s) /\ rows[s] = k
  <2>1. \A s \in Slots : Unmatched(s) => (s < cursor' <=> s <= last)
    BY <1>1, <1>2
  <2> QED BY <2>1 DEF Scanned
<1>4. /\ \A k \in Keys : Scanned(k, cursor)' <=> Scanned(k, cursor')
      /\ Unmatched(cursor)' <=> Unmatched(cursor')
  BY <1>1 DEF Scanned, Unmatched
<1> QED BY <1>1, <1>2, <1>3, <1>4 DEF RestInv

(* Every step keeps what the scan has emitted.                             *)
LEMMA RestStep == IInv /\ [Next]_vars => RestInv'
<1> SUFFICES ASSUME IInv, [Next]_vars PROVE RestInv'
  OBVIOUS
<1>1. /\ RestInv /\ PhaseInv /\ TypeOK /\ kind' = kind /\ \A t \in Threads : WorkerInv(t)
  BY Frame DEF IInv, BaseInv, Framed
<1>2. ASSUME NEW t \in Threads, WorkerStep(t) PROVE RestInv'
  <2>1. CASE Materialize(t) \/ PullChunk(t) \/ InsertTuple(t) \/ Probe(t)
    BY <1>1, <2>1, RestKept DEF Materialize, PullChunk, InsertTuple, Probe, restVars
  <2>2. CASE FinishProbe(t)
    BY <1>1, <2>2, RestKept DEF FinishProbe, WorkerInv, restVars, tableVars
  <2>3. CASE CallStep(t) /\ JoinUnchanged
    <3>1. phase \in {"insert", "probe"}
      BY <2>3, CallCases DEF InsertStep, LookupStep
    <3> QED BY <1>1, <2>3, <3>1, RestKept DEF JoinUnchanged, restVars
  <2> QED BY <1>2, <2>1, <2>2, <2>3 DEF WorkerStep
<1>3. CASE AllocHashTable \/ FinishInsert
  BY <1>1, <1>3, RestKept DEF AllocHashTable, FinishInsert, restVars
<1>4. CASE ProbeEnds
  <2>1. /\ phase = "probe" /\ rest' = rest /\ tags' = tags /\ rows' = rows
        /\ \A k \in Keys : rest[k] = 0
    BY <1>1, <1>4 DEF ProbeEnds, RestInv, tableVars
  <2>2. CASE Outer
    <3>1. phase' = "rest" /\ cursor' = NextUnmarked(-1)
      BY <1>4, <2>2 DEF ProbeEnds, Outer
    <3>2. \A s \in Slots : ~(s <= -1)
      <4>1. TableTypeOK /\ IsFiniteSet(Slots)
        BY <1>1 DEF TypeOK, PhaseInv
      <4> QED BY <4>1, SlotNumbers
    <3> QED BY <1>1, <2>1, <3>1, <3>2, RestMoves
  <2>3. CASE ~Outer
    BY <1>1, <1>4, <2>3 DEF ProbeEnds, Outer, RestInv
  <2> QED BY <2>2, <2>3
<1>5. CASE EmitRest
  <2>1. /\ phase = "rest" /\ Outer /\ tags' = tags /\ rows' = rows /\ cursor \in Nat
        /\ Slots' = Slots /\ rest \in [Keys -> Nat]
    BY <1>1, <1>5 DEF EmitRest, PhaseInv, tableVars, TypeOK, Slots
  <2>2. Cardinality(Slots) \in Nat /\ Slots = 0 .. Cardinality(Slots) - 1
    <3>1. TableTypeOK /\ IsFiniteSet(Slots)
      BY <1>1 DEF TypeOK, PhaseInv
    <3> QED BY <3>1, SlotNumbers
  <2>3. \A k \in Keys : rest[k] = IF Scanned(k, cursor) THEN 1 ELSE 0
    BY <1>1, <2>1 DEF RestInv
  <2>4. CASE cursor \notin Slots
    <3>1. phase' = "done" /\ rest' = rest /\ cursor' = cursor
      BY <1>5, <2>4 DEF EmitRest, restVars
    <3>2. \A s \in Slots : s < cursor
      BY <2>1, <2>2, <2>4
    <3>3. \A k \in Keys : Scanned(k, cursor)' <=> Scanned(k, cursor)
      BY <2>1, <3>1 DEF Scanned, Unmatched
    <3> QED BY <2>1, <2>3, <2>4, <3>1, <3>2, <3>3 DEF RestInv
  <2>5. CASE cursor \in Slots
    <3> DEFINE row == rows[cursor]
    <3>1. /\ phase' = "rest" /\ cursor' = NextUnmarked(cursor)
          /\ rest' = [rest EXCEPT ![row] = @ + 1]
      BY <1>5, <2>1, <2>5 DEF EmitRest
    <3>2. Unmatched(cursor)
      BY <1>1, <2>1, <2>5 DEF RestInv
    <3>3. row # NoRow
      BY <2>1, <2>5, <3>2 DEF IInv, TableInv, SlotInv, Unmatched
    <3>4. row \in Keys /\ \A s \in Slots : rows[s] = row => s = cursor
      BY <2>5, <3>3, UniqueRow
    <3>5. ~Scanned(row, cursor)
      BY <2>1, <3>4 DEF Scanned
    <3>6. ASSUME NEW k \in Keys
          PROVE  rest'[k] = IF \E s \in Slots : s <= cursor /\ Unmatched(s) /\ rows[s] = k
                              THEN 1 ELSE 0
      <4>1. (\E s \in Slots : s <= cursor /\ Unmatched(s) /\ rows[s] = k)
              <=> (Scanned(k, cursor) \/ k = row)
        BY <2>1, <2>2, <2>5, <3>2 DEF Scanned
      <4>2. rest'[k] = IF k = row THEN rest[k] + 1 ELSE rest[k]
        BY <2>1, <3>1, <3>4
      <4> QED BY <2>3, <3>5, <4>1, <4>2
    <3>7. cursor \in Int
      BY <2>1
    <3> QED BY <1>1, <2>1, <3>1, <3>6, <3>7, RestMoves
  <2> QED BY <2>4, <2>5
<1>6. CASE UNCHANGED vars
  BY <1>1, <1>6, RestKept DEF vars, restVars, tableVars
<1> QED BY <1>2, <1>3, <1>4, <1>5, <1>6 DEF Next, DriverStep

-----------------------------------------------------------------------------
(* The inductive invariant.                                                *)

(* It holds before anything runs.                                          *)
LEMMA InvariantInit == Init => IInv
<1> SUFFICES ASSUME Init PROVE IInv
  OBVIOUS
<1>1. /\ BaseInv /\ ChunksInv /\ SizeInv /\ phase = "build" /\ kind \in Kinds
      /\ build \in Builds /\ probe \in Probes
      /\ nextProbe = 0 /\ rest = [k \in Keys |-> 0]
      /\ found = [i \in DOMAIN probe |-> NoRow]
      /\ probing = [t \in Threads |-> 0] /\ Slots = {}
  BY BaseInit, ChunksInit, SizeInit DEF Init, TableInit, Slots
<1>2. PulledInv /\ ApartInv
  BY <1>1, NothingPulled
<1>3. TableInv
  BY <1>1 DEF TableInv, InsertInv
<1>4. LookupInv
  <2>1. \A i \in DOMAIN probe : ~(i <= 0)
    BY <1>1, Inputs
  <2> QED BY <1>1, <2>1 DEF LookupInv, ProbeInv, FoundInv
<1>5. RestInv
  BY <1>1 DEF RestInv
<1> QED BY <1>1, <1>2, <1>3, <1>4, <1>5 DEF IInv

(* Every step keeps it, and so it holds of every state.                    *)
THEOREM InvariantCorrect == Spec => []IInv
<1>1. Init => IInv
  BY InvariantInit
<1>2. IInv /\ [Next]_vars => IInv'
  BY BaseStep, ChunksStep, PlacesStep, TableStep, LookupsStep, RestStep DEF IInv
<1> QED BY <1>1, <1>2, PTL DEF Spec

-----------------------------------------------------------------------------
(* What the invariant says of the build side.                              *)

(* A set with one element.                                                 *)
LEMMA OneElement ==
  ASSUME NEW S, NEW x \in S, \A y \in S : y = x
  PROVE  Cardinality(S) = 1
<1>1. S = {x}
  OBVIOUS
<1> QED BY <1>1, FS_Singleton

(* The places of a row, in the terms of the invariant.                     *)
LEMMA PlacesOf ==
  ASSUME NEW k
  PROVE  \A x : x \in Places(k) <=>
           \/ \E i \in nextBuild + 1 .. Len(build) : build[i] = k /\ x = <<"input", i>>
           \/ \E t \in Threads, c \in ChunkNos, i \in RowNos :
                c > offset[t] /\ Holds(t, c, i, k) /\ x = <<"chunk", <<t, c, i>>>>
           \/ \E t \in Threads, i \in RowNos : InTask(k, t, i) /\ x = <<"task", <<t, i>>>>
           \/ \E t \in Threads : Inserting(k, t) /\ x = <<"insert", t>>
           \/ \E s \in Slots : InSlot(k, s) /\ x = <<"slot", s>>
<1> SUFFICES ASSUME NEW x
             PROVE  x \in Places(k) <=>
           \/ \E i \in nextBuild + 1 .. Len(build) : build[i] = k /\ x = <<"input", i>>
           \/ \E t \in Threads, c \in ChunkNos, i \in RowNos :
                c > offset[t] /\ Holds(t, c, i, k) /\ x = <<"chunk", <<t, c, i>>>>
           \/ \E t \in Threads, i \in RowNos : InTask(k, t, i) /\ x = <<"task", <<t, i>>>>
           \/ \E t \in Threads : Inserting(k, t) /\ x = <<"insert", t>>
           \/ \E s \in Slots : InSlot(k, s) /\ x = <<"slot", s>>
  OBVIOUS
<1>1. x \in {"input"} \X InInput(k) <=>
        \E i \in nextBuild + 1 .. Len(build) : build[i] = k /\ x = <<"input", i>>
  BY DEF InInput
<1>2. x \in {"chunk"} \X InChunks(k) <=>
        \E t \in Threads, c \in ChunkNos, i \in RowNos :
          c > offset[t] /\ Holds(t, c, i, k) /\ x = <<"chunk", <<t, c, i>>>>
  BY DEF InChunks, ChunkNos, RowNos
<1>3. x \in {"task"} \X InTasks(k) <=>
        \E t \in Threads, i \in RowNos : InTask(k, t, i) /\ x = <<"task", <<t, i>>>>
  BY DEF InTasks, InTask, RowNos
<1>4. x \in {"insert"} \X InInserts(k) <=>
        \E t \in Threads : Inserting(k, t) /\ x = <<"insert", t>>
  BY DEF InInserts, Inserting
<1>5. x \in {"slot"} \X InSlots(k) <=> \E s \in Slots : InSlot(k, s) /\ x = <<"slot", s>>
  BY DEF InSlots, InSlot
<1> QED BY <1>1, <1>2, <1>3, <1>4, <1>5 DEF Places

(* Where a row is not; the places exclude each other.                      *)
LEMMA OnePlace == IInv => BuiltOnce
<1> SUFFICES ASSUME IInv, NEW k \in Elements(build) PROVE Cardinality(Places(k)) = 1
  BY DEF BuiltOnce
<1>1. /\ Len(build) \in Nat /\ DOMAIN build = 1 .. Len(build) /\ nextBuild \in 0 .. Len(build)
      /\ \A i, j \in 1 .. Len(build) : build[i] = build[j] => i = j
      /\ offset \in [Threads -> Nat] /\ build \in Seq(Keys)
  BY Inputs DEF IInv, BaseInv, TypeOK
<1>2. PICK j \in 1 .. Len(build) : build[j] = k
  BY <1>1 DEF Elements
<1>3. k \in Keys
  BY <1>1, <1>2
<1> DEFINE Input(i) == i \in nextBuild + 1 .. Len(build) /\ build[i] = k
           Held(t, c, i) == t \in Threads /\ c \in ChunkNos /\ i \in RowNos /\ Holds(t, c, i, k)
           Chunk(t, c, i) == c > offset[t] /\ Held(t, c, i)
           Task(t, i) == t \in Threads /\ i \in RowNos /\ InTask(k, t, i)
           Insert(t) == t \in Threads /\ Inserting(k, t)
           Slot(s) == s \in Slots /\ InSlot(k, s)
<1>4. \A x : x \in Places(k) <=>
        \/ \E i : Input(i) /\ x = <<"input", i>>
        \/ \E t, c, i : Chunk(t, c, i) /\ x = <<"chunk", <<t, c, i>>>>
        \/ \E t, i : Task(t, i) /\ x = <<"task", <<t, i>>>>
        \/ \E t : Insert(t) /\ x = <<"insert", t>>
        \/ \E s : Slot(s) /\ x = <<"slot", s>>
  BY PlacesOf
<1>5. /\ \A i, i2 : Input(i) /\ Input(i2) => i = i2
      /\ (\E t, c, i : Held(t, c, i)) => ~ \E i : Input(i)
      /\ j > nextBuild => Input(j)
      /\ j <= nextBuild => \E t, c, i : Held(t, c, i)
  <2>1. (\E t, c, i : Held(t, c, i)) => \E n \in 1 .. nextBuild : build[n] = k
    BY <1>3 DEF IInv, ChunksInv
  <2>2. \A i : Input(i) => i = j
    BY <1>1, <1>2
  <2>3. j \in 1 .. nextBuild => \E t, c, i : Held(t, c, i)
    BY <1>2 DEF IInv, ChunksInv
  <2> QED BY <1>1, <1>2, <2>1, <2>2, <2>3
<1>6. /\ \A t, c, i, u, d, i2 : Held(t, c, i) /\ Held(u, d, i2) => t = u /\ c = d /\ i = i2
      /\ Pulled(k) <=> \E t, c, i : Held(t, c, i) /\ c <= offset[t]
  <2>1. \A t, c, i, u, d, i2 : Held(t, c, i) /\ Held(u, d, i2) => t = u /\ c = d /\ i = i2
    BY <1>3 DEF IInv, ChunksInv
  <2> QED BY <2>1 DEF Pulled
<1>7. /\ Pulled(k) <=> (\E t, i : Task(t, i)) \/ (\E t : Insert(t)) \/ (\E s : Slot(s))
      /\ \A t, i, u, i2 : Task(t, i) /\ Task(u, i2) => t = u /\ i = i2
      /\ \A t, u : Insert(t) /\ Insert(u) => t = u
      /\ \A r, s : Slot(r) /\ Slot(s) => r = s
      /\ \A t, i, u : ~(Task(t, i) /\ Insert(u))
      /\ \A t, i, s : ~(Task(t, i) /\ Slot(s))
      /\ \A t, s : ~(Insert(t) /\ Slot(s))
  <2>1. PulledInv /\ ApartInv
    BY DEF IInv
  <2>2. Pulled(k) <=> (\E t, i : Task(t, i)) \/ (\E t : Insert(t)) \/ (\E s : Slot(s))
    BY <1>3, <2>1 DEF PulledInv
  <2> QED BY <1>3, <2>1, <2>2 DEF ApartInv
<1>8. ~(Pulled(k) /\ \E t, c, i : Chunk(t, c, i))
  <2>1. \A t, c, i : Held(t, c, i) => c \in Int /\ offset[t] \in Int
    BY <1>1 DEF ChunkNos
  <2> HIDE DEF Held
  <2> QED BY <1>6, <2>1
<1>9. Pulled(k) \/ (\E t, c, i : Chunk(t, c, i)) \/ \E i : Input(i)
  <2>1. \A t, c, i : Held(t, c, i) => c \in Int /\ offset[t] \in Int
    BY <1>1 DEF ChunkNos
  <2> HIDE DEF Held, Input
  <2> QED BY <1>1, <1>5, <1>6, <2>1
<1>10. (\E t, c, i : Chunk(t, c, i)) => ~ \E i : Input(i)
  <2> HIDE DEF Held, Input
  <2> QED BY <1>5
<1>11. Pulled(k) => ~ \E i : Input(i)
  <2> HIDE DEF Held, Input
  <2> QED BY <1>5, <1>6
<1>12. \A t, c, i, u, d, i2 : Chunk(t, c, i) /\ Chunk(u, d, i2) => t = u /\ c = d /\ i = i2
  <2> HIDE DEF Held
  <2> QED BY <1>6
<1> HIDE DEF Input, Chunk, Task, Insert, Slot
<1>13. \E x : x \in Places(k)
  <2>1. /\ \A i : Input(i) => <<"input", i>> \in Places(k)
        /\ \A t, c, i : Chunk(t, c, i) => <<"chunk", <<t, c, i>>>> \in Places(k)
        /\ \A t, i : Task(t, i) => <<"task", <<t, i>>>> \in Places(k)
        /\ \A t : Insert(t) => <<"insert", t>> \in Places(k)
        /\ \A s : Slot(s) => <<"slot", s>> \in Places(k)
    BY <1>4
  <2>2. CASE \E i : Input(i)
    BY <2>1, <2>2
  <2>3. CASE \E t, c, i : Chunk(t, c, i)
    BY <2>1, <2>3
  <2>4. CASE Pulled(k)
    <3>1. CASE \E t, i : Task(t, i)
      BY <2>1, <3>1
    <3>2. CASE \E t : Insert(t)
      BY <2>1, <3>2
    <3>3. CASE \E s : Slot(s)
      BY <2>1, <3>3
    <3> QED BY <1>7, <2>4, <3>1, <3>2, <3>3
  <2> QED BY <1>9, <2>2, <2>3, <2>4
<1>14. \A x, y : x \in Places(k) /\ y \in Places(k) => x = y
  <2>1. CASE Pulled(k)
    <3>1. \A x : x \in Places(k) <=>
            \/ \E t, i : Task(t, i) /\ x = <<"task", <<t, i>>>>
            \/ \E t : Insert(t) /\ x = <<"insert", t>>
            \/ \E s : Slot(s) /\ x = <<"slot", s>>
      BY <1>4, <1>8, <1>11, <2>1
    <3> QED BY <1>7, <3>1
  <2>2. CASE \E t, c, i : Chunk(t, c, i)
    BY <1>4, <1>7, <1>8, <1>10, <1>12, <2>2
  <2>3. CASE ~Pulled(k) /\ ~ \E t, c, i : Chunk(t, c, i)
    BY <1>4, <1>5, <1>7, <2>3
  <2> QED BY <2>1, <2>2, <2>3
<1> QED BY <1>13, <1>14, OneElement

(* While workers materialize rows, pull each other's chunks and race for   *)
(* slots, every build row is in exactly one place (BuiltOnce).             *)
THEOREM BuiltOnceCorrect == Spec => []BuiltOnce
BY InvariantCorrect, OnePlace, PTL

(* A filled slot belongs to one build row: the row in it, or the one whose *)
(* insert claimed it.                                                      *)
Owns(k, s) ==
  \/ InSlot(k, s)
  \/ \E t \in Threads : Inserting(k, t) /\ call[t].pc = "populate" /\ call[t].idx = s

(* A filled slot has exactly one build row that claimed it, and a build row
   claimed at most one slot. *)
LEMMA Owners ==
  ASSUME IInv
  PROVE  /\ \A s \in Slots : tags[s].fill =>
              \E j \in 1 .. Len(build) : Owns(build[j], s)
         /\ \A r, s \in Slots, j \in 1 .. Len(build) :
              Owns(build[j], r) /\ Owns(build[j], s) => r = s
<1>1. /\ Len(build) \in Nat /\ nextBuild \in 0 .. Len(build) /\ build \in Seq(Keys)
      /\ \A j \in 1 .. Len(build) : build[j] \in Keys
      /\ rows \in [Slots -> Keys \cup {NoRow}]
      /\ \A t \in Threads : call[t].key \in Keys
      /\ PulledInv /\ ApartInv /\ ChunksInv
  <2>1. build \in Seq(Keys) /\ TypeOK
    BY Inputs DEF IInv, BaseInv, TypeOK
  <2>2. \A j \in 1 .. Len(build) : build[j] \in Keys
    BY <2>1
  <2> QED BY <2>1, <2>2, Inputs DEF IInv, BaseInv, TypeOK, TableTypeOK
<1>2. \A s \in Slots : tags[s].fill => \E k \in Keys : Owns(k, s)
  <2> SUFFICES ASSUME NEW s \in Slots, tags[s].fill PROVE \E k \in Keys : Owns(k, s)
    OBVIOUS
  <2>1. CASE rows[s] # NoRow
    <3>1. rows[s] \in Keys /\ InSlot(rows[s], s)
      BY <1>1, <2>1 DEF InSlot
    <3> QED BY <3>1 DEF Owns
  <2>2. CASE rows[s] = NoRow
    <3>1. PICK t \in Threads : call[t].pc = "populate" /\ call[t].idx = s /\ phase = "insert"
      BY <2>2 DEF IInv, TableInv, SlotInv
    <3>2. Inserting(call[t].key, t)
      BY <3>1 DEF Inserting, InCall, Returned
    <3> QED BY <1>1, <3>1, <3>2 DEF Owns
  <2> QED BY <2>1, <2>2
<1>3. \A s \in Slots, k \in Keys : Owns(k, s) => \E j \in 1 .. Len(build) : build[j] = k
  <2> SUFFICES ASSUME NEW s \in Slots, NEW k \in Keys, Owns(k, s)
               PROVE  \E j \in 1 .. Len(build) : build[j] = k
    OBVIOUS
  <2>1. Pulled(k)
    BY <1>1 DEF Owns, PulledInv
  <2>2. \E j \in 1 .. nextBuild : build[j] = k
    BY <1>1, <2>1 DEF Pulled, ChunksInv
  <2> QED BY <1>1, <2>2
<1>4. \A r, s \in Slots, k \in Keys : Owns(k, r) /\ Owns(k, s) => r = s
  BY <1>1 DEF Owns, ApartInv
<1> QED BY <1>1, <1>2, <1>3, <1>4

(* So at most as many slots are filled as there are build rows.            *)
LEMMA EnoughSlots == IInv => HalfEmpty
<1> SUFFICES ASSUME IInv, phase # "build"
             PROVE  2 * Cardinality({s \in Slots : tags[s].fill}) <= Cardinality(Slots)
  BY DEF HalfEmpty
<1> DEFINE filled == {s \in Slots : tags[s].fill}
           row == [s \in filled |-> CHOOSE j \in 1 .. Len(build) : Owns(build[j], s)]
<1>1. /\ Len(build) \in Nat /\ IsFiniteSet(Slots) /\ IsFiniteSet(1 .. Len(build))
      /\ Cardinality(1 .. Len(build)) = Len(build)
  <2>1. Len(build) \in Nat /\ IsFiniteSet(Slots)
    BY Inputs DEF IInv, BaseInv, TypeOK, PhaseInv
  <2>2. \A n \in Nat : IsFiniteSet(1 .. n) /\ Cardinality(1 .. n) = n
    BY FS_Interval
  <2> QED BY <2>1, <2>2
<1>2. /\ row \in [filled -> 1 .. Len(build)]
      /\ \A s \in filled : Owns(build[row[s]], s)
  BY Owners
<1>3. \A r, s \in filled : row[r] = row[s] => r = s
  <2>1. \A s \in filled : row[s] \in 1 .. Len(build)
    BY <1>2
  <2> HIDE DEF row
  <2> QED BY <1>2, <2>1, Owners
<1>4. row \in Injection(filled, 1 .. Len(build))
  <2> HIDE DEF row, filled
  <2> QED BY <1>2, <1>3 DEF Injection, IsInjective
<1> HIDE DEF row
<1>5. IsFiniteSet(filled) /\ Cardinality(filled) <= Len(build)
  BY <1>1, <1>4, FS_Injection
<1>6. Cardinality(filled) \in Nat /\ Cardinality(Slots) \in Nat
  BY <1>1, <1>5, FS_CardinalityType
<1>7. Cardinality(Slots) >= 2 * Len(build)
  BY DEF IInv, SizeInv
<1> DEFINE m == Cardinality(filled)
           n == Cardinality(Slots)
<1>8. m \in Nat /\ n \in Nat /\ m <= Len(build) /\ n >= 2 * Len(build)
  BY <1>5, <1>6, <1>7
<1> HIDE DEF m, n
<1>9. 2 * m <= n
  BY <1>1, <1>8
<1> QED BY <1>9 DEF m, n

(* Half of the slots stay empty, however many rows the build side has      *)
(* (HalfEmpty).                                                            *)
THEOREM HalfEmptyCorrect == Spec => []HalfEmpty
BY InvariantCorrect, EnoughSlots, PTL

-----------------------------------------------------------------------------
(* What the invariant says of the result.                                  *)

(* Once the inserts are over the rows of the table are the build rows.     *)
LEMMA AllRowsIn ==
  ASSUME IInv, phase = "done", NEW k \in Keys
  PROVE  k \in Elements(build) <=> \E s \in Slots : rows[s] = k
<1>1. /\ Len(build) \in Nat /\ DOMAIN build = 1 .. Len(build) /\ nextBuild = Len(build)
      /\ offset \in [Threads -> Nat] /\ NumThreads \in Nat \ {0}
      /\ \A t \in Threads : task[t].handle = NumThreads /\ task[t].tuples = << >>
      /\ \A t, h \in Threads : h < task[t].handle => offset[h] >= Len(materializers[h])
      /\ materializers \in [Threads -> Seq(Seq(Keys))]
  BY Inputs, AtomicTableAssumption DEF IInv, BaseInv, TypeOK, PhaseInv, WorkerInv
<1>2. ASSUME k \in Elements(build) PROVE \E s \in Slots : rows[s] = k
  <2>1. PICK j \in 1 .. nextBuild : build[j] = k
    BY <1>1, <1>2 DEF Elements
  <2>2. PICK t \in Threads, c \in ChunkNos, i \in RowNos : Holds(t, c, i, k)
    BY <2>1 DEF IInv, ChunksInv
  <2>3. c <= offset[t]
    <3>1. 0 \in Threads /\ t \in Int /\ t < NumThreads
      BY <1>1 DEF Threads
    <3>2. offset[t] >= Len(materializers[t])
      BY <1>1, <3>1
    <3>3. /\ c \in 1 .. Len(materializers[t]) /\ Len(materializers[t]) \in Nat
          /\ offset[t] \in Nat
      BY <1>1, <2>2 DEF Holds
    <3> QED BY <3>2, <3>3
  <2>4. Pulled(k)
    BY <2>2, <2>3 DEF Pulled
  <2>5. /\ \A u \in Threads, n \in RowNos : ~InTask(k, u, n)
        /\ \A u \in Threads : ~Inserting(k, u)
    BY <1>1 DEF InTask, Inserting
  <2> QED BY <2>4, <2>5 DEF IInv, PulledInv, InSlot
<1>3. ASSUME NEW s \in Slots, rows[s] = k PROVE k \in Elements(build)
  <2>1. InSlot(k, s)
    BY <1>3, UniqueRow, AtomicTableAssumption DEF InSlot
  <2>2. Pulled(k)
    BY <2>1 DEF IInv, PulledInv
  <2>3. \E j \in 1 .. nextBuild : build[j] = k
    BY <2>2 DEF IInv, ChunksInv, Pulled
  <2> QED BY <1>1, <2>3 DEF Elements
<1> QED BY <1>2, <1>3

(* What the probes have found when the join is done.                       *)
LEMMA AllProbesFound ==
  ASSUME IInv, phase = "done", NEW i \in DOMAIN probe
  PROVE  /\ found[i] # NoRow =>
              found[i] = probe[i] /\ \E s \in Slots : rows[s] = probe[i] /\ Seen(probe[i], s)
         /\ found[i] = NoRow => Hidden(probe[i])
         /\ \A k : FoundBy(k, i) <=> found[i] = k
<1>1. nextProbe = Len(probe) /\ \A t \in Threads : probing[t] = 0
  BY LookupTypes DEF IInv, BaseInv, PhaseInv
<1>2. i <= nextProbe /\ i # 0 /\ FoundInv(i)
  BY <1>1, LookupTypes DEF IInv, LookupInv
<1>3. \A t \in Threads : probing[t] # i
  BY <1>1, <1>2
<1> QED BY <1>2, <1>3 DEF FoundInv, FoundBy

(* The result of a join that is done; what an outer join emits after the   *)
(* probes is right when its lookups mark the rows they find.               *)
LEMMA ResultExact ==
  ASSUME IInv, phase = "done", kind # "leftOuter"
  PROVE  JoinExact
<1>1. ASSUME kind # "leftSemi", NEW i \in DOMAIN probe
      PROVE  found[i] = IF probe[i] \in Elements(build) THEN probe[i] ELSE NoRow
  <2>1. probe[i] \in Keys
    BY LookupTypes
  <2>2. found[i] = NoRow => ~ \E s \in Slots : rows[s] = probe[i]
    BY <1>1, AllProbesFound DEF Hidden, Taken
  <2> QED BY <2>1, <2>2, AllRowsIn, AllProbesFound
<1>2. ASSUME kind = "leftSemi", NEW k \in Keys
      PROVE  Cardinality({i \in DOMAIN probe : found[i] = k})
               = Cardinality({k} \cap Elements(build) \cap Elements(probe))
  <2> DEFINE finds == {i \in DOMAIN probe : found[i] = k}
             both == {k} \cap Elements(build) \cap Elements(probe)
  <2>1. CASE k \in Elements(build) /\ k \in Elements(probe)
    <3>1. PICK s \in Slots : rows[s] = k
      BY <2>1, AllRowsIn
    <3>2. PICK i \in DOMAIN probe : probe[i] = k
      BY <2>1 DEF Elements
    <3>3. k # NoRow /\ \A r \in Slots : rows[r] = k => r = s
      BY <3>1, UniqueRow, AtomicTableAssumption
    <3>4. tags[s] = Disabled(k)
      BY <1>2, <3>1, <3>2, <3>3, AllProbesFound DEF Hidden, Taken, Seen
    <3>5. SeenInv(s)
      BY DEF IInv, LookupInv
    <3>6. PICK j \in DOMAIN probe : FoundBy(k, j)
      BY <1>2, <3>1, <3>3, <3>4, <3>5 DEF SeenInv
    <3>7. \A n \in DOMAIN probe : FoundBy(k, n) => n = j
      BY <1>2, <3>1, <3>3, <3>5, <3>6 DEF SeenInv
    <3>8. j \in finds /\ \A n \in finds : n = j
      BY <3>6, <3>7, AllProbesFound
    <3>9. Cardinality(finds) = 1
      <4> HIDE DEF finds
      <4> QED BY <3>8, OneElement
    <3>10. Cardinality(both) = 1
      <4>1. both = {k}
        BY <2>1
      <4> QED BY <4>1, FS_Singleton
    <3> QED BY <3>9, <3>10
  <2>2. CASE k \notin Elements(build) \/ k \notin Elements(probe)
    <3>1. finds = {}
      <4> SUFFICES ASSUME NEW i \in DOMAIN probe, found[i] = k PROVE FALSE
        OBVIOUS
      <4>1. probe[i] = k /\ \E s \in Slots : rows[s] = k
        BY AllProbesFound, AtomicTableAssumption
      <4>2. k \in Elements(probe)
        BY <4>1 DEF Elements
      <4> QED BY <2>2, <4>1, <4>2, AllRowsIn
    <3>2. both = {}
      BY <2>2
    <3> QED BY <3>1, <3>2
  <2> QED BY <2>1, <2>2
<1>3. ASSUME kind \in {"leftOuter", "marking"}, NEW k \in Keys
      PROVE  rest[k] = Cardinality(({k} \cap Elements(build)) \ Elements(probe))
  <2> DEFINE missed == ({k} \cap Elements(build)) \ Elements(probe)
  <2>0. kind = "marking"
    BY <1>3
  <2>1. rest[k] = IF \E s \in Slots : Unmatched(s) /\ rows[s] = k THEN 1 ELSE 0
    BY <1>3 DEF IInv, RestInv, Outer, Scanned
  <2>2. ASSUME NEW s \in Slots, rows[s] = k
        PROVE  Unmatched(s) <=> k \notin Elements(probe)
    <3>1. /\ k # NoRow /\ tags[s].fill
          /\ \A r \in Slots : rows[r] = k => r = s
      BY <2>2, UniqueRow, AtomicTableAssumption
    <3>2. tags[s].mark => k \in Elements(probe)
      BY <2>0, <2>2, <3>1 DEF IInv, LookupInv, SeenInv, Elements
    <3>3. ASSUME NEW i \in DOMAIN probe, probe[i] = k PROVE tags[s].mark
      <4>1. found[i] # NoRow
        BY <2>0, <2>2, <3>3, AllProbesFound DEF Hidden, Taken
      <4> QED BY <2>0, <3>1, <3>3, <4>1, AllProbesFound DEF Seen
    <3> QED BY <3>1, <3>2, <3>3 DEF Unmatched, Elements
  <2>3. CASE k \in Elements(build) /\ k \notin Elements(probe)
    <3>1. rest[k] = 1
      BY <2>1, <2>2, <2>3, AllRowsIn
    <3>2. missed = {k}
      BY <2>3
    <3> QED BY <3>1, <3>2, FS_Singleton
  <2>4. CASE k \notin Elements(build) \/ k \in Elements(probe)
    <3>1. rest[k] = 0
      BY <2>1, <2>2, <2>4, AllRowsIn
    <3>2. missed = {}
      BY <2>4
    <3> QED BY <3>1, <3>2, FS_EmptySet
  <2> QED BY <2>3, <2>4
<1> QED BY <1>1, <1>2, <1>3 DEF JoinExact

(* An inner join finds the build row of every probe that has one, a semi   *)
(* join emits every build row with a match once, and a join that marks the *)
(* rows its lookups find emits those without a match, each once            *)
(* (JoinExact). The left outer join of the planner looks up without        *)
(* marking and is the exception that the run outer_join shows.             *)
THEOREM JoinExactCorrect == Spec => [](kind # "leftOuter" => JoinExact)
<1>1. IInv => (kind # "leftOuter" => JoinExact)
  BY ResultExact DEF JoinExact
<1> QED BY <1>1, InvariantCorrect, PTL
=============================================================================
