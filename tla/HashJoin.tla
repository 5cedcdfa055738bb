------------------------------ MODULE HashJoin ------------------------------
(***************************************************************************)
(* A primary key join. The build pipeline materializes the rows of the     *)
(* build side, every worker into chunks of its own. A runtime task         *)
(* allocates a table for all of them; its workers pull chunks, of any      *)
(* worker, and insert the rows. The probe pipeline then looks its rows up. *)
(* A left semi join emits a build row the first time it is found, by       *)
(* disabling its slot. After the probes of an outer join a second pipeline *)
(* scans the table for build rows that were not found.                     *)
(*                                                                         *)
(* A build row is identified with its key. Of a probe only its key and the *)
(* build row it finds are modelled.                                        *)
(***************************************************************************)
EXTENDS AtomicHashTable, Sequences

CONSTANTS
  Builds,          (* build sides to consider: sequences of distinct keys  *)
  Probes,          (* probe sides to consider: sequences of keys           *)
  Kinds,           (* joins to consider                                    *)
  TuplesPerChunk   (* rows that fit in a chunk before the next one is made *)

ASSUME JoinAssumption ==
  /\ \A b \in Builds : b \in Seq(Keys) /\ \A i, j \in DOMAIN b : b[i] = b[j] => i = j
  /\ Probes \subseteq Seq(Keys)
  /\ Kinds \subseteq {"inner", "leftSemi", "leftOuter", "marking"}
  /\ TuplesPerChunk \in Nat

VARIABLES
  kind,            (* Join::type; "marking" is an outer join that uses the *)
                   (* table's calls for outer joins, as the tests do       *)
  build,           (* keys of the build side                               *)
  probe,           (* keys of the probe side                               *)
  phase,           (* what the query is running                            *)
  nextBuild,       (* build rows picked so far                             *)
  materializers,   (* per worker: TupleMaterializer::chunks                *)
  offset,          (* per worker: ReadHandle::offset of its materializer   *)
  task,            (* per worker: the handle and the rest of its chunk     *)
  nextProbe,       (* probe rows picked so far                             *)
  probing,         (* per worker: the probe row it looks up, 0 if none     *)
  found,           (* per probe row: the build row it found                *)
  cursor,          (* the iterator of the scan for unmatched rows          *)
  rest             (* how often that scan emitted a build row              *)

inputVars == <<kind, build, probe>>
buildVars == <<nextBuild, materializers, offset, task>>
probeVars == <<nextProbe, probing, found>>
restVars == <<cursor, rest>>
vars == <<tableVars, inputVars, phase, buildVars, probeVars, restVars>>

Elements(s) == {s[i] : i \in DOMAIN s}
BuildFn == IF kind = "marking" THEN "insertOuter" ELSE "insert"
ProbeFn == CASE kind = "leftSemi" -> "lookupDisable"
             [] kind = "marking" -> "lookupOuter"
             [] OTHER -> "lookup"

Init ==
  /\ TableInit
  /\ kind \in Kinds /\ build \in Builds /\ probe \in Probes
  /\ phase = "build"
  /\ nextBuild = 0
  /\ materializers = [t \in Threads |-> << << >> >>]
  /\ offset = [t \in Threads |-> 0]
  /\ task = [t \in Threads |-> [handle |-> 0, tuples |-> << >>]]
  /\ nextProbe = 0
  /\ probing = [t \in Threads |-> 0]
  /\ found = [i \in DOMAIN probe |-> NoRow]
  /\ cursor = 0
  /\ rest = [k \in Keys |-> 0]

-----------------------------------------------------------------------------
(* TupleMaterializer::materialize, in the build pipeline.                  *)
Materialize(t) ==
  /\ phase = "build"
  /\ nextBuild < Len(build)
  /\ nextBuild' = nextBuild + 1
  /\ LET chunks == materializers[t]
         last == Len(chunks)
         row == build[nextBuild + 1]
     IN  materializers' = [materializers EXCEPT
           ![t] = IF Len(chunks[last]) + 1 > TuplesPerChunk
                    THEN Append(chunks, <<row>>)
                    ELSE [chunks EXCEPT ![last] = Append(@, row)]]
  /\ UNCHANGED <<tableVars, inputVars, phase, offset, task, probeVars, restVars>>

(* getNumTuples of all materializers, and allocHashTable: twice as many    *)
(* slots, rounded up to a power of two.                                    *)
TotalRows_LastChunks ==
  SumFunction([t \in Threads |-> Len(materializers[t][Len(materializers[t])])])
TotalRows ==
  SumFunction([t \in Threads |->
    SumFunction([c \in DOMAIN materializers[t] |-> Len(materializers[t][c])])])
TotalSlots(total) ==
  LET capacity == Max({2, 2 * total})
  IN  CHOOSE n \in {2^e : e \in 1 .. capacity} : n >= capacity /\ n < 2 * capacity

AllocHashTable ==
  /\ phase = "build"
  /\ nextBuild = Len(build)
  /\ Allocate(TotalSlots(TotalRows))
  /\ phase' = "insert"
  /\ UNCHANGED <<hash, call, inputVars, buildVars, probeVars, restVars>>

(* ReadHandle::pullChunk: the offset grows past the end.                   *)
PullChunk(t) ==
  /\ phase = "insert"
  /\ ~InCall(t)
  /\ task[t].tuples = << >>
  /\ task[t].handle \in Threads
  /\ LET h == task[t].handle IN
       /\ offset' = [offset EXCEPT ![h] = @ + 1]
       /\ task' = [task EXCEPT
            ![t] = IF offset[h] >= Len(materializers[h])
                     THEN [task[t] EXCEPT !.handle = h + 1]
                     ELSE [task[t] EXCEPT !.tuples = materializers[h][offset[h] + 1]]]
  /\ UNCHANGED <<tableVars, inputVars, phase, nextBuild, materializers, probeVars, restVars>>

InsertTuple(t) ==
  /\ phase = "insert"
  /\ ~InCall(t)
  /\ task[t].tuples # << >>
  /\ StartCall(t, BuildFn, Head(task[t].tuples))
  /\ task' = [task EXCEPT ![t].tuples = Tail(@)]
  /\ UNCHANGED <<hash, tags, rows, inputVars, phase, nextBuild, materializers, offset,
                 probeVars, restVars>>

(* runRuntimeTask joins its workers.                                       *)
FinishInsert ==
  /\ phase = "insert"
  /\ \A t \in Threads : task[t].handle \notin Threads /\ ~InCall(t)
  /\ phase' = "probe"
  /\ UNCHANGED <<tableVars, inputVars, buildVars, probeVars, restVars>>

-----------------------------------------------------------------------------
(* The probe pipeline.                                                     *)
Probe(t) ==
  /\ phase = "probe"
  /\ probing[t] = 0
  /\ nextProbe < Len(probe)
  /\ nextProbe' = nextProbe + 1
  /\ probing' = [probing EXCEPT ![t] = nextProbe + 1]
  /\ StartCall(t, ProbeFn, probe[nextProbe + 1])
  /\ UNCHANGED <<hash, tags, rows, inputVars, phase, buildVars, found, restVars>>

(* ColumnFilter keeps the rows whose lookup returned a pointer.            *)
FinishProbe(t) ==
  /\ probing[t] # 0
  /\ call[t].pc \in Returned
  /\ found' = [found EXCEPT ![probing[t]] =
                 IF call[t].pc = "found" THEN rows[call[t].idx] ELSE NoRow]
  /\ probing' = [probing EXCEPT ![t] = 0]
  /\ UNCHANGED <<tableVars, inputVars, phase, buildVars, nextProbe, restVars>>

ProbeEnds ==
  /\ phase = "probe"
  /\ nextProbe = Len(probe)
  /\ \A t \in Threads : probing[t] = 0
  /\ IF kind \in {"leftOuter", "marking"}
       THEN phase' = "rest" /\ cursor' = NextUnmarked(-1)
       ELSE phase' = "done" /\ UNCHANGED cursor
  /\ UNCHANGED <<tableVars, inputVars, buildVars, probeVars, rest>>

(* HashTableSource of the continuation: only its first thread reads.       *)
EmitRest ==
  /\ phase = "rest"
  /\ IF cursor \notin Slots
       THEN phase' = "done" /\ UNCHANGED restVars
       ELSE /\ rest' = [rest EXCEPT ![rows[cursor]] = @ + 1]
            /\ cursor' = NextUnmarked(cursor)
            /\ UNCHANGED phase
  /\ UNCHANGED <<tableVars, inputVars, buildVars, probeVars>>

JoinUnchanged == UNCHANGED <<inputVars, phase, buildVars, probeVars, restVars>>

WorkerStep(t) ==
  \/ Materialize(t)
  \/ PullChunk(t)
  \/ InsertTuple(t)
  \/ Probe(t)
  \/ FinishProbe(t)
  \/ CallStep(t) /\ JoinUnchanged

DriverStep == AllocHashTable \/ FinishInsert \/ ProbeEnds \/ EmitRest

Next ==
  \/ \E t \in Threads : WorkerStep(t)
  \/ DriverStep
  \/ phase = "done" /\ UNCHANGED vars

(* Every thread of the program is scheduled eventually.                    *)
Spec ==
  /\ Init /\ [][Next]_vars
  /\ \A t \in Threads : WF_vars(WorkerStep(t))
  /\ WF_vars(DriverStep)

-----------------------------------------------------------------------------
(* Properties.                                                             *)

TypeOK ==
  /\ TableTypeOK
  /\ kind \in Kinds /\ build \in Builds /\ probe \in Probes
  /\ phase \in {"build", "insert", "probe", "rest", "done"}
  /\ nextBuild \in 0 .. Len(build)
  /\ materializers \in [Threads -> Seq(Seq(Keys))]
  /\ offset \in [Threads -> Nat]
  /\ task \in [Threads -> [handle : 0 .. NumThreads, tuples : Seq(Keys)]]
  /\ nextProbe \in 0 .. Len(probe)
  /\ probing \in [Threads -> 0 .. Len(probe)]
  /\ found \in [DOMAIN probe -> Keys \cup {NoRow}]
  /\ cursor \in Nat
  /\ rest \in [Keys -> Nat]

(* Where a build row is: not materialized, in a chunk nobody pulled, in    *)
(* the chunk a worker is inserting, in an insert, or in a slot.            *)
InInput(k) == {i \in nextBuild + 1 .. Len(build) : build[i] = k}
Holds(t, c, i, k) ==
  /\ c \in DOMAIN materializers[t] /\ i \in DOMAIN materializers[t][c]
  /\ materializers[t][c][i] = k
InChunks(k) == {p \in Threads \X (1 .. Len(build) + 1) \X (1 .. Len(build)) :
                  p[2] > offset[p[1]] /\ Holds(p[1], p[2], p[3], k)}
InTasks(k) == {p \in Threads \X (1 .. Len(build)) :
                 p[2] \in DOMAIN task[p[1]].tuples /\ task[p[1]].tuples[p[2]] = k}
InInserts(k) == {t \in Threads : phase = "insert" /\ InCall(t) /\ call[t].key = k}
InSlots(k) == {s \in Slots : tags[s].fill /\ rows[s] = k}
Places(k) ==
  ({"input"} \X InInput(k)) \cup ({"chunk"} \X InChunks(k)) \cup ({"task"} \X InTasks(k))
    \cup ({"insert"} \X InInserts(k)) \cup ({"slot"} \X InSlots(k))

(* While workers materialize rows, pull each other's chunks and race for   *)
(* slots, every build row is in exactly one place; rows that other threads *)
(* insert at the same time never overwrite or repeat it.                   *)
BuiltOnce == \A k \in Elements(build) : Cardinality(Places(k)) = 1

(* Half of the slots are empty when all rows are in, so that every chain of *)
(* filled slots ends and no call probes for ever.                          *)
HalfEmpty ==
  phase # "build" => 2 * Cardinality({s \in Slots : tags[s].fill}) <= Cardinality(Slots)

(* What the join promises when it is done. An inner join finds the build   *)
(* row of every probe that has one. A semi join emits every build row that *)
(* has a match once, although workers race for it. An outer join emits the *)
(* build rows without a match, and only those, after the probes.           *)
JoinExact ==
  phase = "done" =>
    /\ kind # "leftSemi" => \A i \in DOMAIN probe :
         found[i] = IF probe[i] \in Elements(build) THEN probe[i] ELSE NoRow
    /\ kind = "leftSemi" => \A k \in Keys :
         Cardinality({i \in DOMAIN probe : found[i] = k})
           = Cardinality({k} \cap Elements(build) \cap Elements(probe))
    /\ kind \in {"leftOuter", "marking"} => \A k \in Keys :
         rest[k] = Cardinality(({k} \cap Elements(build)) \ Elements(probe))

(* Every probe meets an empty slot in the end, however the workers race:   *)
(* the join ends.                                                          *)
JoinEnds == <>(phase = "done")
=============================================================================
