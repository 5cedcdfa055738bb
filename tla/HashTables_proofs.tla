--------------------------- MODULE HashTables_proofs ---------------------------
(***************************************************************************)
(* Proofs about HashTables, for any keys, hashes and sizes, and for callers*)
(* that keep the contract of lookupDisable: they disable keys only that are*)
(* in the table. (The other callers break the table, as a run shows.)      *)
(***************************************************************************)
EXTENDS HashTables, FiniteLemmas

-----------------------------------------------------------------------------
(* Tables as arrays of rows.                                               *)

(* Tables of n slots.                                                      *)
TablesOf(n) == [rows : [0 .. n - 1 -> Rows], inserted : Nat, maxFill : Nat]

(* A table of n slots has the slots below n.                               *)
LEMMA SizeOfTable ==
  ASSUME NEW n \in Nat, NEW t \in TablesOf(n)
  PROVE  /\ Slots(t) = 0 .. n - 1 /\ Capacity(t) = n /\ IsFiniteSet(Slots(t))
         /\ \A s \in Slots(t) : t.rows[s] \in Rows
         /\ IsFiniteSet(FilledSlots(t)) /\ Cardinality(FilledSlots(t)) \in Nat
         /\ IsTable(t)
<1>1. Slots(t) = 0 .. n - 1
  BY DEF Slots, TablesOf
<1>2. IsFiniteSet(0 .. n - 1) /\ Cardinality(0 .. n - 1) = n
  <2>1. 0 \in Int /\ n - 1 \in Int
    OBVIOUS
  <2>2. /\ IsFiniteSet(0 .. n - 1)
        /\ Cardinality(0 .. n - 1) = IF 0 > n - 1 THEN 0 ELSE (n - 1) - 0 + 1
    BY <2>1, FS_Interval
  <2>3. (IF 0 > n - 1 THEN 0 ELSE (n - 1) - 0 + 1) = n
    OBVIOUS
  <2> QED BY <2>2, <2>3
<1>3. Capacity(t) = n
  BY <1>1, <1>2 DEF Capacity
<1>4. \A s \in Slots(t) : t.rows[s] \in Rows
  BY <1>1 DEF TablesOf
<1>5. IsFiniteSet(FilledSlots(t)) /\ Cardinality(FilledSlots(t)) \in Nat
  BY <1>1, <1>2, FS_Subset, FS_CardinalityType DEF FilledSlots
<1>6. IsTable(t)
  BY <1>3 DEF IsTable, TablesOf
<1> QED BY <1>1, <1>2, <1>3, <1>4, <1>5, <1>6

(* One row of a table can be changed.                                      *)
LEMMA RowChanged ==
  ASSUME NEW n \in Nat, NEW t \in TablesOf(n), NEW s \in 0 .. n - 1, NEW r \in Rows
  PROVE  LET u == [t EXCEPT !.rows[s] = r] IN
         /\ u \in TablesOf(n) /\ u.rows = [t.rows EXCEPT ![s] = r]
         /\ u.inserted = t.inserted /\ u.maxFill = t.maxFill
<1> DEFINE rows == [t.rows EXCEPT ![s] = r]
           u == [t EXCEPT !.rows = rows]
<1>1. rows \in [0 .. n - 1 -> Rows]
  BY DEF TablesOf
<1> HIDE DEF rows
<1>2. u \in TablesOf(n) /\ u.rows = rows /\ u.inserted = t.inserted /\ u.maxFill = t.maxFill
  BY <1>1 DEF TablesOf
<1> QED BY <1>2 DEF rows

(* The count of a table can be changed.                                    *)
LEMMA InsertedChanged ==
  ASSUME NEW n \in Nat, NEW t \in TablesOf(n), NEW x \in Nat
  PROVE  LET u == [t EXCEPT !.inserted = x] IN
         /\ u \in TablesOf(n) /\ u.rows = t.rows
         /\ u.inserted = x /\ u.maxFill = t.maxFill
BY DEF TablesOf

(* Counting a row changes its payload only.                                 *)
RowPlusOne(row) == [tag |-> row.tag, key |-> row.key, payload |-> row.payload + 1]

(* The counted row is the only one that changes, and it stays a row.       *)
LEMMA CountedRow ==
  ASSUME NEW n \in Nat, NEW t \in TablesOf(n), NEW s \in 0 .. n - 1
  PROVE  /\ Counted(t, s) \in TablesOf(n) /\ RowPlusOne(t.rows[s]) \in Rows
         /\ Counted(t, s).rows = [t.rows EXCEPT ![s] = RowPlusOne(t.rows[s])]
         /\ Counted(t, s).rows[s] = RowPlusOne(t.rows[s])
         /\ Counted(t, s).inserted = t.inserted /\ Counted(t, s).maxFill = t.maxFill
<1> DEFINE row == t.rows[s]
           r == [row EXCEPT !.payload = row.payload + 1]
<1>1. row \in Rows
  BY DEF TablesOf
<1>2. r \in Rows
  <2> HIDE DEF row
  <2> QED BY <1>1 DEF Rows
<1>3. Counted(t, s) = [t EXCEPT !.rows[s] = r]
  BY <1>1 DEF Counted, TablesOf
<1> HIDE DEF r
<1>4. /\ Counted(t, s) \in TablesOf(n) /\ Counted(t, s).rows = [t.rows EXCEPT ![s] = r]
      /\ Counted(t, s).inserted = t.inserted /\ Counted(t, s).maxFill = t.maxFill
  BY <1>2, <1>3, RowChanged
<1>5. Counted(t, s).rows[s] = r
  BY <1>4 DEF TablesOf
<1>6. r = RowPlusOne(row)
  <2> HIDE DEF row
  <2> QED BY <1>1 DEF r, Rows, RowPlusOne
<1> QED BY <1>2, <1>4, <1>5, <1>6

(* Some fields of a row and the count are written: the row r and the count *)
(* x.                                                                      *)
WithRow(t, s, r, x) == [[t EXCEPT !.rows[s] = r] EXCEPT !.inserted = x]
Tagged(t, s, x, tag, k) ==
  [t EXCEPT !.inserted = x, !.rows[s].tag = tag, !.rows[s].key = k]
Filled(t, s) ==
  [t EXCEPT !.rows[s].tag = [fill |-> TRUE, print |-> @.print], !.inserted = @ + 1]

(* The writes of the direct lookup table are those of one record and the   *)
(* count.                                                                  *)
LEMMA TwoFields ==
  ASSUME NEW n \in Nat, NEW t \in TablesOf(n), NEW s \in 0 .. n - 1, NEW x,
         NEW tag \in Tags, NEW k \in Keys
  PROVE  Tagged(t, s, x, tag, k)
           = WithRow(t, s, [tag |-> tag, key |-> k, payload |-> t.rows[s].payload], x)
<1> DEFINE row == t.rows[s]
           a == [row EXCEPT !.tag = tag]
           b == [a EXCEPT !.key = k]
           c == [tag |-> tag, key |-> k, payload |-> row.payload]
           f == [t.rows EXCEPT ![s] = a]
           g == [f EXCEPT ![s] = b]
<1>1. row \in Rows /\ t.rows \in [0 .. n - 1 -> Rows]
  BY DEF TablesOf
<1>2. b = c
  <2> HIDE DEF row
  <2>1. /\ row.tag \in Tags /\ row.key \in Keys /\ row.payload \in Nat
        /\ row = [tag |-> row.tag, key |-> row.key, payload |-> row.payload]
    BY <1>1 DEF Rows
  <2>2. a = [tag |-> tag, key |-> row.key, payload |-> row.payload]
    BY <2>1
  <2> HIDE DEF a
  <2> QED BY <2>2
<1>3. f[s] = a
  BY <1>1
<1>4. [t EXCEPT !.inserted = x, !.rows[s].tag = tag, !.rows[s].key = k]
        = [t EXCEPT !.inserted = x, !.rows = [[t.rows EXCEPT ![s].tag = tag] EXCEPT ![s].key = k]]
  BY DEF TablesOf
<1>5. [t.rows EXCEPT ![s].tag = tag] = f
  BY <1>1
<1>6. [f EXCEPT ![s].key = k] = g
  <2> HIDE DEF a
  <2> QED BY <1>1, <1>3
<1>7. g = [t.rows EXCEPT ![s] = c]
  <2> HIDE DEF a, b, c
  <2> QED BY <1>1, <1>2
<1> HIDE DEF c, g, f
<1> QED BY <1>4, <1>5, <1>6, <1>7 DEF TablesOf, c, Tagged, WithRow

(* The tag of a row is filled, and the count goes up by one.               *)
LEMMA FillField ==
  ASSUME NEW n \in Nat, NEW t \in TablesOf(n), NEW s \in 0 .. n - 1
  PROVE  Filled(t, s)
           = WithRow(t, s, [tag |-> [fill |-> TRUE, print |-> t.rows[s].tag.print],
                            key |-> t.rows[s].key, payload |-> t.rows[s].payload],
                     t.inserted + 1)
<1> DEFINE row == t.rows[s]
           tag == [fill |-> TRUE, print |-> row.tag.print]
           c == [tag |-> tag, key |-> row.key, payload |-> row.payload]
<1>1. row \in Rows /\ t.rows \in [0 .. n - 1 -> Rows]
  BY DEF TablesOf
<1>2. [t EXCEPT !.rows[s].tag = [fill |-> TRUE, print |-> @.print], !.inserted = @ + 1]
        = [[t EXCEPT !.rows = [t.rows EXCEPT ![s].tag = tag]] EXCEPT !.inserted = t.inserted + 1]
  BY DEF TablesOf
<1> HIDE DEF tag
<1>3. [row EXCEPT !.tag = tag] = c
  <2> HIDE DEF row
  <2> QED BY <1>1 DEF Rows
<1>4. [t.rows EXCEPT ![s].tag = tag] = [t.rows EXCEPT ![s] = c]
  BY <1>1, <1>3
<1> HIDE DEF c
<1>5. [t EXCEPT !.rows[s] = c] = [t EXCEPT !.rows = [t.rows EXCEPT ![s].tag = tag]]
  BY <1>4 DEF TablesOf
<1> QED BY <1>2, <1>5 DEF c, tag, Filled, WithRow

(* A new table has empty rows.                                             *)
LEMMA EmptyTable ==
  ASSUME NEW n \in Nat
  PROVE  /\ NewTable(n) \in TablesOf(n)
         /\ \A s \in 0 .. n - 1 : NewTable(n).rows[s] = FreshRow
         /\ NewTable(n).inserted = 0 /\ NewTable(n).maxFill = n \div 2
<1>1. FreshRow \in Rows
  BY TableAssumption DEF FreshRow, Rows, Tags, Zero, Keys
<1>2. n \div 2 \in Nat
  OBVIOUS
<1> QED BY <1>1, <1>2 DEF NewTable, TablesOf

-----------------------------------------------------------------------------
(* Probing.                                                                *)

(* Probing visits one slot after the other and orders them all.            *)
LEMMA Probing ==
  ASSUME NEW n \in Nat, NEW home \in 0 .. n - 1, NEW s \in 0 .. n - 1, NEW u \in 0 .. n - 1
  PROVE  /\ ~ProbedBefore(home, s, s)
         /\ s # u => ProbedBefore(home, s, u) \/ ProbedBefore(home, u, s)
BY DEF ProbedBefore

(* There is a first among the slots that are looked for.                   *)
LEMMA FirstOfMany ==
  ASSUME NEW n \in Nat, NEW home \in 0 .. n - 1, NEW C \in SUBSET (0 .. n - 1), C # {}
  PROVE  \E s \in C : \A u \in C : ~ProbedBefore(home, s, u)
<1> DEFINE d(s) == IF home <= s THEN s - home ELSE s - home + n
           A == {d(s) : s \in C}
<1>1. \A s \in 0 .. n - 1 : d(s) \in Nat
  OBVIOUS
<1>2. A \in SUBSET Nat /\ A # {}
  <2> HIDE DEF d
  <2> QED BY <1>1
<1>3. PICK m \in A : \A x \in A : m <= x
  <2> HIDE DEF A
  <2> QED BY <1>2, LeastNatural
<1>4. PICK s \in C : m = d(s)
  BY <1>3
<1>5. \A u \in C : d(s) <= d(u)
  <2> HIDE DEF d
  <2> QED BY <1>3, <1>4
<1>6. ASSUME NEW u \in C PROVE ~ProbedBefore(home, s, u)
  <2>1. d(s) <= d(u) /\ s \in 0 .. n - 1 /\ u \in 0 .. n - 1
    BY <1>5
  <2>2. CASE home <= s
    BY <2>1, <2>2 DEF ProbedBefore
  <2>3. CASE ~(home <= s)
    BY <2>1, <2>3 DEF ProbedBefore
  <2> QED BY <2>2, <2>3
<1> QED BY <1>6

-----------------------------------------------------------------------------
(* The invariant of the tables.                                            *)

(* The keys and their hashes never change. The text of a key is named by a *)
(* key with that text; in a direct lookup table no two keys share a slot.  *)
InputInv ==
  /\ kind \in Kinds
  /\ text \in [Keys -> Keys]
  /\ \A k \in KeysOf[kind] :
       /\ text[k] \in KeysOf[kind] /\ text[text[k]] = text[k]
       /\ kind # "ck" => text[k] = k
  /\ hash \in [KeysOf[kind] -> [low : Nat, print : 0 .. Mask]]
  /\ kind = "dl" => \A k, l \in KeysOf[kind] :
       /\ hash[k].low \in 0 .. DirectSlots - 1
       /\ hash[k].low = hash[l].low => k = l

(* The home of a text in a table of n slots, and the slots probed before s.*)
HomeOf(n, c) == hash[c].low % n
Chained(n, t, s, c) ==
  \A u \in 0 .. n - 1 : ProbedBefore(HomeOf(n, c), s, u) => t.rows[u].tag.fill

(* A filled row has a key of the table, with its fingerprint or, when it   *)
(* was disabled, the inverted one. Only the former can be found.           *)
KeyRow(r) ==
  /\ r.key \in KeysOf[kind]
  /\ \/ r.tag.print = hash[text[r.key]].print
     \/ r.tag.print = Mask - hash[text[r.key]].print
LiveRow(r, c) == r.tag.fill /\ text[r.key] = c /\ r.tag.print = hash[c].print

(* A table with open addressing: rows are where probing finds them, and no *)
(* text has two live rows.                                                 *)
MapInv(n, t) ==
  /\ n \in Nat /\ n > 0 /\ t \in TablesOf(n)
  /\ \A s \in 0 .. n - 1 : ~t.rows[s].tag.fill => t.rows[s] = FreshRow
  /\ \A s \in 0 .. n - 1 :
       t.rows[s].tag.fill => KeyRow(t.rows[s]) /\ Chained(n, t, s, text[t.rows[s].key])
  /\ \A s, u \in 0 .. n - 1, c \in KeysOf[kind] :
       LiveRow(t.rows[s], c) /\ LiveRow(t.rows[u], c) => s = u

(* Its live rows hold the groups g.                                        *)
HoldsGroups(n, t, g) ==
  \A c \in KeysOf[kind] : text[c] = c =>
    /\ g[c] > 0 => \E s \in 0 .. n - 1 : LiveRow(t.rows[s], c)
    /\ \A s \in 0 .. n - 1 :
         LiveRow(t.rows[s], c) => g[c] > 0 /\ t.rows[s].payload = g[c]

(* Its size is twice the number of rows it takes.                          *)
Sized(n, t) ==
  n = 2 * t.maxFill /\ t.inserted = Cardinality(FilledSlots(t)) /\ t.inserted <= t.maxFill

(* What a lookup of k ends at: a live row, or the slot to put one into.    *)
EndsAt(n, t, k, s) ==
  /\ s \in 0 .. n - 1
  /\ t.rows[s].tag.fill => LiveRow(t.rows[s], text[k])
  /\ ~t.rows[s].tag.fill =>
       /\ t.rows[s] = FreshRow /\ Chained(n, t, s, text[k])
       /\ \A u \in 0 .. n - 1 : ~LiveRow(t.rows[u], text[k])

-----------------------------------------------------------------------------
(* Lookups.                                                                *)

(* Every key has a home.                                                   *)
LEMMA HomeInTable ==
  ASSUME InputInv, NEW n \in Nat, n > 0, NEW t \in TablesOf(n), NEW k \in KeysOf[kind]
  PROVE  /\ HomeOf(n, text[k]) \in 0 .. n - 1 /\ Home(t, k) = HomeOf(n, text[k])
         /\ k \in Keys /\ text[k] \in KeysOf[kind]
<1>1. Capacity(t) = n
  BY SizeOfTable
<1>2. text[k] \in KeysOf[kind] /\ k \in Keys
  BY DEF InputInv, Keys
<1>3. hash[text[k]].low \in Nat
  BY <1>2 DEF InputInv
<1>4. hash[text[k]].low % n \in 0 .. n - 1
  <2> DEFINE a == hash[text[k]].low
  <2> SUFFICES a % n \in 0 .. n - 1
    OBVIOUS
  <2>1. a \in Nat
    BY <1>3
  <2> HIDE DEF a
  <2> QED BY <2>1
<1> QED BY <1>1, <1>2, <1>4 DEF HomeOf, Home, HashOf

(* FirstProbed ends at the first of the candidates, if there are any.      *)
LEMMA FirstSlot ==
  ASSUME NEW n \in Nat, NEW t, NEW k, Home(t, k) \in 0 .. n - 1,
         NEW C \in SUBSET (0 .. n - 1), C # {}
  PROVE  /\ FirstProbed(t, k, C) \in C
         /\ \A u \in C : ~ProbedBefore(Home(t, k), FirstProbed(t, k, C), u)
<1>1. \E s \in C : \A u \in C : ~ProbedBefore(Home(t, k), s, u)
  BY FirstOfMany
<1> QED BY <1>1 DEF FirstProbed

(* A table whose filled slots are fewer than its slots has a free one.     *)
LEMMA FreeSlot ==
  ASSUME NEW n \in Nat, NEW t \in TablesOf(n), Cardinality(FilledSlots(t)) < n
  PROVE  \E s \in 0 .. n - 1 : ~t.rows[s].tag.fill
<1> SUFFICES ASSUME \A s \in 0 .. n - 1 : t.rows[s].tag.fill PROVE FALSE
  OBVIOUS
<1>1. Slots(t) = 0 .. n - 1 /\ Cardinality(Slots(t)) = n
  BY SizeOfTable DEF Capacity
<1>2. FilledSlots(t) = Slots(t)
  BY <1>1 DEF FilledSlots
<1> QED BY <1>1, <1>2

(* The first slot that is free or holds the key: if the text has a live row*)
(* it is that row's, because no free slot is probed before it.             *)
LEMMA FirstMatch ==
  ASSUME InputInv, NEW n, NEW t, MapInv(n, t), Cardinality(FilledSlots(t)) < n,
         NEW k \in KeysOf[kind], NEW C,
         C = {s \in 0 .. n - 1 : ~t.rows[s].tag.fill \/ LiveRow(t.rows[s], text[k])}
  PROVE  EndsAt(n, t, k, FirstProbed(t, k, C))
<1> DEFINE f == FirstProbed(t, k, C)
           h == HomeOf(n, text[k])
<1>1. n \in Nat /\ n > 0 /\ t \in TablesOf(n)
  BY DEF MapInv
<1>2. h \in 0 .. n - 1 /\ Home(t, k) = h /\ text[k] \in KeysOf[kind]
  BY <1>1, HomeInTable
<1>3. C # {}
  BY <1>1, FreeSlot
<1>4. f \in C /\ \A u \in C : ~ProbedBefore(h, f, u)
  BY <1>1, <1>2, <1>3, FirstSlot
<1>5. f \in 0 .. n - 1 /\ (~t.rows[f].tag.fill \/ LiveRow(t.rows[f], text[k]))
  BY <1>4
<1> HIDE DEF f
<1>6. ASSUME ~t.rows[f].tag.fill
      PROVE  /\ t.rows[f] = FreshRow /\ Chained(n, t, f, text[k])
             /\ \A u \in 0 .. n - 1 : ~LiveRow(t.rows[u], text[k])
  <2>1. t.rows[f] = FreshRow
    BY <1>5, <1>6 DEF MapInv
  <2>2. Chained(n, t, f, text[k])
    BY <1>4 DEF Chained
  <2>3. ASSUME NEW u \in 0 .. n - 1, LiveRow(t.rows[u], text[k]) PROVE FALSE
    <3>1. u \in C /\ u # f
      BY <1>6, <2>3 DEF LiveRow
    <3>2. ProbedBefore(h, u, f)
      BY <1>1, <1>2, <1>4, <1>5, <2>3, <3>1, Probing
    <3>3. Chained(n, t, u, text[k])
      BY <2>3 DEF MapInv, LiveRow
    <3> QED BY <1>5, <1>6, <3>2, <3>3 DEF Chained
  <2> QED BY <2>1, <2>2, <2>3
<1> QED BY <1>5, <1>6 DEF EndsAt, f

(* The comparisons of both lookups pick that slot. A string's key is never *)
(* the null pointer, so that only the fingerprint and the text decide.     *)
LEMMA Lookup ==
  ASSUME InputInv, NEW n, NEW t, MapInv(n, t), Cardinality(FilledSlots(t)) < n,
         NEW k \in KeysOf[kind]
  PROVE  /\ kind = "sk" => EndsAt(n, t, k, FindSlotOrEmpty(t, k))
         /\ kind = "ck" => EndsAt(n, t, k, FindStringOrEmpty(t, k))
<1> DEFINE C == {s \in 0 .. n - 1 : ~t.rows[s].tag.fill \/ LiveRow(t.rows[s], text[k])}
<1>1. EndsAt(n, t, k, FirstProbed(t, k, C))
  BY FirstMatch
<1>2. Slots(t) = 0 .. n - 1
  BY SizeOfTable DEF MapInv
<1>3. \A s \in 0 .. n - 1 : t.rows[s].tag.fill => t.rows[s].key \in KeysOf[kind]
  BY DEF MapInv, KeyRow
<1>4. ASSUME kind = "sk" PROVE EndsAt(n, t, k, FindSlotOrEmpty(t, k))
  <2>1. text[k] = k /\ \A s \in 0 .. n - 1 :
          t.rows[s].tag.fill => text[t.rows[s].key] = t.rows[s].key
    BY <1>3, <1>4 DEF InputInv
  <2>2. {s \in Slots(t) : \/ ~t.rows[s].tag.fill
                          \/ t.rows[s].tag.print = HashOf(k).print /\ t.rows[s].key = k} = C
    BY <1>2, <2>1 DEF LiveRow, HashOf
  <2> QED BY <1>1, <2>2 DEF FindSlotOrEmpty
<1>5. ASSUME kind = "ck" PROVE EndsAt(n, t, k, FindStringOrEmpty(t, k))
  <2>1. \A s \in 0 .. n - 1 : t.rows[s].tag.fill => t.rows[s].key # ZeroKey
    BY <1>3, <1>5, TableAssumption DEF InputInv
  <2>2. {s \in Slots(t) :
           LET row == t.rows[s]
           IN \/ ~row.tag.fill
              \/ /\ row.tag.print = HashOf(k).print
                 /\ row.key # ZeroKey /\ text[row.key] = text[k]} = C
    BY <1>2, <2>1 DEF LiveRow, HashOf
  <2> QED BY <1>1, <2>2 DEF FindStringOrEmpty
<1> QED BY <1>4, <1>5

(* A free slot is found, too, and every slot before it is filled.          *)
LEMMA FindFree ==
  ASSUME InputInv, NEW n, NEW t, MapInv(n, t), Cardinality(FilledSlots(t)) < n,
         NEW k \in KeysOf[kind], NEW C, C = {s \in Slots(t) : ~t.rows[s].tag.fill}
  PROVE  LET f == FirstProbed(t, k, C) IN
         f \in 0 .. n - 1 /\ t.rows[f] = FreshRow /\ Chained(n, t, f, text[k])
<1> DEFINE f == FirstProbed(t, k, C)
<1>1. n \in Nat /\ n > 0 /\ t \in TablesOf(n)
  BY DEF MapInv
<1>2. C = {s \in 0 .. n - 1 : ~t.rows[s].tag.fill} /\ C # {}
  BY <1>1, SizeOfTable, FreeSlot
<1>3. Home(t, k) = HomeOf(n, text[k]) /\ Home(t, k) \in 0 .. n - 1
  BY <1>1, HomeInTable
<1>4. f \in C /\ \A u \in C : ~ProbedBefore(HomeOf(n, text[k]), f, u)
  <2>1. C \in SUBSET (0 .. n - 1)
    BY <1>2
  <2>2. f \in C /\ \A u \in C : ~ProbedBefore(Home(t, k), f, u)
    BY <1>1, <1>2, <1>3, <2>1, FirstSlot
  <2> QED BY <1>3, <2>2
<1> HIDE DEF f
<1>5. f \in 0 .. n - 1 /\ ~t.rows[f].tag.fill
  BY <1>2, <1>4
<1>6. t.rows[f] = FreshRow
  BY <1>5 DEF MapInv
<1>7. Chained(n, t, f, text[k])
  BY <1>2, <1>4 DEF Chained
<1> QED BY <1>5, <1>6, <1>7 DEF f

(* The two tags of a text, live and disabled, are never the same: the mask *)
(* is odd.                                                                 *)
LEMMA Inverted ==
  ASSUME InputInv, NEW c \in KeysOf[kind]
  PROVE  /\ hash[c].print \in 0 .. Mask /\ Mask - hash[c].print \in 0 .. Mask
         /\ Mask - hash[c].print # hash[c].print
<1>1. Mask \in Nat /\ Mask % 2 = 1
  BY TableAssumption
<1>2. hash[c].print \in 0 .. Mask
  BY DEF InputInv
<1>3. \A m \in Nat : \A p \in 0 .. m : m % 2 = 1 => m - p \in 0 .. m /\ m - p # p
  OBVIOUS
<1> QED BY <1>1, <1>2, <1>3

-----------------------------------------------------------------------------
(* Writing a row.                                                          *)

(* A row may be written over a slot that was free, or that held a row of   *)
(* the same text, if it is chained to its home and no other slot has a live*)
(* row of its text.                                                        *)
Writable(n, t, s, r) ==
  /\ r.tag.fill /\ KeyRow(r) /\ Chained(n, t, s, text[r.key])
  /\ \A v \in 0 .. n - 1 :
       v # s /\ LiveRow(r, text[r.key]) => ~LiveRow(t.rows[v], text[r.key])

(* The table u is t with r in slot s.                                      *)
Written(n, t, s, r, u) == u \in TablesOf(n) /\ u.rows = [t.rows EXCEPT ![s] = r]

(* Such a row leaves the table a map.                                      *)
LEMMA RowWritten ==
  ASSUME InputInv, NEW n, NEW t, MapInv(n, t), NEW s \in 0 .. n - 1, NEW r \in Rows,
         Writable(n, t, s, r), NEW u, Written(n, t, s, r, u)
  PROVE  /\ MapInv(n, u)
         /\ FilledSlots(u) = FilledSlots(t) \cup {s}
         /\ \A v \in 0 .. n - 1 : u.rows[v] = IF v = s THEN r ELSE t.rows[v]
<1>1. n \in Nat /\ n > 0 /\ t \in TablesOf(n)
  BY DEF MapInv
<1>2. t.rows \in [0 .. n - 1 -> Rows] /\ Slots(t) = 0 .. n - 1 /\ Slots(u) = 0 .. n - 1
  BY <1>1, SizeOfTable DEF TablesOf, Written
<1>3. \A v \in 0 .. n - 1 : u.rows[v] = IF v = s THEN r ELSE t.rows[v]
  BY <1>2 DEF Written
<1>4. FilledSlots(u) = FilledSlots(t) \cup {s}
  BY <1>2, <1>3 DEF FilledSlots, Writable
<1>5. \A v \in 0 .. n - 1 : t.rows[v].tag.fill => u.rows[v].tag.fill
  BY <1>3 DEF Writable
<1>6. \A v \in 0 .. n - 1 : \A c : Chained(n, t, v, c) => Chained(n, u, v, c)
  BY <1>5 DEF Chained
<1>7. \A v \in 0 .. n - 1 : ~u.rows[v].tag.fill => u.rows[v] = FreshRow
  BY <1>3 DEF MapInv, Writable
<1>8. ASSUME NEW v \in 0 .. n - 1, u.rows[v].tag.fill
      PROVE  KeyRow(u.rows[v]) /\ Chained(n, u, v, text[u.rows[v].key])
  <2>1. CASE v = s
    BY <1>3, <1>6, <2>1 DEF Writable
  <2>2. CASE v # s
    <3>1. u.rows[v] = t.rows[v]
      BY <1>3, <2>2
    <3> QED BY <1>6, <1>8, <3>1 DEF MapInv
  <2> QED BY <2>1, <2>2
<1>9. ASSUME NEW v \in 0 .. n - 1, NEW w \in 0 .. n - 1, NEW c \in KeysOf[kind],
             LiveRow(u.rows[v], c), LiveRow(u.rows[w], c)
      PROVE  v = w
  <2>1. \A x \in 0 .. n - 1 : x # s => u.rows[x] = t.rows[x]
    BY <1>3
  <2>2. u.rows[s] = r /\ (LiveRow(r, c) => c = text[r.key])
    BY <1>3 DEF LiveRow
  <2>3. CASE v # s /\ w # s
    BY <1>9, <2>1, <2>3 DEF MapInv
  <2>4. CASE v = s /\ w # s
    BY <1>9, <2>1, <2>2, <2>4 DEF Writable
  <2>5. CASE v # s /\ w = s
    BY <1>9, <2>1, <2>2, <2>5 DEF Writable
  <2>6. CASE v = s /\ w = s
    BY <2>6
  <2> QED BY <2>3, <2>4, <2>5, <2>6
<1>10. MapInv(n, u)
  BY <1>1, <1>7, <1>8, <1>9 DEF MapInv, Written
<1> QED BY <1>3, <1>4, <1>10

(* A table that holds the groups g and takes as many rows as it should.    *)
Full(n, t, g) == MapInv(n, t) /\ HoldsGroups(n, t, g) /\ Sized(n, t)

OneMore(g, c) == [g EXCEPT ![c] = g[c] + 1]

(* A row is put into the free slot that the lookup of its key ends at.     *)
LEMMA RowInserted ==
  ASSUME InputInv, NEW n, NEW t, NEW g \in [Keys -> Nat], Full(n, t, g),
         t.inserted < t.maxFill, NEW k \in KeysOf[kind], NEW s,
         s \in 0 .. n - 1, t.rows[s] = FreshRow, Chained(n, t, s, text[k]),
         \A v \in 0 .. n - 1 : ~LiveRow(t.rows[v], text[k])
  PROVE  Full(n, Inserted(t, s, k), OneMore(g, text[k]))
<1> DEFINE c == text[k]
           u == Inserted(t, s, k)
           h == OneMore(g, c)
           r == [tag |-> TagOf(k), key |-> k, payload |-> 1]
<1>1. n \in Nat /\ n > 0 /\ t \in TablesOf(n) /\ MapInv(n, t)
  BY DEF MapInv, Full
<1>2. c \in KeysOf[kind] /\ text[c] = c /\ k \in Keys /\ c \in Keys
  BY DEF InputInv, Keys
<1>3. r \in Rows /\ t.rows[s].payload + 1 = 1 /\ ~t.rows[s].tag.fill
  BY <1>2, Inverted DEF Rows, Tags, TagOf, HashOf, FreshRow, Zero
<1>4. t.inserted \in Nat
  BY <1>1 DEF TablesOf
<1>5. u \in TablesOf(n) /\ u.rows = [t.rows EXCEPT ![s] = r]
      /\ u.inserted = t.inserted + 1 /\ u.maxFill = t.maxFill
  <2> DEFINE w == [t EXCEPT !.rows[s] = r]
  <2>1. w \in TablesOf(n) /\ w.rows = [t.rows EXCEPT ![s] = r]
        /\ w.inserted = t.inserted /\ w.maxFill = t.maxFill
    BY <1>1, <1>3, RowChanged
  <2>2. u = [w EXCEPT !.inserted = t.inserted + 1]
    BY <1>1, <1>3 DEF Inserted, TablesOf
  <2> HIDE DEF w, u
  <2> QED BY <1>1, <1>4, <2>1, <2>2, InsertedChanged
<1>6. r.tag.fill /\ r.key = k /\ KeyRow(r) /\ LiveRow(r, c)
  BY <1>2 DEF KeyRow, LiveRow, TagOf, HashOf
<1>7. /\ MapInv(n, u) /\ FilledSlots(u) = FilledSlots(t) \cup {s}
      /\ \A v \in 0 .. n - 1 : u.rows[v] = IF v = s THEN r ELSE t.rows[v]
  <2> HIDE DEF r, u
  <2>1. Writable(n, t, s, r)
    BY <1>6 DEF Writable
  <2>2. Written(n, t, s, r, u)
    BY <1>5 DEF Written
  <2>3. MapInv(n, t) /\ r \in Rows
    BY <1>1, <1>3
  <2> HIDE DEF c, h
  <2> QED BY ONLY InputInv, s \in 0 .. n - 1, <2>1, <2>2, <2>3, RowWritten
<1>8. Sized(n, u)
  <2>1. s \notin FilledSlots(t) /\ IsFiniteSet(FilledSlots(t))
    BY <1>1, <1>3, SizeOfTable DEF FilledSlots
  <2>2. Cardinality(FilledSlots(u)) = Cardinality(FilledSlots(t)) + 1
    BY <1>7, <2>1, FS_AddElement
  <2> HIDE DEF u
  <2>3. t.maxFill \in Nat
    BY <1>1 DEF TablesOf
  <2> QED BY <1>4, <1>5, <2>2, <2>3 DEF Sized, Full
<1>9. g[c] = 0 /\ g[c] \in Nat
  BY <1>2 DEF Full, HoldsGroups
<1>10. \A d \in KeysOf[kind] : d \in Keys /\ h[d] = IF d = c THEN 1 ELSE g[d]
  BY <1>2, <1>9 DEF OneMore, Keys, InputInv
<1>11. HoldsGroups(n, u, h)
  <2> HIDE DEF u, h
  <2> SUFFICES ASSUME NEW d \in KeysOf[kind], text[d] = d
               PROVE  /\ h[d] > 0 => \E v \in 0 .. n - 1 : LiveRow(u.rows[v], d)
                      /\ \A v \in 0 .. n - 1 :
                           LiveRow(u.rows[v], d) => h[d] > 0 /\ u.rows[v].payload = h[d]
    BY DEF HoldsGroups
  <2>1. CASE d = c
    <3>1. u.rows[s] = r /\ h[d] = 1 /\ LiveRow(u.rows[s], d)
      BY <1>6, <1>7, <1>10, <2>1
    <3>2. \A v \in 0 .. n - 1 : LiveRow(u.rows[v], d) => v = s
      BY <1>7, <2>1
    <3> QED BY <3>1, <3>2
  <2>2. CASE d # c
    <3>1. h[d] = g[d] /\ ~LiveRow(u.rows[s], d) /\ ~LiveRow(t.rows[s], d)
      BY <1>3, <1>6, <1>7, <1>10, <2>2 DEF LiveRow
    <3>2. \A v \in 0 .. n - 1 : v # s => u.rows[v] = t.rows[v]
      BY <1>7
    <3> QED BY <3>1, <3>2 DEF Full, HoldsGroups
  <2> QED BY <2>1, <2>2
<1> QED BY <1>7, <1>8, <1>11 DEF Full

(* A payload is counted through the pointer to a live row.                 *)
LEMMA RowCounted ==
  ASSUME InputInv, NEW n, NEW t, NEW g \in [Keys -> Nat], Full(n, t, g),
         NEW k \in KeysOf[kind], NEW s, s \in 0 .. n - 1, LiveRow(t.rows[s], text[k])
  PROVE  Full(n, Counted(t, s), OneMore(g, text[k]))
<1> DEFINE c == text[k]
           u == Counted(t, s)
           h == OneMore(g, c)
           old_r == t.rows[s]
           r == [old_r EXCEPT !.payload = @ + 1]
<1>1. n \in Nat /\ n > 0 /\ t \in TablesOf(n) /\ MapInv(n, t)
  BY DEF MapInv, Full
<1>2. c \in KeysOf[kind] /\ text[c] = c /\ k \in Keys /\ c \in Keys
  BY DEF InputInv, Keys
<1>3. old_r \in Rows
  BY <1>1 DEF TablesOf
<1>4. r \in Rows /\ r.tag = old_r.tag /\ r.key = old_r.key /\ r.payload = old_r.payload + 1
  <2> HIDE DEF old_r
  <2> QED BY <1>3 DEF Rows
<1>5. u \in TablesOf(n) /\ u.rows = [t.rows EXCEPT ![s] = r]
      /\ u.inserted = t.inserted /\ u.maxFill = t.maxFill
  <2>1. u = [t EXCEPT !.rows[s] = r]
    BY <1>1, <1>3 DEF Counted, TablesOf
  <2> HIDE DEF u, r
  <2> QED BY <1>1, <1>4, <2>1, RowChanged
<1>6. r.tag.fill /\ KeyRow(r) /\ LiveRow(r, c) /\ text[r.key] = c /\ Chained(n, t, s, c)
  <2> HIDE DEF r
  <2> QED BY <1>1, <1>4 DEF KeyRow, LiveRow, MapInv
<1>7. /\ MapInv(n, u) /\ FilledSlots(u) = FilledSlots(t) \cup {s}
      /\ \A v \in 0 .. n - 1 : u.rows[v] = IF v = s THEN r ELSE t.rows[v]
  <2>1. \A v \in 0 .. n - 1 : v # s => ~LiveRow(t.rows[v], c)
    BY <1>1, <1>2 DEF MapInv
  <2> HIDE DEF r, u
  <2>2. Writable(n, t, s, r)
    BY <1>6, <2>1 DEF Writable
  <2>3. Written(n, t, s, r, u)
    BY <1>5 DEF Written
  <2>4. MapInv(n, t) /\ r \in Rows
    BY <1>1, <1>4
  <2> HIDE DEF c, h, old_r
  <2> QED BY ONLY InputInv, s \in 0 .. n - 1, <2>2, <2>3, <2>4, RowWritten
<1>8. Sized(n, u)
  <2>1. s \in FilledSlots(t)
    BY <1>1, SizeOfTable DEF FilledSlots, LiveRow
  <2>2. FilledSlots(u) = FilledSlots(t)
    BY <1>7, <2>1
  <2> HIDE DEF u
  <2> QED BY <1>5, <2>2 DEF Sized, Full
<1>9. g[c] \in Nat /\ g[c] > 0 /\ r.payload = g[c] + 1
  <2> HIDE DEF r
  <2> QED BY <1>2, <1>4 DEF Full, HoldsGroups
<1>10. \A d \in KeysOf[kind] : d \in Keys /\ h[d] = IF d = c THEN g[c] + 1 ELSE g[d]
  BY <1>2, <1>9 DEF OneMore, Keys, InputInv
<1>11. HoldsGroups(n, u, h)
  <2> HIDE DEF u, h, r
  <2> SUFFICES ASSUME NEW d \in KeysOf[kind], text[d] = d
               PROVE  /\ h[d] > 0 => \E v \in 0 .. n - 1 : LiveRow(u.rows[v], d)
                      /\ \A v \in 0 .. n - 1 :
                           LiveRow(u.rows[v], d) => h[d] > 0 /\ u.rows[v].payload = h[d]
    BY DEF HoldsGroups
  <2>1. u.rows[s] = r /\ \A v \in 0 .. n - 1 : v # s => u.rows[v] = t.rows[v]
    BY <1>7
  <2>2. CASE d = c
    <3>1. h[d] = g[c] + 1 /\ LiveRow(u.rows[s], d)
      BY <1>6, <1>10, <2>1, <2>2
    <3>2. \A v \in 0 .. n - 1 : LiveRow(u.rows[v], d) => v = s
      BY <1>1, <1>2, <2>1, <2>2 DEF MapInv
    <3> QED BY <1>9, <2>1, <3>1, <3>2
  <2>3. CASE d # c
    <3>1. h[d] = g[d] /\ ~LiveRow(u.rows[s], d) /\ ~LiveRow(t.rows[s], d)
      BY <1>6, <1>10, <2>1, <2>3 DEF LiveRow
    <3> QED BY <2>1, <3>1 DEF Full, HoldsGroups
  <2> QED BY <2>2, <2>3
<1> QED BY <1>7, <1>8, <1>11 DEF Full

(* A row that a lookup found is disabled: its slot stays filled.           *)
LEMMA RowDisabled ==
  ASSUME InputInv, NEW n, NEW t, NEW g \in [Keys -> Nat], Full(n, t, g),
         NEW k \in KeysOf[kind], NEW s, s \in 0 .. n - 1, LiveRow(t.rows[s], text[k])
  PROVE  Full(n, [t EXCEPT !.rows[s].tag = Disabled(@)], [g EXCEPT ![text[k]] = 0])
<1> DEFINE c == text[k]
           u == [t EXCEPT !.rows[s].tag = Disabled(@)]
           h == [g EXCEPT ![c] = 0]
           old_r == t.rows[s]
           r == [old_r EXCEPT !.tag = Disabled(@)]
<1>1. n \in Nat /\ n > 0 /\ t \in TablesOf(n) /\ MapInv(n, t)
  BY DEF MapInv, Full
<1>2. c \in KeysOf[kind] /\ text[c] = c /\ k \in Keys /\ c \in Keys
  BY DEF InputInv, Keys
<1>3. old_r \in Rows /\ old_r.tag \in Tags
  BY <1>1 DEF TablesOf, Rows
<1>4. r.key = old_r.key /\ r.payload = old_r.payload /\ r.tag.fill = old_r.tag.fill
      /\ r.tag.print = Mask - old_r.tag.print
  <2> HIDE DEF old_r
  <2> QED BY <1>3 DEF Rows, Tags, Disabled
<1>5. r.tag.fill /\ text[r.key] = c /\ r.tag.print = Mask - hash[c].print /\ r.key \in KeysOf[kind]
  <2> HIDE DEF r
  <2> QED BY <1>1, <1>4 DEF LiveRow, MapInv, KeyRow
<1>6. ~LiveRow(r, c) /\ KeyRow(r) /\ Chained(n, t, s, c)
  <2> HIDE DEF r
  <2> QED BY <1>1, <1>2, <1>5, Inverted DEF LiveRow, MapInv, KeyRow
<1>7. r \in Rows
  <2>1. [old_r.tag EXCEPT !.print = Mask - @] \in Tags
    <3>1. Mask - old_r.tag.print \in 0 .. Mask
      BY <1>2, Inverted DEF LiveRow
    <3> HIDE DEF old_r
    <3> QED BY <1>3, <3>1 DEF Tags
  <2> HIDE DEF old_r
  <2> QED BY <1>3, <2>1 DEF Rows, Disabled
<1>8. u \in TablesOf(n) /\ u.rows = [t.rows EXCEPT ![s] = r]
      /\ u.inserted = t.inserted /\ u.maxFill = t.maxFill
  <2>1. u = [t EXCEPT !.rows[s] = r]
    BY <1>1, <1>3 DEF TablesOf
  <2> HIDE DEF u, r
  <2> QED BY <1>1, <1>7, <2>1, RowChanged
<1>9. /\ MapInv(n, u) /\ FilledSlots(u) = FilledSlots(t) \cup {s}
      /\ \A v \in 0 .. n - 1 : u.rows[v] = IF v = s THEN r ELSE t.rows[v]
  <2> HIDE DEF r, u
  <2>1. Writable(n, t, s, r)
    BY <1>5, <1>6 DEF Writable
  <2>2. Written(n, t, s, r, u)
    BY <1>8 DEF Written
  <2> QED BY <1>1, <1>7, <2>1, <2>2, RowWritten
<1>10. Sized(n, u)
  <2>1. s \in FilledSlots(t)
    BY <1>1, SizeOfTable DEF FilledSlots, LiveRow
  <2>2. FilledSlots(u) = FilledSlots(t)
    BY <1>9, <2>1
  <2> HIDE DEF u
  <2> QED BY <1>8, <2>2 DEF Sized, Full
<1>11. \A d \in KeysOf[kind] : d \in Keys /\ h[d] = IF d = c THEN 0 ELSE g[d]
  BY <1>2 DEF Keys, InputInv
<1>12. HoldsGroups(n, u, h)
  <2> HIDE DEF u, h, r
  <2> SUFFICES ASSUME NEW d \in KeysOf[kind], text[d] = d
               PROVE  /\ h[d] > 0 => \E v \in 0 .. n - 1 : LiveRow(u.rows[v], d)
                      /\ \A v \in 0 .. n - 1 :
                           LiveRow(u.rows[v], d) => h[d] > 0 /\ u.rows[v].payload = h[d]
    BY DEF HoldsGroups
  <2>1. u.rows[s] = r /\ \A v \in 0 .. n - 1 : v # s => u.rows[v] = t.rows[v]
    BY <1>9
  <2>2. CASE d = c
    <3>1. h[d] = 0 /\ ~LiveRow(u.rows[s], d)
      BY <1>6, <1>11, <2>1, <2>2
    <3>2. \A v \in 0 .. n - 1 : v # s => ~LiveRow(u.rows[v], d)
      BY <1>1, <1>2, <2>1, <2>2 DEF MapInv
    <3> QED BY <3>1, <3>2
  <2>3. CASE d # c
    <3>1. h[d] = g[d] /\ ~LiveRow(u.rows[s], d) /\ ~LiveRow(t.rows[s], d)
      BY <1>5, <1>11, <2>1, <2>3 DEF LiveRow
    <3> QED BY <2>1, <3>1 DEF Full, HoldsGroups
  <2> QED BY <2>2, <2>3
<1> QED BY <1>9, <1>10, <1>12 DEF Full

-----------------------------------------------------------------------------
(* Calls.                                                                  *)

(* What a call does once reserveSlot has made room: the group of its text  *)
(* has one row more. Insert relies on the caller that there is no group.   *)
LEMMA Performed ==
  ASSUME InputInv, groups \in [Keys -> Nat], NEW n, NEW t, Full(n, t, groups),
         t.inserted < t.maxFill, kind \in {"sk", "ck"}, NEW k \in KeysOf[kind],
         NEW name, name = "insert" => kind = "sk" /\ groups[k] = 0, Perform(t, name, k)
  PROVE  groups' = OneMore(groups, text[k]) /\ Full(n, table', groups')
<1>1. groups' = OneMore(groups, text[k])
  BY DEF Perform, OneMore
<1>2. n \in Nat /\ n > 0 /\ t \in TablesOf(n) /\ MapInv(n, t) /\ Sized(n, t)
  BY DEF Full, MapInv
<1>3. Cardinality(FilledSlots(t)) < n
  <2>1. t.maxFill \in Nat /\ t.inserted \in Nat
    BY <1>2 DEF TablesOf
  <2> QED BY <1>2, <2>1 DEF Sized
<1>4. ASSUME NEW s, EndsAt(n, t, k, s), NEW u,
             u = IF t.rows[s].tag = Zero THEN Inserted(t, s, k) ELSE Counted(t, s)
      PROVE  Full(n, u, OneMore(groups, text[k]))
  <2>1. s \in 0 .. n - 1
    BY <1>4 DEF EndsAt
  <2>2. CASE t.rows[s].tag.fill
    <3>1. t.rows[s].tag # Zero /\ LiveRow(t.rows[s], text[k])
      BY <1>4, <2>2 DEF EndsAt, Zero
    <3>2. Full(n, Counted(t, s), OneMore(groups, text[k]))
      BY <2>1, <3>1, RowCounted
    <3> QED BY <1>4, <3>1, <3>2
  <2>3. CASE ~t.rows[s].tag.fill
    <3>1. /\ t.rows[s] = FreshRow /\ Chained(n, t, s, text[k])
          /\ \A v \in 0 .. n - 1 : ~LiveRow(t.rows[v], text[k])
      BY <1>4, <2>3 DEF EndsAt
    <3>2. t.rows[s].tag = Zero
      BY <3>1 DEF FreshRow
    <3>3. Full(n, Inserted(t, s, k), OneMore(groups, text[k]))
      BY <2>1, <3>1, RowInserted
    <3> QED BY <1>4, <3>2, <3>3
  <2> QED BY <2>2, <2>3
<1>5. CASE name = "insert"
  <2> DEFINE C == {s \in Slots(t) : ~t.rows[s].tag.fill}
             f == FirstProbed(t, k, C)
  <2>1. f \in 0 .. n - 1 /\ t.rows[f] = FreshRow /\ Chained(n, t, f, text[k])
    BY <1>2, <1>3, FindFree
  <2>2. text[k] = k /\ groups[text[k]] = 0
    BY <1>5 DEF InputInv
  <2>3. \A v \in 0 .. n - 1 : ~LiveRow(t.rows[v], text[k])
    BY <2>2 DEF Full, HoldsGroups
  <2>4. table' = Inserted(t, f, k)
    BY <1>5 DEF Perform, Insert
  <2>5. Full(n, Inserted(t, f, k), OneMore(groups, text[k]))
    <3> HIDE DEF f
    <3> QED BY <2>1, <2>3, RowInserted
  <2> QED BY <1>1, <2>4, <2>5
<1>6. CASE name # "insert" /\ kind = "sk"
  <2>1. EndsAt(n, t, k, FindSlotOrEmpty(t, k))
    BY <1>2, <1>3, <1>6, Lookup
  <2>2. table' = IF t.rows[FindSlotOrEmpty(t, k)].tag = Zero
                   THEN Inserted(t, FindSlotOrEmpty(t, k), k)
                   ELSE Counted(t, FindSlotOrEmpty(t, k))
    BY <1>6 DEF Perform, LookupOrInsert
  <2> QED BY <1>1, <1>4, <2>1, <2>2
<1>7. CASE name # "insert" /\ kind = "ck"
  <2>1. EndsAt(n, t, k, FindStringOrEmpty(t, k))
    BY <1>2, <1>3, <1>7, Lookup
  <2>2. table' = IF t.rows[FindStringOrEmpty(t, k)].tag = Zero
                   THEN Inserted(t, FindStringOrEmpty(t, k), k)
                   ELSE Counted(t, FindStringOrEmpty(t, k))
    BY <1>7 DEF Perform, LookupOrInsertString
  <2> QED BY <1>1, <1>4, <2>1, <2>2
<1> QED BY <1>5, <1>6, <1>7

-----------------------------------------------------------------------------
(* Growing a table.                                                        *)

(* While a table is resized its rows below idx, and only those, are in the *)
(* new one, which has room for twice as many.                              *)
MovedRows(n) ==
  /\ \A s \in 0 .. 2 * n - 1, c \in KeysOf[kind] : text[c] = c /\ LiveRow(table.rows[s], c) =>
       /\ table.rows[s].payload = groups[c]
       /\ \E r \in 0 .. n - 1 : r < idx /\ LiveRow(old.rows[r], c)
  /\ \A r \in 0 .. n - 1, c \in KeysOf[kind] :
       text[c] = c /\ r < idx /\ LiveRow(old.rows[r], c) =>
         \E s \in 0 .. 2 * n - 1 : LiveRow(table.rows[s], c)
MoveInv(n) ==
  /\ Full(n, old, groups) /\ old.inserted = old.maxFill
  /\ MapInv(2 * n, table) /\ table.maxFill = n
  /\ Cardinality(FilledSlots(table)) = Cardinality({r \in FilledSlots(old) : r < idx})
  /\ MovedRows(n)

(* The calls: reserveSlot belongs to a call that can be performed.         *)
CallInv ==
  /\ pc \in {"idle", "move", "pick", "read", "done"}
  /\ groups \in [Keys -> Nat] /\ idx \in Nat
  /\ op \in [name : {"none", "lookupOrInsert", "insert"}, key : Keys]
  /\ pc # "move" => old = NewTable(0)
  /\ pc = "move" =>
       /\ kind \in {"sk", "ck"} /\ op.key \in KeysOf[kind] /\ idx <= Capacity(old)
       /\ op.name = "insert" => kind = "sk" /\ groups[op.key] = 0
OpenInv ==
  kind \in {"sk", "ck"} =>
    /\ pc # "move" => Full(Capacity(table), table, groups)
    /\ pc = "move" => MoveInv(Capacity(old))

(* The tables that never grow.                                             *)
DirectInv ==
  kind = "dl" =>
    /\ table \in TablesOf(DirectSlots)
    /\ \A s \in 0 .. DirectSlots - 1 : ~table.rows[s].tag.fill => table.rows[s] = FreshRow
    /\ \A k \in KeysOf[kind] :
         LET row == table.rows[hash[k].low] IN
         /\ row.tag.fill <=> groups[k] > 0
         /\ row.tag.fill => row.key = k
         /\ row.payload = groups[k]
    /\ table.inserted = Cardinality(FilledSlots(table))
SingleInv ==
  kind = "nk" =>
    /\ table \in TablesOf(4) /\ table.maxFill = 2
    /\ \A s \in 0 .. 3 : ~table.rows[s].tag.fill => table.rows[s] = FreshRow
    /\ FilledSlots(table) \subseteq {0}
    /\ table.rows[0].tag.fill <=> groups[ZeroKey] > 0
    /\ table.rows[0].key = ZeroKey /\ table.rows[0].payload = groups[ZeroKey]
    /\ table.inserted = Cardinality(FilledSlots(table))

IInv == InputInv /\ CallInv /\ OpenInv /\ DirectInv /\ SingleInv /\ MovedOnce

-----------------------------------------------------------------------------
(* Steps, while the keys and the hashes stay as they are.                  *)

(* What is said of a table does not change with time.                      *)
LEMMA NextInput ==
  ASSUME InputInv, UNCHANGED input
  PROVE  InputInv' /\ kind' = kind /\ text' = text /\ hash' = hash
<1>1. kind' = kind /\ text' = text /\ hash' = hash
  BY DEF input
<1>2. InputInv'
  BY <1>1 DEF InputInv
<1> QED BY <1>1, <1>2

(* A table that is full of the right rows after a step is so in the next   *)
(* state: the keys it is compared with are the same.                       *)
LEMMA NextFull ==
  ASSUME UNCHANGED input, Full(Capacity(table'), table', groups')
  PROVE  Full(Capacity(table), table, groups)'
<1>1. kind' = kind /\ text' = text /\ hash' = hash
  BY DEF input
<1>2. MapInv(Capacity(table), table)'
  BY <1>1 DEF Full, MapInv, Capacity, Slots, KeyRow, Chained, HomeOf, LiveRow
<1>3. HoldsGroups(Capacity(table), table, groups)'
  BY <1>1 DEF Full, HoldsGroups, Capacity, Slots, LiveRow
<1>4. Sized(Capacity(table), table)'
  BY DEF Full, Sized, Capacity, Slots, FilledSlots
<1> QED BY <1>2, <1>3, <1>4 DEF Full

(* The same of a table that is being resized.                              *)
LEMMA NextMove ==
  ASSUME UNCHANGED input, NEW n, n = Capacity(old'), Full(n, old', groups'),
         old'.inserted = old'.maxFill, MapInv(2 * n, table'), table'.maxFill = n,
         Cardinality(FilledSlots(table')) = Cardinality({r \in FilledSlots(old') : r < idx'}),
         MovedRows(n)'
  PROVE  MoveInv(Capacity(old))'
<1>1. kind' = kind /\ text' = text /\ hash' = hash
  BY DEF input
<1>2. Capacity(old)' = n
  BY DEF Capacity, Slots
<1>3. MapInv(2 * Capacity(old), table)'
  BY <1>1, <1>2 DEF MapInv, KeyRow, Chained, HomeOf, LiveRow
<1>4. MapInv(Capacity(old), old)'
  BY <1>1, <1>2 DEF Full, MapInv, KeyRow, Chained, HomeOf, LiveRow
<1>5. HoldsGroups(Capacity(old), old, groups)'
  BY <1>1, <1>2 DEF Full, HoldsGroups, LiveRow
<1>6. Sized(Capacity(old), old)' /\ old'.inserted = old'.maxFill
  BY <1>2 DEF Full, Sized, FilledSlots, Slots
<1>7. Cardinality(FilledSlots(table))' = Cardinality({r \in FilledSlots(old) : r < idx})'
  BY DEF FilledSlots, Slots
<1>8. MovedRows(Capacity(old))'
  BY <1>2 DEF MovedRows, LiveRow
<1> QED BY <1>2, <1>3, <1>4, <1>5, <1>6, <1>7, <1>8 DEF MoveInv, Full

(* A new table has no rows.                                                *)
LEMMA NewMap ==
  ASSUME InputInv, NEW n \in Nat, n > 0
  PROVE  /\ MapInv(n, NewTable(n)) /\ Capacity(NewTable(n)) = n
         /\ FilledSlots(NewTable(n)) = {} /\ Cardinality(FilledSlots(NewTable(n))) = 0
         /\ \A s \in 0 .. n - 1 : ~NewTable(n).rows[s].tag.fill
<1> DEFINE t == NewTable(n)
<1>1. t \in TablesOf(n) /\ \A s \in 0 .. n - 1 : t.rows[s] = FreshRow
  BY EmptyTable
<1> HIDE DEF t
<1>2. \A s \in 0 .. n - 1 : ~t.rows[s].tag.fill
  BY <1>1 DEF FreshRow, Zero
<1>3. Capacity(t) = n /\ Slots(t) = 0 .. n - 1
  BY <1>1, SizeOfTable
<1>4. FilledSlots(t) = {}
  BY <1>2, <1>3 DEF FilledSlots
<1>5. Cardinality({}) = 0
  BY FS_EmptySet
<1>6. MapInv(n, t)
  BY <1>1, <1>2 DEF MapInv, LiveRow
<1> QED BY <1>2, <1>3, <1>4, <1>5, <1>6 DEF t

(* The invariant holds at first: all tables are empty.                     *)
LEMMA InitIInv == Init => IInv
<1> SUFFICES ASSUME Init PROVE IInv
  OBVIOUS
<1> USE TableAssumption
<1>1. kind \in Kinds /\ kind \in {"sk", "ck", "dl", "nk"}
  BY DEF Init
<1>2. InputInv
  <2>1. \A k \in KeysOf[kind] : k \in Keys
    BY <1>1 DEF Keys
  <2>2. CASE kind = "ck"
    <3>1. text \in Strings /\ hash \in [KeysOf[kind] -> Hashes]
      BY <2>2 DEF Init
    <3> QED BY <1>1, <2>1, <2>2, <3>1 DEF InputInv, Strings
  <2>3. CASE kind = "dl"
    <3>1. text = [k \in Keys |-> k] /\ hash \in Indexes
      BY <2>3 DEF Init
    <3>2. hash \in [KeysOf[kind] -> [low : 0 .. DirectSlots - 1, print : {0}]]
      BY <2>3, <3>1 DEF Indexes
    <3>3. hash \in [KeysOf[kind] -> [low : Nat, print : 0 .. Mask]]
      BY <3>2
    <3>4. \A k, l \in KeysOf[kind] : hash[k].low = hash[l].low => k = l
      <4> SUFFICES ASSUME NEW k \in KeysOf[kind], NEW l \in KeysOf[kind],
                          hash[k].low = hash[l].low
                   PROVE  k = l
        OBVIOUS
      <4>1. hash[k] = hash[l]
        BY <3>2
      <4> QED BY <2>3, <3>1, <4>1 DEF Indexes
    <3> QED BY <1>1, <2>1, <2>3, <3>1, <3>2, <3>3, <3>4 DEF InputInv
  <2>4. CASE kind \in {"sk", "nk"}
    <3>1. text = [k \in Keys |-> k] /\ hash \in [KeysOf[kind] -> Hashes]
      BY <2>4 DEF Init
    <3> QED BY <1>1, <2>1, <2>4, <3>1 DEF InputInv
  <2> QED BY <1>1, <2>2, <2>3, <2>4
<1>3. groups \in [Keys -> Nat] /\ \A k \in Keys : groups[k] = 0
  BY DEF Init
<1>4. ZeroKey \in Keys /\ \A k \in KeysOf[kind] : k \in Keys
  BY <1>1 DEF Keys
<1>5. CallInv
  BY <1>3, <1>4 DEF Init, CallInv, NoCall
<1>6. /\ kind \in {"sk", "ck"} => table = NewTable(StartSlots)
      /\ kind = "dl" => table = NewTable(DirectSlots)
      /\ kind = "nk" => table = NewTable(4)
  BY <1>1 DEF Init, FirstSlots
<1>7. OpenInv
  <2> SUFFICES ASSUME kind \in {"sk", "ck"} PROVE Full(Capacity(table), table, groups)
    BY DEF OpenInv, Init
  <2>1. StartSlots \in Nat /\ StartSlots > 0 /\ StartSlots = 2 * (StartSlots \div 2)
    OBVIOUS
  <2>2. /\ MapInv(StartSlots, table) /\ Capacity(table) = StartSlots
        /\ Cardinality(FilledSlots(table)) = 0
        /\ \A s \in 0 .. StartSlots - 1 : ~table.rows[s].tag.fill
    BY <1>2, <1>6, <2>1, NewMap
  <2>3. table.inserted = 0 /\ table.maxFill = StartSlots \div 2
    BY <1>6, <2>1, EmptyTable
  <2>4. Sized(StartSlots, table)
    BY <2>1, <2>2, <2>3 DEF Sized
  <2>5. HoldsGroups(StartSlots, table, groups)
    BY <1>3, <1>4, <2>2 DEF HoldsGroups, LiveRow
  <2> QED BY <2>2, <2>4, <2>5 DEF Full
<1>8. DirectInv
  <2> SUFFICES ASSUME kind = "dl" PROVE DirectInv
    BY DEF DirectInv
  <2>1. table \in TablesOf(DirectSlots) /\ table.inserted = 0
        /\ \A s \in 0 .. DirectSlots - 1 : table.rows[s] = FreshRow
    BY <1>6, EmptyTable
  <2>2. Cardinality(FilledSlots(table)) = 0
    BY <1>2, <1>6, NewMap
  <2>3. \A k \in KeysOf[kind] : hash[k].low \in 0 .. DirectSlots - 1
    BY <1>2 DEF InputInv
  <2>4. \A s \in 0 .. DirectSlots - 1 : ~table.rows[s].tag.fill /\ table.rows[s].payload = 0
    BY <2>1 DEF FreshRow, Zero
  <2>5. \A k \in KeysOf[kind] :
          groups[k] = 0 /\ ~table.rows[hash[k].low].tag.fill /\ table.rows[hash[k].low].payload = 0
    BY <1>3, <1>4, <2>3, <2>4
  <2> QED BY <2>1, <2>2, <2>5 DEF DirectInv
<1>9. SingleInv
  <2> SUFFICES ASSUME kind = "nk" PROVE SingleInv
    BY DEF SingleInv
  <2>1. 4 \in Nat /\ 4 > 0 /\ 4 \div 2 = 2 /\ 4 - 1 = 3
    OBVIOUS
  <2>2. table \in TablesOf(4) /\ table.inserted = 0 /\ table.maxFill = 2
        /\ \A s \in 0 .. 3 : table.rows[s] = FreshRow
    BY <1>6, <2>1, EmptyTable
  <2>3. Cardinality(FilledSlots(table)) = 0 /\ FilledSlots(table) = {}
    BY <1>2, <1>6, <2>1, NewMap
  <2>4. 0 \in 0 .. 3
    OBVIOUS
  <2> QED BY <1>3, <1>4, <2>2, <2>3, <2>4 DEF SingleInv, FreshRow, Zero
<1>10. MovedOnce
  BY DEF Init, MovedOnce
<1> QED BY <1>2, <1>5, <1>7, <1>8, <1>9, <1>10 DEF IInv

(* A call on a table with room, and the calls that never find a full one.  *)
LEMMA CallRoom ==
  ASSUME IInv, NEW name \in {"lookupOrInsert", "insert"}, NEW k \in Keys, Call(name, k),
         table.inserted < table.maxFill
  PROVE  IInv'
<1>1. /\ pc = "idle" /\ kind \in {"sk", "ck"} /\ k \in KeysOf[kind]
      /\ name = "insert" => kind = "sk" /\ groups[k] = 0
      /\ Perform(table, name, k) /\ UNCHANGED <<pc, old, idx, op, input>>
  BY DEF Call
<1>2. InputInv /\ groups \in [Keys -> Nat] /\ Full(Capacity(table), table, groups)
  BY <1>1 DEF IInv, CallInv, OpenInv
<1>3. groups' = OneMore(groups, text[k]) /\ Full(Capacity(table), table', groups')
  <2> DEFINE n == Capacity(table)
  <2> HIDE DEF n
  <2> SUFFICES ASSUME Full(n, table, groups)
               PROVE  groups' = OneMore(groups, text[k]) /\ Full(n, table', groups')
    BY <1>2 DEF n
  <2> QED BY <1>1, <1>2, Performed
<1>4. Capacity(table') = Capacity(table)
  BY <1>3, SizeOfTable DEF Full, MapInv
<1>5. InputInv' /\ kind' = kind
  BY <1>1, <1>2, NextInput
<1>6. groups' \in [Keys -> Nat]
  <2>1. text[k] \in Keys
    BY <1>2 DEF InputInv
  <2> QED BY <1>2, <1>3, <2>1 DEF OneMore
<1>7. CallInv'
  BY <1>1, <1>6 DEF IInv, CallInv
<1>8. OpenInv'
  BY <1>1, <1>3, <1>4, NextFull DEF OpenInv
<1> QED BY <1>1, <1>5, <1>7, <1>8 DEF IInv, DirectInv, SingleInv, MovedOnce

(* A call on a full table begins a resize.                                 *)
LEMMA CallFull ==
  ASSUME IInv, NEW name \in {"lookupOrInsert", "insert"}, NEW k \in Keys, Call(name, k),
         ~(table.inserted < table.maxFill)
  PROVE  IInv'
<1>0. PICK n : n = Capacity(table)
  OBVIOUS
<1>1. /\ pc = "idle" /\ kind \in {"sk", "ck"} /\ k \in KeysOf[kind]
      /\ name = "insert" => kind = "sk" /\ groups[k] = 0
      /\ table' = NewTable(2 * n) /\ old' = table /\ idx' = 0
      /\ op' = [name |-> name, key |-> k] /\ pc' = "move"
      /\ UNCHANGED <<groups, input>>
  BY <1>0 DEF Call
<1>2. InputInv /\ groups \in [Keys -> Nat] /\ Full(n, table, groups)
  BY <1>0, <1>1 DEF IInv, CallInv, OpenInv
<1>3. InputInv' /\ kind' = kind /\ text' = text /\ hash' = hash
  BY <1>1, <1>2, NextInput
<1>4. n \in Nat /\ n > 0 /\ table \in TablesOf(n) /\ n = Capacity(old')
  BY <1>0, <1>1, <1>2 DEF Full, MapInv
<1>5. /\ 2 * n \in Nat /\ 2 * n > 0 /\ (2 * n) \div 2 = n
      /\ MapInv(2 * n, table') /\ Cardinality(FilledSlots(table')) = 0
      /\ \A s \in 0 .. 2 * n - 1 : ~table'.rows[s].tag.fill
  <2>1. 2 * n \in Nat /\ 2 * n > 0 /\ (2 * n) \div 2 = n
    BY <1>4
  <2> DEFINE m == 2 * n
  <2> HIDE DEF m
  <2>2. m \in Nat /\ m > 0 /\ table' = NewTable(m)
    BY <1>1, <2>1 DEF m
  <2>3. /\ MapInv(m, table') /\ Cardinality(FilledSlots(table')) = 0
        /\ \A s \in 0 .. m - 1 : ~table'.rows[s].tag.fill
    BY <1>2, <2>2, NewMap
  <2> QED BY <2>1, <2>3 DEF m
<1>6. table'.maxFill = n
  BY <1>1, <1>5, EmptyTable
<1>7. old'.inserted = old'.maxFill
  <2>1. table.inserted \in Nat /\ table.maxFill \in Nat
    BY <1>4 DEF TablesOf
  <2> QED BY <1>1, <1>2, <2>1 DEF Full, Sized
<1>8. {r \in FilledSlots(old') : r < idx'} = {}
  <2>1. Slots(table) = 0 .. n - 1
    BY <1>4, SizeOfTable
  <2>2. \A r \in FilledSlots(old') : ~(r < idx')
    BY <1>1, <1>4, <2>1 DEF FilledSlots
  <2> QED BY <2>2
<1>9. MovedRows(n)'
  <2>1. \A s \in 0 .. 2 * n - 1 : ~table'.rows[s].tag.fill
    BY <1>5
  <2>2. \A r \in 0 .. n - 1 : ~(r < idx')
    BY <1>1, <1>4
  <2> QED BY <2>1, <2>2 DEF MovedRows, LiveRow
<1>10. MoveInv(Capacity(old))'
  <2>1. Cardinality(FilledSlots(table')) = Cardinality({r \in FilledSlots(old') : r < idx'})
    BY <1>5, <1>8, FS_EmptySet
  <2>2. Full(n, old', groups')
    BY <1>1, <1>2
  <2>3. MapInv(2 * n, table')
    BY <1>5
  <2> QED BY <1>1, <1>4, <1>6, <1>7, <1>9, <2>1, <2>2, <2>3, NextMove
<1>11. OpenInv'
  BY <1>1, <1>10 DEF OpenInv
<1>12. CallInv'
  <2>1. Capacity(old)' = n
    BY <1>4 DEF Capacity, Slots
  <2> QED BY <1>1, <1>2, <1>3, <1>4, <2>1 DEF CallInv
<1>13. MovedOnce'
  <2>1. /\ Slots(old') = 0 .. n - 1 /\ Slots(table') = 0 .. 2 * n - 1
    BY <1>1, <1>4, <1>5, SizeOfTable DEF MapInv
  <2> SUFFICES ASSUME NEW s \in FilledSlots(old')
               PROVE  Cardinality({r \in Slots(old') : r < idx' /\ old'.rows[r] = old'.rows[s]})
                        = Cardinality({r \in Slots(table') : table'.rows[r] = old'.rows[s]})
    BY DEF MovedOnce, FilledSlots, Slots
  <2>2. {r \in Slots(old') : r < idx' /\ old'.rows[r] = old'.rows[s]} = {}
    BY <1>1, <1>4, <2>1
  <2>3. {r \in Slots(table') : table'.rows[r] = old'.rows[s]} = {}
    BY <1>5, <2>1 DEF FilledSlots
  <2> QED BY <2>2, <2>3
<1> QED BY <1>1, <1>3, <1>11, <1>12, <1>13 DEF IInv, DirectInv, SingleInv

(* A row is moved to a free slot of the new table, or an empty slot is     *)
(* passed.                                                                 *)
Moved(row) ==
  /\ ~row.tag.fill => table' = table
  /\ row.tag.fill =>
       LET free == {s \in Slots(table) : ~table.rows[s].tag.fill}
       IN  table' = [table EXCEPT !.rows[FirstProbed(table, row.key, free)] = row]

(* A slot is free if and only if its tag is zero.                          *)
LEMMA FreeTag ==
  ASSUME NEW n, NEW t, MapInv(n, t), NEW s \in 0 .. n - 1
  PROVE  t.rows[s].tag = Zero <=> ~t.rows[s].tag.fill
<1>1. ASSUME t.rows[s].tag = Zero PROVE ~t.rows[s].tag.fill
  BY <1>1 DEF Zero
<1>2. ASSUME ~t.rows[s].tag.fill PROVE t.rows[s].tag = Zero
  <2>1. t.rows[s] = FreshRow
    BY <1>2 DEF MapInv
  <2> QED BY <2>1 DEF FreshRow
<1> QED BY <1>1, <1>2

(* Both loops of reserveSlot do that. A slot is empty if its tag is zero.  *)
LEMMA MoveActions ==
  ASSUME IInv, MoveSlot \/ MoveString
  PROVE  /\ pc = "move" /\ idx \in Slots(old) /\ idx' = idx + 1
         /\ UNCHANGED <<input, pc, old, op, groups, reader, visits>>
         /\ Moved(old.rows[idx])
<1>1. /\ pc = "move" /\ kind \in {"sk", "ck"} /\ idx \in Slots(old) /\ idx' = idx + 1
      /\ UNCHANGED <<input, pc, old, op, groups, reader, visits>>
  BY DEF MoveSlot, MoveString
<1>2. MoveInv(Capacity(old))
  BY <1>1 DEF IInv, OpenInv
<1>3. PICK n : n = Capacity(old)
  OBVIOUS
<1>4. MapInv(n, old) /\ MapInv(2 * n, table) /\ old \in TablesOf(n) /\ table \in TablesOf(2 * n)
      /\ n \in Nat
  BY <1>2, <1>3 DEF MoveInv, Full, MapInv
<1>5. Slots(old) = 0 .. n - 1 /\ Slots(table) = 0 .. 2 * n - 1
  BY <1>4, SizeOfTable
<1>6. old.rows[idx].tag = Zero <=> ~old.rows[idx].tag.fill
  BY <1>1, <1>4, <1>5, FreeTag
<1>7. \A s \in Slots(table) : table.rows[s].tag = Zero <=> ~table.rows[s].tag.fill
  BY <1>4, <1>5, FreeTag
<1>8. {s \in Slots(table) : table.rows[s].tag = Zero} = {s \in Slots(table) : ~table.rows[s].tag.fill}
  BY <1>7
<1>9. CASE MoveSlot
  BY <1>1, <1>6, <1>8, <1>9 DEF MoveSlot, Moved
<1>10. CASE MoveString
  BY <1>1, <1>6, <1>8, <1>10 DEF MoveString, Moved, FirstEmptySlot
<1> QED BY <1>1, <1>9, <1>10

(* A row that was moved is in the new table, where it was free before.     *)
LEMMA MoveFilled ==
  ASSUME InputInv, NEW n, n = Capacity(old), MoveInv(n), idx \in 0 .. n - 1,
         old.rows[idx].tag.fill, Moved(old.rows[idx])
  PROVE  \E to \in 0 .. 2 * n - 1 :
           /\ ~table.rows[to].tag.fill
           /\ MapInv(2 * n, table') /\ table'.maxFill = table.maxFill
           /\ FilledSlots(table') = FilledSlots(table) \cup {to}
           /\ \A s \in 0 .. 2 * n - 1 :
                table'.rows[s] = IF s = to THEN old.rows[idx] ELSE table.rows[s]
<1> DEFINE row == old.rows[idx]
           free == {s \in Slots(table) : ~table.rows[s].tag.fill}
           to == FirstProbed(table, row.key, free)
           m == 2 * n
<1>1. /\ n \in Nat /\ n > 0 /\ old \in TablesOf(n) /\ MapInv(n, old) /\ Sized(n, old)
      /\ MapInv(m, table) /\ table \in TablesOf(m)
  BY DEF MoveInv, Full, MapInv
<1>2. Cardinality(FilledSlots(table)) < m
  <2> DEFINE before == {r \in FilledSlots(old) : r < idx}
  <2>1. IsFiniteSet(FilledSlots(old)) /\ Cardinality(FilledSlots(old)) \in Nat
    BY <1>1, SizeOfTable
  <2>2. Cardinality(before) <= Cardinality(FilledSlots(old)) /\ Cardinality(before) \in Nat
    BY <2>1, FS_Subset, FS_CardinalityType
  <2>3. Cardinality(FilledSlots(table)) = Cardinality(before)
    BY DEF MoveInv
  <2>4. Cardinality(FilledSlots(old)) <= old.maxFill /\ n = 2 * old.maxFill /\ old.maxFill \in Nat
    BY <1>1 DEF Sized, TablesOf
  <2> HIDE DEF before
  <2> QED BY <1>1, <2>1, <2>2, <2>3, <2>4
<1>3. /\ row \in Rows /\ row.tag.fill /\ KeyRow(row) /\ row.key \in KeysOf[kind]
  BY <1>1 DEF TablesOf, MapInv, KeyRow
<1>4. to \in 0 .. m - 1 /\ table.rows[to] = FreshRow /\ Chained(m, table, to, text[row.key])
  <2> DEFINE k == row.key
  <2>1. k \in KeysOf[kind]
    BY <1>3
  <2> HIDE DEF k, m
  <2>2. /\ FirstProbed(table, k, free) \in 0 .. m - 1
        /\ table.rows[FirstProbed(table, k, free)] = FreshRow
        /\ Chained(m, table, FirstProbed(table, k, free), text[k])
    BY <1>1, <1>2, <2>1, FindFree
  <2> QED BY <2>2 DEF k
<1>5. table' = [table EXCEPT !.rows[to] = row]
  BY DEF Moved
<1> HIDE DEF to
<1>6. Written(m, table, to, row, table') /\ table'.maxFill = table.maxFill
  <2> HIDE DEF row, m
  <2>1. m \in Nat
    BY <1>1 DEF MapInv
  <2> QED BY <1>1, <1>3, <1>4, <1>5, <2>1, RowChanged DEF Written
<1>7. Writable(m, table, to, row)
  <2>1. ASSUME NEW v \in 0 .. m - 1, LiveRow(row, text[row.key]),
               LiveRow(table.rows[v], text[row.key])
        PROVE  FALSE
    <3> DEFINE c == text[row.key]
    <3>1. c \in KeysOf[kind] /\ text[c] = c
      BY <1>3 DEF InputInv
    <3>2. PICK r \in 0 .. n - 1 : r < idx /\ LiveRow(old.rows[r], c)
      BY <2>1, <3>1 DEF MoveInv, MovedRows
    <3>3. r = idx
      BY <1>1, <2>1, <3>1, <3>2 DEF MapInv
    <3> QED BY <1>1, <3>2, <3>3
  <2> HIDE DEF row, m
  <2> QED BY <1>3, <1>4, <2>1 DEF Writable
<1>8. /\ MapInv(m, table')
      /\ FilledSlots(table') = FilledSlots(table) \cup {to}
      /\ \A v \in 0 .. m - 1 : table'.rows[v] = IF v = to THEN row ELSE table.rows[v]
  <2> HIDE DEF row, m
  <2> QED BY <1>1, <1>3, <1>4, <1>6, <1>7, RowWritten
<1>9. ~table.rows[to].tag.fill
  BY <1>4 DEF FreshRow, Zero
<1> HIDE DEF row
<1> QED BY <1>4, <1>6, <1>8, <1>9 DEF row

(* The row of slot s of the old table is in the part that was moved, below *)
(* i, as often as in the new table t.                                      *)
MovedCount(s, i, t) ==
  Cardinality({r \in Slots(old) : r < i /\ old.rows[r] = old.rows[s]})
    = Cardinality({r \in Slots(t) : t.rows[r] = old.rows[s]})

(* MovedOnce counts for every slot what it says of every row.              *)
LEMMA MovedOnceCounts ==
  ASSUME pc = "move", UNCHANGED <<pc, old>>
  PROVE  /\ MovedOnce => \A s \in FilledSlots(old) : MovedCount(s, idx, table)
         /\ (\A s \in FilledSlots(old) : MovedCount(s, idx', table')) => MovedOnce'
<1>1. ASSUME MovedOnce, NEW s \in FilledSlots(old) PROVE MovedCount(s, idx, table)
  <2>1. old.rows[s] \in {old.rows[r] : r \in FilledSlots(old)}
    OBVIOUS
  <2> QED BY <1>1, <2>1 DEF MovedOnce, MovedCount
<1>2. ASSUME \A s \in FilledSlots(old) : MovedCount(s, idx', table') PROVE MovedOnce'
  <2>1. FilledSlots(old)' = FilledSlots(old) /\ Slots(old)' = Slots(old)
    BY DEF FilledSlots, Slots
  <2> QED BY <1>2, <2>1 DEF MovedOnce, MovedCount
<1> QED BY <1>1, <1>2

(* Moving a row, or passing an empty slot, keeps the invariant.            *)
LEMMA MoveStep ==
  ASSUME IInv, MoveSlot \/ MoveString
  PROVE  IInv'
<1>1. PICK n : n = Capacity(old)
  OBVIOUS
<1>2. /\ pc = "move" /\ idx \in Slots(old) /\ idx' = idx + 1
      /\ UNCHANGED <<input, pc, old, op, groups>>
      /\ Moved(old.rows[idx])
  BY MoveActions
<1>3. /\ InputInv /\ CallInv /\ MoveInv(n) /\ MovedOnce /\ kind \in {"sk", "ck"}
  BY <1>1, <1>2 DEF IInv, OpenInv, CallInv
<1>4. InputInv' /\ kind' = kind /\ text' = text /\ hash' = hash
  BY <1>2, <1>3, NextInput
<1>5. /\ n \in Nat /\ n > 0 /\ old \in TablesOf(n) /\ MapInv(n, old)
      /\ MapInv(2 * n, table) /\ table \in TablesOf(2 * n) /\ table.maxFill = n
      /\ HoldsGroups(n, old, groups)
  BY <1>3 DEF MoveInv, Full, MapInv
<1>6. Slots(old) = 0 .. n - 1 /\ Slots(table) = 0 .. 2 * n - 1 /\ idx \in 0 .. n - 1
      /\ IsFiniteSet(Slots(old)) /\ IsFiniteSet(Slots(table))
  BY <1>2, <1>5, SizeOfTable
<1> DEFINE row == old.rows[idx]
           before == {r \in FilledSlots(old) : r < idx}
           upTo == {r \in FilledSlots(old) : r < idx + 1}
<1>7. ASSUME ~row.tag.fill PROVE MoveInv(Capacity(old))' /\ MovedOnce'
  <2>1. table' = table
    BY <1>2, <1>7 DEF Moved
  <2>2. \A r \in 0 .. n - 1 : old.rows[r].tag.fill => (r < idx + 1 <=> r < idx)
    BY <1>6, <1>7
  <2>3. upTo = before
    BY <1>6, <2>2 DEF FilledSlots
  <2>4. MovedRows(n)'
    BY <1>2, <1>3, <1>4, <2>1, <2>2 DEF MoveInv, MovedRows, LiveRow
  <2>5. MoveInv(Capacity(old))'
    <3>1. Cardinality(FilledSlots(table')) = Cardinality({r \in FilledSlots(old') : r < idx'})
      BY <1>2, <1>3, <2>1, <2>3 DEF MoveInv
    <3>2. Full(n, old', groups') /\ old'.inserted = old'.maxFill
      BY <1>2, <1>3 DEF MoveInv
    <3> QED BY <1>1, <1>2, <1>5, <2>1, <2>4, <3>1, <3>2, NextMove
  <2>6. ASSUME NEW s \in FilledSlots(old)
        PROVE  {r \in Slots(old) : r < idx + 1 /\ old.rows[r] = old.rows[s]}
                 = {r \in Slots(old) : r < idx /\ old.rows[r] = old.rows[s]}
    BY <1>6, <2>2 DEF FilledSlots
  <2>7. MovedOnce'
    <3>1. \A s \in FilledSlots(old) : MovedCount(s, idx, table)
      BY <1>2, <1>3, MovedOnceCounts
    <3>2. \A s \in FilledSlots(old) : MovedCount(s, idx', table')
      BY <1>2, <2>1, <2>6, <3>1 DEF MovedCount
    <3> QED BY <1>2, <3>2, MovedOnceCounts
  <2> QED BY <2>5, <2>7
<1>8. ASSUME row.tag.fill PROVE MoveInv(Capacity(old))' /\ MovedOnce'
  <2>1. PICK to \in 0 .. 2 * n - 1 :
          /\ ~table.rows[to].tag.fill
          /\ MapInv(2 * n, table') /\ table'.maxFill = table.maxFill
          /\ FilledSlots(table') = FilledSlots(table) \cup {to}
          /\ \A s \in 0 .. 2 * n - 1 :
               table'.rows[s] = IF s = to THEN old.rows[idx] ELSE table.rows[s]
    BY <1>1, <1>2, <1>3, <1>6, <1>8, MoveFilled
  <2>2. /\ upTo = before \cup {idx} /\ idx \notin before /\ IsFiniteSet(before)
        /\ to \notin FilledSlots(table) /\ IsFiniteSet(FilledSlots(table))
    BY <1>5, <1>6, <1>8, <2>1, SizeOfTable, FS_Subset DEF FilledSlots
  <2>3. Cardinality(FilledSlots(table')) = Cardinality(upTo)
    <3>1. Cardinality(FilledSlots(table')) = Cardinality(FilledSlots(table)) + 1
      BY <2>1, <2>2, FS_AddElement
    <3>2. Cardinality(upTo) = Cardinality(before) + 1
      <4> HIDE DEF before, upTo
      <4> QED BY <2>2, FS_AddElement
    <3> QED BY <1>3, <3>1, <3>2 DEF MoveInv
  <2>4. MovedRows(n)'
    <3>1. ASSUME NEW s \in 0 .. 2 * n - 1, NEW c \in KeysOf[kind], text[c] = c,
                 LiveRow(table'.rows[s], c)
          PROVE  /\ table'.rows[s].payload = groups[c]
                 /\ \E r \in 0 .. n - 1 : r < idx + 1 /\ LiveRow(old.rows[r], c)
      <4>1. CASE s = to
        <5>1. table'.rows[s] = row /\ LiveRow(row, c)
          BY <2>1, <3>1, <4>1
        <5>2. row.payload = groups[c]
          BY <1>5, <1>6, <3>1, <5>1 DEF HoldsGroups
        <5>3. idx < idx + 1
          BY <1>6
        <5> QED BY <1>6, <5>1, <5>2, <5>3
      <4>2. CASE s # to
        <5>1. table'.rows[s] = table.rows[s]
          BY <2>1, <4>2
        <5>2. /\ table.rows[s].payload = groups[c]
              /\ \E r \in 0 .. n - 1 : r < idx /\ LiveRow(old.rows[r], c)
          BY <1>3, <3>1, <5>1 DEF MoveInv, MovedRows
        <5>3. \A r \in 0 .. n - 1 : r < idx => r < idx + 1
          BY <1>6
        <5> QED BY <5>1, <5>2, <5>3
      <4> QED BY <4>1, <4>2
    <3>2. ASSUME NEW r \in 0 .. n - 1, NEW c \in KeysOf[kind], text[c] = c, r < idx + 1,
                 LiveRow(old.rows[r], c)
          PROVE  \E s \in 0 .. 2 * n - 1 : LiveRow(table'.rows[s], c)
      <4>1. CASE r = idx
        BY <2>1, <3>2, <4>1
      <4>2. CASE r # idx
        <5>1. r < idx
          BY <1>6, <3>2, <4>2
        <5>2. PICK s \in 0 .. 2 * n - 1 : LiveRow(table.rows[s], c)
          BY <1>3, <3>2, <5>1 DEF MoveInv, MovedRows
        <5>3. s # to
          BY <2>1, <5>2 DEF LiveRow
        <5> QED BY <2>1, <5>2, <5>3
      <4> QED BY <4>1, <4>2
    <3>3. \A r, c : LiveRow(r, c)' <=> LiveRow(r, c)
      BY <1>4 DEF LiveRow
    <3> QED BY <1>2, <1>4, <3>1, <3>2 DEF MovedRows, LiveRow
  <2>5. MoveInv(Capacity(old))'
    <3>1. Cardinality(FilledSlots(table')) = Cardinality({r \in FilledSlots(old') : r < idx'})
      BY <1>2, <2>3
    <3>2. Full(n, old', groups') /\ old'.inserted = old'.maxFill
      BY <1>2, <1>3 DEF MoveInv
    <3>3. n = Capacity(old') /\ table'.maxFill = n
      BY <1>1, <1>2, <1>5, <2>1
    <3> QED BY <1>2, <2>1, <2>4, <3>1, <3>2, <3>3, NextMove
  <2>6. Slots(table') = Slots(table)
    BY <1>6, <2>1, SizeOfTable DEF MapInv
  <2>7. MovedOnce'
    <3> SUFFICES ASSUME NEW x \in FilledSlots(old) PROVE MovedCount(x, idx', table')
      BY <1>2, MovedOnceCounts
    <3> DEFINE this == old.rows[x]
               A == {r \in Slots(old) : r < idx /\ old.rows[r] = this}
               B == {r \in Slots(table) : table.rows[r] = this}
               A1 == {r \in Slots(old) : r < idx + 1 /\ old.rows[r] = this}
               B1 == {r \in Slots(table) : table'.rows[r] = this}
    <3> SUFFICES Cardinality(A1) = Cardinality(B1)
      BY <1>2, <2>6 DEF MovedCount
    <3>1. Cardinality(A) = Cardinality(B) /\ IsFiniteSet(A) /\ IsFiniteSet(B)
      <4>1. MovedCount(x, idx, table)
        BY <1>2, <1>3, MovedOnceCounts
      <4> QED BY <1>6, <4>1, FS_Subset DEF MovedCount
    <3>2. this.tag.fill /\ table.rows[to] # this
      BY <2>1 DEF FilledSlots
    <3>3. CASE row = this
      <4>1. A1 = A \cup {idx} /\ idx \notin A
        BY <1>6, <3>3
      <4>2. B1 = B \cup {to} /\ to \notin B
        BY <1>6, <2>1, <3>2, <3>3
      <4>3. Cardinality(A1) = Cardinality(A) + 1
        <5> HIDE DEF A, A1
        <5> QED BY <3>1, <4>1, FS_AddElement
      <4>4. Cardinality(B1) = Cardinality(B) + 1
        <5> HIDE DEF B, B1
        <5> QED BY <3>1, <4>2, FS_AddElement
      <4> HIDE DEF A, B, A1, B1
      <4> QED BY <3>1, <4>3, <4>4
    <3>4. CASE row # this
      <4>1. A1 = A
        BY <1>6, <3>4
      <4>2. B1 = B
        BY <1>6, <2>1, <3>2, <3>4
      <4> QED BY <3>1, <4>1, <4>2
    <3> QED BY <3>3, <3>4
  <2> QED BY <2>5, <2>7
<1>9. MoveInv(Capacity(old))' /\ MovedOnce'
  BY <1>7, <1>8
<1>10. OpenInv'
  BY <1>2, <1>4, <1>9 DEF OpenInv
<1>11. CallInv'
  <2>1. Capacity(old)' = n
    BY <1>1, <1>2 DEF Capacity, Slots
  <2>2. idx' \in Nat /\ idx' <= n
    BY <1>2, <1>5, <1>6
  <2> QED BY <1>2, <1>3, <1>4, <2>1, <2>2 DEF CallInv
<1> QED BY <1>3, <1>4, <1>9, <1>10, <1>11 DEF IInv, DirectInv, SingleInv

(* When all rows were moved, the call that waited is performed.            *)
LEMMA FinishStep ==
  ASSUME IInv, FinishCall
  PROVE  IInv'
<1>1. PICK n : n = Capacity(old)
  OBVIOUS
<1> DEFINE t == [table EXCEPT !.inserted = old.inserted]
<1>2. /\ pc = "move" /\ idx \notin Slots(old) /\ pc' = "idle"
      /\ Perform(t, op.name, op.key)
      /\ old' = NewTable(0) /\ idx' = 0 /\ op' = NoCall /\ UNCHANGED input
  BY DEF FinishCall
<1>3. /\ InputInv /\ CallInv /\ MoveInv(n) /\ kind \in {"sk", "ck"}
      /\ op.key \in KeysOf[kind] /\ idx \in Nat /\ idx <= n
      /\ op.name = "insert" => kind = "sk" /\ groups[op.key] = 0
  BY <1>1, <1>2 DEF IInv, OpenInv, CallInv
<1>4. InputInv' /\ kind' = kind /\ text' = text /\ hash' = hash
  BY <1>2, <1>3, NextInput
<1>5. /\ n \in Nat /\ n > 0 /\ old \in TablesOf(n) /\ MapInv(n, old) /\ Sized(n, old)
      /\ MapInv(2 * n, table) /\ table \in TablesOf(2 * n) /\ table.maxFill = n
      /\ HoldsGroups(n, old, groups) /\ old.inserted = old.maxFill
  BY <1>3 DEF MoveInv, Full, MapInv
<1>6. Slots(old) = 0 .. n - 1 /\ Slots(table) = 0 .. 2 * n - 1
  BY <1>5, SizeOfTable
<1>7. \A r \in 0 .. n - 1 : r < idx
  BY <1>2, <1>3, <1>5, <1>6
<1>8. old.inserted \in Nat
  BY <1>5 DEF TablesOf
<1>9. /\ t \in TablesOf(2 * n) /\ t.rows = table.rows
      /\ t.inserted = old.inserted /\ t.maxFill = n
  BY <1>5, <1>8, InsertedChanged
<1> HIDE DEF t
<1>10. Full(2 * n, t, groups) /\ t.inserted < t.maxFill
  <2>1. MapInv(2 * n, t)
    BY <1>5, <1>9 DEF MapInv, Chained
  <2>2. HoldsGroups(2 * n, t, groups)
    <3> SUFFICES ASSUME NEW c \in KeysOf[kind], text[c] = c
                 PROVE  /\ groups[c] > 0 => \E s \in 0 .. 2 * n - 1 : LiveRow(t.rows[s], c)
                        /\ \A s \in 0 .. 2 * n - 1 :
                             LiveRow(t.rows[s], c) => groups[c] > 0 /\ t.rows[s].payload = groups[c]
      BY DEF HoldsGroups
    <3>1. ASSUME groups[c] > 0 PROVE \E s \in 0 .. 2 * n - 1 : LiveRow(t.rows[s], c)
      <4>1. PICK r \in 0 .. n - 1 : LiveRow(old.rows[r], c)
        BY <1>5, <3>1 DEF HoldsGroups
      <4> QED BY <1>3, <1>7, <1>9, <4>1 DEF MoveInv, MovedRows
    <3>2. ASSUME NEW s \in 0 .. 2 * n - 1, LiveRow(t.rows[s], c)
          PROVE  groups[c] > 0 /\ t.rows[s].payload = groups[c]
      <4>1. /\ table.rows[s].payload = groups[c]
            /\ \E r \in 0 .. n - 1 : LiveRow(old.rows[r], c)
        BY <1>3, <1>9, <3>2 DEF MoveInv, MovedRows
      <4> QED BY <1>5, <1>9, <4>1 DEF HoldsGroups
    <3> QED BY <3>1, <3>2
  <2>3. FilledSlots(t) = FilledSlots(table)
    BY <1>9 DEF FilledSlots, Slots
  <2>4. {r \in FilledSlots(old) : r < idx} = FilledSlots(old)
    BY <1>6, <1>7 DEF FilledSlots
  <2>5. t.inserted = Cardinality(FilledSlots(t))
    BY <1>3, <1>5, <1>9, <2>3, <2>4 DEF MoveInv, Sized
  <2>6. old.maxFill \in Nat /\ n = 2 * old.maxFill
    BY <1>5 DEF Sized, TablesOf
  <2>7. Sized(2 * n, t) /\ t.inserted < t.maxFill
    BY <1>5, <1>9, <2>5, <2>6 DEF Sized
  <2> QED BY <2>1, <2>2, <2>7 DEF Full
<1>11. groups' = OneMore(groups, text[op.key]) /\ Full(2 * n, table', groups')
  <2> DEFINE m == 2 * n
  <2> HIDE DEF m
  <2>1. Full(m, t, groups)
    BY <1>10 DEF m
  <2>2. groups' = OneMore(groups, text[op.key]) /\ Full(m, table', groups')
    BY <1>2, <1>3, <1>10, <2>1, Performed DEF CallInv
  <2> QED BY <2>2 DEF m
<1>12. Capacity(table') = 2 * n
  BY <1>11, SizeOfTable DEF Full, MapInv
<1>13. OpenInv'
  BY <1>2, <1>11, <1>12, NextFull DEF OpenInv
<1>14. CallInv'
  <2>1. text[op.key] \in Keys /\ groups \in [Keys -> Nat]
    BY <1>3 DEF InputInv, CallInv
  <2>2. groups' \in [Keys -> Nat]
    BY <1>11, <2>1 DEF OneMore
  <2> QED BY <1>2, <2>2 DEF CallInv, NoCall, Keys
<1> QED BY <1>2, <1>3, <1>4, <1>13, <1>14 DEF IInv, DirectInv, SingleInv, MovedOnce

(* lookupDisable, by callers that know that the key has a group.           *)
LEMMA DisableStep ==
  ASSUME ~DisableAbsent, IInv, NEW k \in Keys, LookupDisable(k)
  PROVE  IInv'
<1>1. PICK n : n = Capacity(table)
  OBVIOUS
<1> DEFINE s == FindSlotOrEmpty(table, k)
<1>2. /\ pc = "idle" /\ kind = "sk" /\ k \in KeysOf[kind] /\ groups[k] > 0
      /\ table' = [table EXCEPT !.rows[s].tag = Disabled(@)]
      /\ groups' = [groups EXCEPT ![k] = 0]
      /\ UNCHANGED <<input, pc, old, idx, op>>
  BY DEF LookupDisable
<1>3. InputInv /\ groups \in [Keys -> Nat] /\ Full(n, table, groups) /\ CallInv
  BY <1>1, <1>2 DEF IInv, CallInv, OpenInv
<1>4. /\ n \in Nat /\ n > 0 /\ table \in TablesOf(n) /\ MapInv(n, table)
      /\ Cardinality(FilledSlots(table)) < n
  <2>1. n \in Nat /\ n > 0 /\ table \in TablesOf(n) /\ MapInv(n, table)
    BY <1>3 DEF Full, MapInv
  <2>2. table.maxFill \in Nat /\ table.inserted \in Nat
    BY <2>1 DEF TablesOf
  <2> QED BY <1>3, <2>1, <2>2 DEF Full, Sized
<1>5. EndsAt(n, table, k, s)
  BY <1>2, <1>3, <1>4, Lookup
<1>6. text[k] = k
  BY <1>2, <1>3 DEF InputInv
<1> HIDE DEF s
<1>7. s \in 0 .. n - 1 /\ LiveRow(table.rows[s], text[k])
  <2>1. \E u \in 0 .. n - 1 : LiveRow(table.rows[u], text[k])
    BY <1>2, <1>3, <1>6 DEF Full, HoldsGroups
  <2> QED BY <1>5, <2>1 DEF EndsAt
<1>8. Full(n, table', groups')
  <2>1. Full(n, [table EXCEPT !.rows[s].tag = Disabled(@)], [groups EXCEPT ![text[k]] = 0])
    BY <1>2, <1>3, <1>7, RowDisabled
  <2> QED BY <1>2, <1>6, <2>1
<1>9. Capacity(table') = n
  BY <1>8, SizeOfTable DEF Full, MapInv
<1>10. OpenInv'
  BY <1>2, <1>8, <1>9, NextFull DEF OpenInv
<1>11. CallInv'
  BY <1>2, <1>3 DEF CallInv
<1> QED BY <1>2, <1>3, <1>10, <1>11, NextInput DEF IInv, DirectInv, SingleInv, MovedOnce

(* A direct lookup table has one slot per key.                             *)
LEMMA DirectStep ==
  ASSUME IInv, NEW k \in Keys, LookupOrInsertDirect(k)
  PROVE  IInv'
<1> USE TableAssumption
<1>1. PICK s : s = hash[k].low
  OBVIOUS
<1> DEFINE n == DirectSlots
           r == [tag |-> TagOf(k), key |-> k, payload |-> table.rows[s].payload + 1]
           x == IF table.rows[s].tag = Zero THEN table.inserted + 1 ELSE table.inserted
<1>2. /\ pc = "idle" /\ kind = "dl" /\ k \in KeysOf[kind]
      /\ table' = [Counted(table, s) EXCEPT
                     !.inserted = IF table.rows[s].tag = Zero THEN @ + 1 ELSE @,
                     !.rows[s].tag = TagOf(k), !.rows[s].key = k]
      /\ groups' = [groups EXCEPT ![k] = @ + 1]
      /\ UNCHANGED <<input, pc, old, idx, op>>
  BY <1>1 DEF LookupOrInsertDirect
<1>3. /\ InputInv /\ groups \in [Keys -> Nat] /\ CallInv /\ DirectInv
      /\ table \in TablesOf(n) /\ n \in Nat /\ s \in 0 .. n - 1
  BY <1>1, <1>2 DEF IInv, CallInv, DirectInv, InputInv
<1>4. InputInv' /\ kind' = kind /\ text' = text /\ hash' = hash
  BY <1>2, <1>3, NextInput
<1>5. \A l \in KeysOf[kind] :
        /\ l \in Keys /\ hash[l].low \in 0 .. n - 1 /\ (hash[l].low = s => l = k)
        /\ (table.rows[hash[l].low].tag.fill <=> groups[l] > 0)
        /\ (table.rows[hash[l].low].tag.fill => table.rows[hash[l].low].key = l)
        /\ table.rows[hash[l].low].payload = groups[l]
  <2>1. \A l \in KeysOf[kind] : l \in Keys
    BY <1>3 DEF InputInv, Keys
  <2>2. \A l \in KeysOf[kind] : hash[l].low \in 0 .. n - 1 /\ (hash[l].low = s => l = k)
    BY <1>1, <1>2, <1>3 DEF InputInv
  <2>3. \A l \in KeysOf[kind] :
          /\ (table.rows[hash[l].low].tag.fill <=> groups[l] > 0)
          /\ (table.rows[hash[l].low].tag.fill => table.rows[hash[l].low].key = l)
          /\ table.rows[hash[l].low].payload = groups[l]
    BY <1>2, <1>3 DEF DirectInv
  <2> QED BY <2>1, <2>2, <2>3
<1>6. table.rows[s] \in Rows /\ table.rows[s].payload = groups[k] /\ table.inserted \in Nat
  BY <1>1, <1>2, <1>3, <1>5 DEF TablesOf
<1>7. r \in Rows /\ r.tag.fill /\ r.key = k /\ r.payload = groups[k] + 1
  <2>1. TagOf(k) \in Tags /\ TagOf(k).fill
    BY <1>2, <1>3 DEF TagOf, Tags, HashOf, InputInv
  <2> QED BY <1>6, <2>1 DEF Rows
<1>8. table.rows[s].tag = Zero <=> ~table.rows[s].tag.fill
  <2>1. ASSUME ~table.rows[s].tag.fill PROVE table.rows[s].tag = Zero
    <3>1. table.rows[s] = FreshRow
      BY <1>2, <1>3, <2>1 DEF DirectInv
    <3> QED BY <3>1 DEF FreshRow
  <2> QED BY <2>1 DEF Zero
<1>9. /\ table' \in TablesOf(n) /\ table'.rows = [table.rows EXCEPT ![s] = r]
      /\ table'.inserted = x
  <2> DEFINE u == Counted(table, s)
             w == [u EXCEPT !.rows[s] = r]
             tag == TagOf(k)
             p == u.rows[s].payload
  <2>1. /\ u \in TablesOf(n) /\ u.rows[s].payload = table.rows[s].payload + 1
        /\ u.inserted = table.inserted
        /\ \A q \in Rows : [u.rows EXCEPT ![s] = q] = [table.rows EXCEPT ![s] = q]
    <3> DEFINE q == RowPlusOne(table.rows[s])
    <3>1. /\ u \in TablesOf(n) /\ u.rows = [table.rows EXCEPT ![s] = q] /\ u.rows[s] = q
          /\ u.inserted = table.inserted
      BY <1>3, CountedRow
    <3>2. q.payload = table.rows[s].payload + 1
      BY DEF RowPlusOne
    <3> HIDE DEF q, u
    <3> QED BY <1>3, <3>1, <3>2 DEF TablesOf
  <2>2. tag \in Tags /\ k \in Keys
    BY <1>2, <1>3 DEF TagOf, Tags, HashOf, InputInv
  <2>3. table' = Tagged(u, s, x, tag, k)
    <3>1. (IF table.rows[s].tag = Zero THEN u.inserted + 1 ELSE u.inserted) = x
      BY <2>1
    <3> HIDE DEF x
    <3> QED BY <1>2, <3>1 DEF Tagged
  <2>4. r = [tag |-> tag, key |-> k, payload |-> p]
    BY <2>1
  <2>5. table' = [w EXCEPT !.inserted = x]
    <3> HIDE DEF u, tag, r, n, x
    <3>1. Tagged(u, s, x, tag, k)
            = WithRow(u, s, [tag |-> tag, key |-> k, payload |-> u.rows[s].payload], x)
      BY <1>3, <2>1, <2>2, TwoFields
    <3> QED BY <2>3, <2>4, <3>1 DEF WithRow
  <2>6. w \in TablesOf(n) /\ w.rows = [u.rows EXCEPT ![s] = r]
    <3> HIDE DEF r, n, u
    <3> QED BY <1>3, <1>7, <2>1, RowChanged
  <2>7. x \in Nat
    BY <1>6
  <2> HIDE DEF w, x, r, n, u
  <2> QED BY <1>3, <1>7, <2>1, <2>5, <2>6, <2>7, InsertedChanged
<1> HIDE DEF r, n
<1>10. \A u \in 0 .. n - 1 : table'.rows[u] = IF u = s THEN r ELSE table.rows[u]
  BY <1>3, <1>9 DEF TablesOf
<1>11. /\ Slots(table) = 0 .. n - 1 /\ Slots(table') = 0 .. n - 1
       /\ IsFiniteSet(FilledSlots(table)) /\ Cardinality(FilledSlots(table)) \in Nat
  BY <1>3, <1>9, SizeOfTable
<1>12. FilledSlots(table') = FilledSlots(table) \cup {s}
  BY <1>3, <1>7, <1>10, <1>11 DEF FilledSlots
<1>13. table'.inserted = Cardinality(FilledSlots(table'))
  <2>1. table.inserted = Cardinality(FilledSlots(table))
    BY <1>2, <1>3 DEF DirectInv
  <2>2. CASE table.rows[s].tag.fill
    <3>1. s \in FilledSlots(table)
      BY <1>3, <1>11, <2>2 DEF FilledSlots
    <3>2. FilledSlots(table') = FilledSlots(table)
      BY <1>12, <3>1
    <3> QED BY <1>8, <1>9, <2>1, <2>2, <3>2
  <2>3. CASE ~table.rows[s].tag.fill
    <3>1. s \notin FilledSlots(table)
      BY <2>3 DEF FilledSlots
    <3>2. Cardinality(FilledSlots(table')) = Cardinality(FilledSlots(table)) + 1
      BY <1>11, <1>12, <3>1, FS_AddElement
    <3> QED BY <1>8, <1>9, <2>1, <2>3, <3>2
  <2> QED BY <2>2, <2>3
<1>14. groups' \in [Keys -> Nat]
       /\ \A l \in Keys : groups'[l] = IF l = k THEN groups[k] + 1 ELSE groups[l]
  BY <1>2, <1>3
<1>15. \A u \in 0 .. n - 1 : ~table'.rows[u].tag.fill => table'.rows[u] = FreshRow
  <2> SUFFICES ASSUME NEW u \in 0 .. n - 1, ~table'.rows[u].tag.fill
               PROVE  table'.rows[u] = FreshRow
    OBVIOUS
  <2>1. u # s /\ table'.rows[u] = table.rows[u]
    BY <1>7, <1>10
  <2>2. \A v \in 0 .. n - 1 : ~table.rows[v].tag.fill => table.rows[v] = FreshRow
    BY <1>2, <1>3 DEF DirectInv, n
  <2> QED BY <2>1, <2>2
<1>16. \A l \in KeysOf[kind] :
         /\ (table'.rows[hash[l].low].tag.fill <=> groups'[l] > 0)
         /\ (table'.rows[hash[l].low].tag.fill => table'.rows[hash[l].low].key = l)
         /\ table'.rows[hash[l].low].payload = groups'[l]
  <2> SUFFICES ASSUME NEW l \in KeysOf[kind]
               PROVE  /\ (table'.rows[hash[l].low].tag.fill <=> groups'[l] > 0)
                      /\ (table'.rows[hash[l].low].tag.fill => table'.rows[hash[l].low].key = l)
                      /\ table'.rows[hash[l].low].payload = groups'[l]
    OBVIOUS
  <2>1. CASE l = k
    <3>1. table'.rows[hash[l].low] = r /\ groups'[l] = groups[k] + 1 /\ groups[k] \in Nat
      BY <1>1, <1>3, <1>10, <1>14, <2>1
    <3> QED BY <1>7, <2>1, <3>1
  <2>2. CASE l # k
    <3>1. table'.rows[hash[l].low] = table.rows[hash[l].low] /\ groups'[l] = groups[l]
      BY <1>5, <1>10, <1>14, <2>2
    <3> QED BY <1>5, <3>1
  <2> QED BY <2>1, <2>2
<1>17. DirectInv'
  BY <1>4, <1>9, <1>13, <1>15, <1>16 DEF DirectInv, FilledSlots, Slots, n
<1>18. CallInv'
  BY <1>2, <1>3, <1>14 DEF CallInv
<1> QED BY <1>2, <1>4, <1>17, <1>18 DEF IInv, OpenInv, SingleInv, MovedOnce

(* A table whose key has no bytes has at most one row, in slot 0.          *)
LEMMA SingleStep ==
  ASSUME IInv, LookupOrInsertSingleKey
  PROVE  IInv'
<1> USE TableAssumption
<1> DEFINE r == [tag |-> [fill |-> TRUE, print |-> table.rows[0].tag.print],
                 key |-> table.rows[0].key, payload |-> table.rows[0].payload + 1]
           x == IF table.rows[0].tag = Zero THEN table.inserted + 1 ELSE table.inserted
<1>1. /\ pc = "idle" /\ kind = "nk"
      /\ table' = IF table.rows[0].tag # Zero THEN Counted(table, 0)
                  ELSE [Counted(table, 0) EXCEPT !.rows[0].tag = [fill |-> TRUE, print |-> @.print],
                                                 !.inserted = @ + 1]
      /\ groups' = [groups EXCEPT ![ZeroKey] = @ + 1]
      /\ UNCHANGED <<input, pc, old, idx, op>>
  BY DEF LookupOrInsertSingleKey
<1>2. /\ InputInv /\ groups \in [Keys -> Nat] /\ CallInv /\ SingleInv
      /\ table \in TablesOf(4) /\ table.maxFill = 2 /\ 4 - 1 = 3 /\ 0 \in 0 .. 4 - 1
  BY <1>1 DEF IInv, CallInv, SingleInv
<1>3. InputInv' /\ kind' = kind /\ text' = text /\ hash' = hash
  BY <1>1, <1>2, NextInput
<1>4. table.rows \in [0 .. 3 -> Rows] /\ 0 \in 0 .. 3 /\ table.inserted \in Nat
  BY <1>2 DEF TablesOf
<1>5. /\ table.rows[0] \in Rows /\ table.rows[0].tag \in Tags
      /\ table.rows[0].key = ZeroKey /\ table.rows[0].payload = groups[ZeroKey]
      /\ table.rows[0].tag.fill <=> groups[ZeroKey] > 0
  BY <1>1, <1>2, <1>4 DEF SingleInv, Rows
<1>6. r \in Rows /\ r.tag.fill /\ r.key = ZeroKey /\ r.payload = groups[ZeroKey] + 1
  BY <1>5 DEF Rows, Tags
<1>7. table.rows[0].tag = Zero <=> ~table.rows[0].tag.fill
  <2>1. ASSUME ~table.rows[0].tag.fill PROVE table.rows[0].tag = Zero
    <3>1. table.rows[0] = FreshRow
      BY <1>1, <1>2, <1>4, <2>1 DEF SingleInv
    <3> QED BY <3>1 DEF FreshRow
  <2> QED BY <2>1 DEF Zero
<1>8. /\ table' \in TablesOf(4) /\ table'.rows = [table.rows EXCEPT ![0] = r]
      /\ table'.inserted = x /\ table'.maxFill = 2
  <2> DEFINE u == Counted(table, 0)
             row == table.rows[0]
             q == RowPlusOne(row)
             w == [u EXCEPT !.rows[0] = r]
  <2>0. 4 \in Nat
    OBVIOUS
  <2>1. /\ u \in TablesOf(4) /\ u.rows = [table.rows EXCEPT ![0] = q] /\ u.rows[0] = q
        /\ u.inserted = table.inserted /\ u.maxFill = table.maxFill
    <3> DEFINE n == 4
    <3>1. n \in Nat /\ table \in TablesOf(n) /\ 0 \in 0 .. n - 1
      BY <1>2
    <3> HIDE DEF n
    <3>2. /\ u \in TablesOf(n) /\ u.rows = [table.rows EXCEPT ![0] = q] /\ u.rows[0] = q
          /\ u.inserted = table.inserted /\ u.maxFill = table.maxFill
      BY <3>1, CountedRow
    <3> QED BY <3>2 DEF n
  <2>2. q = [tag |-> row.tag, key |-> row.key, payload |-> row.payload + 1]
    BY DEF RowPlusOne
  <2>3. CASE row.tag # Zero
    <3>1. row.tag = [fill |-> TRUE, print |-> row.tag.print]
      BY <1>5, <1>7, <2>3 DEF Tags
    <3>2. r = q /\ x = table.inserted /\ table' = u
      BY <1>1, <2>2, <2>3, <3>1
    <3> HIDE DEF q, r, u, x
    <3> QED BY <1>2, <2>1, <3>2
  <2>4. CASE row.tag = Zero
    <3>1. table' = Filled(u, 0)
      BY <1>1, <2>4 DEF Filled
    <3>2. /\ u.rows[0].tag = row.tag /\ u.rows[0].key = row.key
          /\ u.rows[0].payload = row.payload + 1
      BY <2>1, <2>2
    <3>3. r = [tag |-> [fill |-> TRUE, print |-> u.rows[0].tag.print],
               key |-> u.rows[0].key, payload |-> u.rows[0].payload]
      BY <3>2
    <3>4. x = u.inserted + 1
      BY <2>1, <2>4
    <3>5. table' = [w EXCEPT !.inserted = x]
      <4> HIDE DEF u, r, x
      <4>1. Filled(u, 0)
              = WithRow(u, 0, [tag |-> [fill |-> TRUE, print |-> u.rows[0].tag.print],
                               key |-> u.rows[0].key, payload |-> u.rows[0].payload],
                        u.inserted + 1)
        BY <1>2, <2>0, <2>1, FillField
      <4> QED BY <3>1, <3>3, <3>4, <4>1 DEF WithRow
    <3>6. w \in TablesOf(4) /\ w.rows = [u.rows EXCEPT ![0] = r] /\ w.maxFill = u.maxFill
      <4> HIDE DEF u, r
      <4> QED BY <1>2, <1>6, <2>0, <2>1, RowChanged
    <3>7. [u.rows EXCEPT ![0] = r] = [table.rows EXCEPT ![0] = r]
      <4> HIDE DEF u, r, q
      <4> QED BY <1>4, <2>1
    <3>8. x \in Nat
      BY <1>4
    <3> HIDE DEF w, x, r, u
    <3> QED BY <1>2, <2>0, <2>1, <3>5, <3>6, <3>7, <3>8, InsertedChanged
  <2> QED BY <2>3, <2>4
<1> HIDE DEF r
<1>9. \A u \in 0 .. 3 : table'.rows[u] = IF u = 0 THEN r ELSE table.rows[u]
  BY <1>4, <1>8
<1>10. /\ Slots(table) = 0 .. 3 /\ Slots(table') = 0 .. 3
       /\ IsFiniteSet(FilledSlots(table)) /\ Cardinality(FilledSlots(table)) \in Nat
  <2>1. 4 \in Nat
    OBVIOUS
  <2> QED BY <1>2, <1>8, <2>1, SizeOfTable
<1>11. FilledSlots(table') = FilledSlots(table) \cup {0}
  BY <1>4, <1>6, <1>9, <1>10 DEF FilledSlots
<1>12. table'.inserted = Cardinality(FilledSlots(table'))
  <2>1. table.inserted = Cardinality(FilledSlots(table))
    BY <1>1, <1>2 DEF SingleInv
  <2>2. CASE table.rows[0].tag.fill
    <3>1. 0 \in FilledSlots(table)
      BY <1>4, <1>10, <2>2 DEF FilledSlots
    <3>2. FilledSlots(table') = FilledSlots(table)
      BY <1>11, <3>1
    <3> QED BY <1>7, <1>8, <2>1, <2>2, <3>2
  <2>3. CASE ~table.rows[0].tag.fill
    <3>1. 0 \notin FilledSlots(table)
      BY <2>3 DEF FilledSlots
    <3>2. Cardinality(FilledSlots(table')) = Cardinality(FilledSlots(table)) + 1
      BY <1>10, <1>11, <3>1, FS_AddElement
    <3> QED BY <1>7, <1>8, <2>1, <2>3, <3>2
  <2> QED BY <2>2, <2>3
<1>13. ZeroKey \in Keys /\ groups[ZeroKey] \in Nat /\ groups' \in [Keys -> Nat]
       /\ groups'[ZeroKey] = groups[ZeroKey] + 1
  <2>1. ZeroKey \in Keys
    BY DEF Keys
  <2> QED BY <1>1, <1>2, <2>1
<1>14. \A u \in 0 .. 3 : ~table'.rows[u].tag.fill => table'.rows[u] = FreshRow
  BY <1>1, <1>2, <1>6, <1>9 DEF SingleInv
<1>15. FilledSlots(table') \subseteq {0} /\ table'.rows[0] = r
  BY <1>1, <1>2, <1>4, <1>9, <1>11 DEF SingleInv
<1>16. SingleInv'
  <2>1. /\ table'.rows[0].tag.fill <=> groups'[ZeroKey] > 0
        /\ table'.rows[0].key = ZeroKey /\ table'.rows[0].payload = groups'[ZeroKey]
    BY <1>6, <1>13, <1>15
  <2> QED BY <1>8, <1>12, <1>14, <1>15, <2>1 DEF SingleInv, FilledSlots, Slots
<1>17. CallInv'
  BY <1>1, <1>2, <1>13 DEF CallInv
<1> QED BY <1>1, <1>3, <1>16, <1>17 DEF IInv, OpenInv, DirectInv, MovedOnce

(* The reader changes no table.                                            *)
LEMMA ReadFrame ==
  ASSUME IInv, UNCHANGED <<input, table, old, idx, op, groups>>, pc # "move",
         pc' \in {"idle", "pick", "read", "done"}
  PROVE  IInv'
<1>1. InputInv /\ CallInv /\ OpenInv /\ DirectInv /\ SingleInv
  BY DEF IInv
<1>2. InputInv' /\ kind' = kind /\ text' = text /\ hash' = hash
  BY <1>1, NextInput
<1>3. OpenInv'
  BY <1>1, <1>2, NextFull DEF OpenInv
<1>4. DirectInv' /\ SingleInv'
  BY <1>1, <1>2 DEF DirectInv, SingleInv, FilledSlots, Slots
<1>5. CallInv'
  BY <1>1 DEF CallInv
<1> QED BY <1>2, <1>3, <1>4, <1>5 DEF IInv, MovedOnce

(* Every step keeps the invariant.                                         *)
LEMMA NextIInv ==
  ASSUME ~DisableAbsent, IInv, [Next]_vars
  PROVE  IInv'
<1>1. ASSUME NEW name \in {"lookupOrInsert", "insert"}, NEW k \in Keys, Call(name, k)
      PROVE  IInv'
  BY <1>1, CallRoom, CallFull
<1>2. ASSUME StartReading \/ PickMorsel \/ ReadRow PROVE IInv'
  <2>1. /\ UNCHANGED <<input, table, old, idx, op, groups>> /\ pc # "move"
        /\ pc' \in {"idle", "pick", "read", "done"}
    BY <1>2 DEF StartReading, PickMorsel, ReadRow
  <2> QED BY <2>1, ReadFrame
<1>3. ASSUME UNCHANGED vars PROVE IInv'
  <2>1. UNCHANGED <<input, table, old, idx, op, groups, pc>>
    BY <1>3 DEF vars
  <2>2. CASE pc # "move"
    <3>1. pc' \in {"idle", "pick", "read", "done"}
      BY <2>1, <2>2 DEF IInv, CallInv
    <3> QED BY <2>1, <2>2, <3>1, ReadFrame
  <2>3. CASE pc = "move"
    <3>1. InputInv /\ CallInv /\ MoveInv(Capacity(old)) /\ kind \in {"sk", "ck"} /\ MovedOnce
      BY <2>3 DEF IInv, OpenInv, CallInv
    <3>2. InputInv' /\ kind' = kind /\ text' = text /\ hash' = hash
      BY <2>1, <3>1, NextInput
    <3>3. MoveInv(Capacity(old))'
      <4>1. PICK n : n = Capacity(old)
        OBVIOUS
      <4>2. MoveInv(n)
        BY <3>1, <4>1
      <4>3. MovedRows(n)'
        BY <2>1, <3>2, <4>2 DEF MoveInv, MovedRows, LiveRow
      <4> QED BY <2>1, <4>1, <4>2, <4>3, NextMove DEF MoveInv
    <3>4. CallInv'
      BY <2>1, <3>1, <3>2 DEF CallInv, Capacity, Slots
    <3>5. MovedOnce'
      <4>1. \A s \in FilledSlots(old) : MovedCount(s, idx', table')
        BY <2>1, <2>3, <3>1, MovedOnceCounts
      <4> QED BY <2>1, <2>3, <4>1, MovedOnceCounts
    <3> QED BY <2>1, <2>3, <3>1, <3>2, <3>3, <3>4, <3>5 DEF IInv, OpenInv, DirectInv, SingleInv
  <2> QED BY <2>2, <2>3
<1> QED BY <1>1, <1>2, <1>3, DirectStep, SingleStep, MoveStep, FinishStep, DisableStep DEF Next

(* The invariant of the tables holds in every state, as long as the callers*)
(* of lookupDisable keep its contract.                                     *)
THEOREM TablesCorrect ==
  ASSUME ~DisableAbsent
  PROVE  Spec => []IInv
<1>1. IInv /\ [Next]_vars => IInv'
  BY NextIInv
<1> QED BY InitIInv, <1>1, PTL DEF Spec

-----------------------------------------------------------------------------
(* What the invariant means for the users of the tables.                   *)

(* A lookup finds the row of a key if and only if the key has a group.     *)
LEMMA MapFromIInv == IInv => TableIsMap
<1> SUFFICES ASSUME IInv, pc # "move", NEW k \in KeysOf[kind]
             PROVE  /\ Found(table, k) <=> groups[text[k]] > 0
                    /\ Found(table, k) =>
                         /\ text[table.rows[SlotOf(table, k)].key] = text[k]
                         /\ table.rows[SlotOf(table, k)].payload = groups[text[k]]
  BY DEF TableIsMap
<1> DEFINE c == text[k]
           s == SlotOf(table, k)
<1>1. /\ InputInv /\ OpenInv /\ DirectInv /\ SingleInv /\ kind \in Kinds
      /\ c \in KeysOf[kind] /\ text[c] = c
  BY DEF IInv, InputInv
<1>2. kind \in {"sk", "ck", "dl", "nk"}
  BY <1>1, TableAssumption
<1>3. CASE kind \in {"sk", "ck"}
  <2>1. PICK n : n = Capacity(table)
    OBVIOUS
  <2>2. Full(n, table, groups) /\ MapInv(n, table) /\ HoldsGroups(n, table, groups)
    BY <1>1, <1>3, <2>1 DEF OpenInv, Full
  <2>3. Cardinality(FilledSlots(table)) < n
    <3>1. table.maxFill \in Nat /\ table.inserted \in Nat /\ n \in Nat /\ n > 0
      BY <2>2 DEF MapInv, TablesOf
    <3> QED BY <2>2, <3>1 DEF Full, Sized
  <2>4. EndsAt(n, table, k, s)
    BY <1>1, <1>3, <2>2, <2>3, Lookup DEF SlotOf
  <2> HIDE DEF s
  <2>5. s \in 0 .. n - 1
    BY <2>4 DEF EndsAt
  <2>6. CASE table.rows[s].tag.fill
    <3>1. LiveRow(table.rows[s], c)
      BY <2>4, <2>6 DEF EndsAt
    <3>2. groups[c] > 0 /\ table.rows[s].payload = groups[c] /\ text[table.rows[s].key] = c
      BY <1>1, <2>2, <2>5, <3>1 DEF HoldsGroups, LiveRow
    <3> QED BY <2>6, <3>2 DEF Found, s
  <2>7. CASE ~table.rows[s].tag.fill
    <3>1. \A u \in 0 .. n - 1 : ~LiveRow(table.rows[u], c)
      BY <2>4, <2>7 DEF EndsAt
    <3>2. ~(groups[c] > 0)
      BY <1>1, <2>2, <3>1 DEF HoldsGroups
    <3> QED BY <2>7, <3>2 DEF Found, s
  <2> QED BY <2>6, <2>7
<1>4. CASE kind = "dl"
  <2>1. text[k] = k /\ SlotOf(table, k) = hash[k].low
    BY <1>1, <1>4 DEF InputInv, SlotOf
  <2>2. /\ table.rows[hash[k].low].tag.fill <=> groups[k] > 0
        /\ table.rows[hash[k].low].tag.fill => table.rows[hash[k].low].key = k
        /\ table.rows[hash[k].low].payload = groups[k]
    BY <1>1, <1>4 DEF DirectInv
  <2> QED BY <2>1, <2>2 DEF Found
<1>5. CASE kind = "nk"
  <2>1. text[k] = k /\ k = ZeroKey /\ SlotOf(table, k) = 0
    BY <1>1, <1>5, TableAssumption DEF InputInv, SlotOf
  <2>2. /\ table.rows[0].tag.fill <=> groups[ZeroKey] > 0
        /\ table.rows[0].key = ZeroKey /\ table.rows[0].payload = groups[ZeroKey]
    BY <1>1, <1>5 DEF SingleInv
  <2> QED BY <2>1, <2>2 DEF Found
<1> QED BY <1>2, <1>3, <1>4, <1>5

(* Every lookup of every kind of table finds exactly the rows that were    *)
(* put into the group of its text.                                         *)
THEOREM TableIsMapCorrect ==
  ASSUME ~DisableAbsent
  PROVE  Spec => []TableIsMap
BY TablesCorrect, MapFromIInv, PTL

(* At most half of the slots are filled.                                   *)
LEMMA HalfFromIInv == IInv => HalfEmpty
<1> SUFFICES ASSUME IInv, pc # "move"
             PROVE  /\ table.inserted = Cardinality(FilledSlots(table))
                    /\ kind # "dl" =>
                         Capacity(table) = 2 * table.maxFill /\ table.inserted <= table.maxFill
  BY DEF HalfEmpty
<1>1. kind \in {"sk", "ck", "dl", "nk"} /\ OpenInv /\ DirectInv /\ SingleInv
  BY TableAssumption DEF IInv, InputInv
<1>2. CASE kind \in {"sk", "ck"}
  BY <1>1, <1>2 DEF OpenInv, Full, Sized
<1>3. CASE kind = "dl"
  BY <1>1, <1>3 DEF DirectInv
<1>4. CASE kind = "nk"
  <2>1. 4 \in Nat /\ table \in TablesOf(4) /\ table.maxFill = 2
        /\ FilledSlots(table) \subseteq {0} /\ table.inserted = Cardinality(FilledSlots(table))
    BY <1>1, <1>4 DEF SingleInv
  <2>2. Capacity(table) = 4
    BY <2>1, SizeOfTable
  <2>3. Cardinality(FilledSlots(table)) <= 2
    <3>1. FilledSlots(table) = {} \/ FilledSlots(table) = {0}
      BY <2>1
    <3>2. Cardinality({}) = 0 /\ Cardinality({0}) = 1
      BY FS_EmptySet, FS_Singleton
    <3> QED BY <3>1, <3>2
  <2> QED BY <1>4, <2>1, <2>2, <2>3
<1> QED BY <1>1, <1>2, <1>3, <1>4

(* Between two calls at most half of the slots of a growing table are      *)
(* filled and `inserted` counts them, so that every probe ends.            *)
THEOREM HalfEmptyCorrect ==
  ASSUME ~DisableAbsent
  PROVE  Spec => []HalfEmpty
BY TablesCorrect, HalfFromIInv, PTL

(* While reserveSlot moves the rows to a larger table, no row is in both   *)
(* tables or in neither.                                                   *)
THEOREM MovedOnceCorrect ==
  ASSUME ~DisableAbsent
  PROVE  Spec => []MovedOnce
<1>1. IInv => MovedOnce
  BY DEF IInv
<1> QED BY TablesCorrect, <1>1, PTL

-----------------------------------------------------------------------------
(* Reading a table.                                                        *)

(* Where the iterator can be: a filled slot, or the end.                   *)
Stops == FilledSlots(table) \cup {End}

(* The table that is read has the slots below End.                         *)
LEMMA ReadTable ==
  ASSUME IInv, pc # "move"
  PROVE  /\ End \in Nat /\ table \in TablesOf(End) /\ Slots(table) = 0 .. End - 1
         /\ FilledSlots(table) \subseteq 0 .. End - 1 /\ IsFiniteSet(FilledSlots(table))
         /\ Stops \subseteq 0 .. End
<1>1. PICK n \in Nat : table \in TablesOf(n)
  <2>1. kind \in {"sk", "ck", "dl", "nk"}
    BY TableAssumption DEF IInv, InputInv
  <2>2. CASE kind \in {"sk", "ck"}
    BY <2>2 DEF IInv, OpenInv, Full, MapInv
  <2>3. CASE kind = "dl"
    BY <2>3, TableAssumption DEF IInv, DirectInv
  <2>4. CASE kind = "nk"
    <3>1. 4 \in Nat
      OBVIOUS
    <3> QED BY <2>4, <3>1 DEF IInv, SingleInv
  <2> QED BY <2>1, <2>2, <2>3, <2>4
<1>2. End = n /\ Slots(table) = 0 .. n - 1 /\ IsFiniteSet(FilledSlots(table))
  BY <1>1, SizeOfTable DEF End
<1> QED BY <1>1, <1>2 DEF FilledSlots, Stops

(* The iterator stops at the next filled slot, or at the end if there is   *)
(* none.                                                                   *)
LEMMA NextStop ==
  ASSUME IInv, pc # "move", NEW last \in Int, last < End
  PROVE  /\ NextFilled(last) \in Stops /\ last < NextFilled(last)
         /\ \A s \in Stops : last < s <=> NextFilled(last) <= s
<1> DEFINE next == {s \in FilledSlots(table) : s > last}
           f == NextFilled(last)
<1>1. /\ End \in Nat /\ FilledSlots(table) \subseteq 0 .. End - 1 /\ Stops \subseteq 0 .. End
  BY ReadTable
<1>2. CASE next = {}
  <2>1. f = End
    BY <1>2 DEF NextFilled
  <2>2. \A s \in FilledSlots(table) : ~(last < s) /\ s # End
    BY <1>1, <1>2
  <2>3. \A s \in Stops : last < s <=> End <= s
    BY <1>1, <2>2 DEF Stops
  <2> HIDE DEF f
  <2> QED BY <2>1, <2>3 DEF Stops, f
<1>3. CASE next # {}
  <2>1. f = CHOOSE x \in next : \A y \in next : x <= y
    BY <1>3 DEF NextFilled, Min
  <2>2. next \in SUBSET Nat
    BY <1>1
  <2> HIDE DEF next, f
  <2>3. \E x \in next : \A y \in next : x <= y
    BY <1>3, <2>2, LeastNatural
  <2>4. f \in next /\ \A y \in next : f <= y
    BY <2>1, <2>3
  <2>5. f \in FilledSlots(table) /\ last < f /\ \A s \in FilledSlots(table) : last < s => f <= s
    BY <1>1, <2>4 DEF next
  <2>6. f <= End
    BY <1>1, <2>5
  <2> QED BY <1>1, <2>5, <2>6 DEF Stops, f
<1> QED BY <1>2, <1>3

(* The iterators of a morsel: where it begins, and the stop after each row.*)
Step(e) == IF e = End THEN End ELSE NextFilled(e)
IsEnds(e, first, m) ==
  e = [n \in 0 .. m |-> IF n = 0 THEN first ELSE Step(e[n - 1])]

(* The recursive definition of EndsFrom has a solution.                    *)
LEMMA EndsExist ==
  ASSUME NEW first
  PROVE  IsEnds(EndsFrom(first), first, ChunkSize)
<1> DEFINE A == {m \in Nat : \E e : IsEnds(e, first, m)}
<1>1. 0 \in A
  <2> DEFINE e == [n \in 0 .. 0 |-> first]
  <2>1. IsEnds(e, first, 0)
    BY DEF IsEnds
  <2> HIDE DEF e
  <2> QED BY <2>1
<1>2. ASSUME NEW m \in Nat, m \in A PROVE m + 1 \in A
  <2>1. PICK e : IsEnds(e, first, m)
    BY <1>2
  <2> DEFINE d == [n \in 0 .. m + 1 |-> IF n = m + 1 THEN Step(e[m]) ELSE e[n]]
  <2>2. \A n \in 0 .. m : e[n] = IF n = 0 THEN first ELSE Step(e[n - 1])
    BY <2>1 DEF IsEnds
  <2>3. \A n \in 0 .. m + 1 : d[n] = IF n = m + 1 THEN Step(e[m]) ELSE e[n]
    OBVIOUS
  <2>4. ASSUME NEW n \in 0 .. m + 1
        PROVE  d[n] = IF n = 0 THEN first ELSE Step(d[n - 1])
    <3> HIDE DEF d
    <3>1. CASE n = m + 1
      BY <2>3, <3>1
    <3>2. CASE n = 0
      BY <2>2, <2>3, <3>2
    <3>3. CASE n # m + 1 /\ n # 0
      <4>1. n \in 0 .. m /\ n - 1 \in 0 .. m + 1 /\ n - 1 # m + 1
        BY <3>3
      <4>2. d[n - 1] = e[n - 1]
        BY <2>3, <4>1
      <4> QED BY <2>2, <2>3, <3>3, <4>1, <4>2
    <3> QED BY <3>1, <3>2, <3>3
  <2>5. d = [n \in 0 .. m + 1 |-> d[n]]
    OBVIOUS
  <2>6. IsEnds(d, first, m + 1)
    <3> HIDE DEF d
    <3> QED BY <2>4, <2>5 DEF IsEnds
  <2> HIDE DEF d
  <2> QED BY <2>6
<1>3. ChunkSize \in A
  <2> HIDE DEF A
  <2>1. Nat \subseteq A
    BY <1>1, <1>2, NaturalInduction
  <2> QED BY <2>1, TableAssumption
<1>4. EndsFrom(first) = CHOOSE e : IsEnds(e, first, ChunkSize)
  BY DEF EndsFrom, IsEnds, Step
<1>5. PICK e : IsEnds(e, first, ChunkSize)
  BY <1>3
<1> QED BY <1>4, <1>5

(* The rows of a morsel from `first` on: after j of them, unless the end   *)
(* was reached before, the iterator is behind exactly j filled slots.      *)
RowsUpTo(first, e) == {s \in FilledSlots(table) : first <= s /\ s < e}

(* Below the stop that pickMorsel chose lie as many rows as it announced.  *)
LEMMA MorselEnds ==
  ASSUME IInv, pc # "move", NEW first \in FilledSlots(table), NEW e,
         IsEnds(e, first, ChunkSize), NEW size \in 0 .. ChunkSize,
         \A j \in 0 .. size - 1 : e[j] # End
  PROVE  /\ e[size] \in Stops /\ first <= e[size]
         /\ Cardinality(RowsUpTo(first, e[size])) = size
<1> DEFINE Good(j) == /\ e[j] \in Stops /\ first <= e[j]
                      /\ Cardinality(RowsUpTo(first, e[j])) = j
           A == {j \in Nat : j <= size => Good(j)}
<1>1. /\ End \in Nat /\ FilledSlots(table) \subseteq 0 .. End - 1 /\ Stops \subseteq 0 .. End
      /\ IsFiniteSet(FilledSlots(table)) /\ ChunkSize \in Nat
  BY ReadTable, TableAssumption
<1>2. \A j \in 0 .. ChunkSize : e[j] = IF j = 0 THEN first ELSE Step(e[j - 1])
  BY DEF IsEnds
<1>3. 0 \in A
  <2>1. e[0] = first
    BY <1>1, <1>2
  <2>2. RowsUpTo(first, first) = {}
    BY <1>1 DEF RowsUpTo
  <2>3. Good(0)
    BY <1>1, <2>1, <2>2, FS_EmptySet DEF Stops
  <2> QED BY <2>3
<1>4. ASSUME NEW j \in Nat, j \in A PROVE j + 1 \in A
  <2> SUFFICES ASSUME j + 1 <= size PROVE Good(j + 1)
    OBVIOUS
  <2>1. j \in 0 .. size - 1 /\ j + 1 \in 0 .. ChunkSize /\ j + 1 # 0 /\ (j + 1) - 1 = j /\ j <= size
    BY <1>1
  <2>2. Good(j) /\ e[j] # End
    BY <1>4, <2>1
  <2>3. e[j + 1] = NextFilled(e[j])
    BY <1>2, <2>1, <2>2 DEF Step
  <2> DEFINE last == e[j]
             f == NextFilled(last)
  <2>4. last \in FilledSlots(table) /\ last \in Int /\ last < End /\ first <= last
    BY <1>1, <2>2 DEF Stops
  <2> HIDE DEF last
  <2>5. f \in Stops /\ last < f /\ \A s \in Stops : last < s <=> f <= s
    BY <2>4, NextStop
  <2> HIDE DEF f
  <2>6. RowsUpTo(first, f) = RowsUpTo(first, last) \cup {last}
    BY <1>1, <2>4, <2>5 DEF RowsUpTo, Stops
  <2>7. last \notin RowsUpTo(first, last) /\ IsFiniteSet(RowsUpTo(first, last))
    BY <1>1, <2>4, FS_Subset DEF RowsUpTo
  <2>8. Cardinality(RowsUpTo(first, f)) = j + 1
    BY <2>2, <2>6, <2>7, FS_AddElement DEF last
  <2>9. first <= f
    BY <1>1, <2>4, <2>5
  <2> QED BY <2>3, <2>5, <2>8, <2>9 DEF f, last
<1>5. size \in A
  <2> HIDE DEF A
  <2>1. Nat \subseteq A
    BY <1>3, <1>4, NaturalInduction
  <2> QED BY <1>1, <2>1
<1> QED BY <1>1, <1>5

(* The reader: the slots behind the cursor were seen once. Between two     *)
(* morsels the cursor is at the end of the last one.                       *)
ReadInv ==
  /\ reader \in [start : Nat, end : Nat, cursor : Nat, size : 0 .. ChunkSize]
  /\ pc \in {"idle", "move"} => visits = [s \in {} |-> 0]
  /\ pc \in {"pick", "read", "done"} =>
       /\ visits = [s \in Slots(table) |->
                      IF s \in FilledSlots(table) /\ s < reader.cursor THEN 1 ELSE 0]
       /\ reader.end \in Stops /\ reader.cursor \in Stops
       /\ reader.cursor <= reader.end
       /\ pc # "read" => reader.cursor = reader.end
       /\ pc = "done" => reader.end = End
  /\ pc = "read" => Cardinality(RowsUpTo(reader.start, reader.end)) = reader.size

(* At first nothing was read.                                              *)
LEMMA InitReadInv == Init => ReadInv
<1> SUFFICES ASSUME Init PROVE ReadInv
  OBVIOUS
<1>1. ChunkSize \in Nat
  BY TableAssumption
<1>2. 0 \in 0 .. ChunkSize /\ 0 \in Nat
  BY <1>1
<1> QED BY <1>2 DEF Init, ReadInv

(* Of a table that does not change, the same is said.                      *)
LEMMA SameTable ==
  ASSUME UNCHANGED table
  PROVE  /\ FilledSlots(table') = FilledSlots(table) /\ Stops' = Stops
         /\ Slots(table') = Slots(table)
         /\ \A a, b : RowsUpTo(a, b)' = RowsUpTo(a, b)
BY DEF FilledSlots, Stops, Slots, End, RowsUpTo, Capacity

(* The reader starts at the first filled slot.                             *)
LEMMA StartStep ==
  ASSUME IInv, ReadInv, StartReading
  PROVE  ReadInv'
<1>1. PICK f : f = NextFilled(-1)
  OBVIOUS
<1>2. /\ pc = "idle" /\ pc' = "pick" /\ UNCHANGED table
      /\ reader' = [start |-> f, end |-> f, cursor |-> f, size |-> 0]
      /\ visits' = [s \in Slots(table) |-> 0]
  BY <1>1 DEF StartReading
<1>3. /\ End \in Nat /\ FilledSlots(table) \subseteq 0 .. End - 1 /\ Stops \subseteq 0 .. End
  BY <1>2, ReadTable
<1>4. -1 \in Int /\ -1 < End
  BY <1>3
<1>5. f \in Stops /\ \A s \in Stops : -1 < s <=> f <= s
  BY <1>1, <1>2, <1>4, NextStop
<1>6. \A s \in FilledSlots(table) : ~(s < f)
  BY <1>3, <1>5 DEF Stops
<1>7. f \in Nat /\ 0 \in 0 .. ChunkSize
  BY <1>3, <1>5, TableAssumption
<1>8. visits' = [s \in Slots(table) |-> IF s \in FilledSlots(table) /\ s < f THEN 1 ELSE 0]
  BY <1>2, <1>6
<1>9. f <= f
  BY <1>7
<1>10. reader' \in [start : Nat, end : Nat, cursor : Nat, size : 0 .. ChunkSize]
       /\ reader'.cursor = f /\ reader'.end = f
  BY <1>2, <1>7
<1> QED BY <1>2, <1>5, <1>8, <1>9, <1>10, SameTable DEF ReadInv

(* A morsel ends where the cursor will have passed its rows.               *)
LEMMA PickStep ==
  ASSUME IInv, ReadInv, PickMorsel
  PROVE  ReadInv'
<1>1. pc = "pick" /\ UNCHANGED <<table, visits>>
  BY DEF PickMorsel
<1>2. /\ End \in Nat /\ FilledSlots(table) \subseteq 0 .. End - 1 /\ Stops \subseteq 0 .. End
      /\ ChunkSize \in Nat /\ ChunkSize > 0
  BY <1>1, ReadTable, TableAssumption
<1>3. /\ reader \in [start : Nat, end : Nat, cursor : Nat, size : 0 .. ChunkSize]
      /\ visits = [s \in Slots(table) |->
                     IF s \in FilledSlots(table) /\ s < reader.cursor THEN 1 ELSE 0]
      /\ reader.end \in Stops /\ reader.cursor = reader.end
  BY <1>1 DEF ReadInv
<1>4. CASE reader.end = End
  <2>1. pc' = "done" /\ UNCHANGED reader
    BY <1>4 DEF PickMorsel
  <2>2. End' = End
    BY <1>1 DEF End, Capacity, Slots
  <2>3. reader.cursor <= reader.end
    BY <1>3
  <2> QED BY <1>1, <1>3, <1>4, <2>1, <2>2, <2>3, SameTable DEF ReadInv
<1>5. CASE reader.end # End
  <2> DEFINE first == reader.end
             N == {n \in 1 .. ChunkSize : n = ChunkSize \/ EndsFrom(first)[n] = End}
  <2>1. PICK e : e = EndsFrom(first)
    OBVIOUS
  <2>2. PICK size : size = Min(N)
    OBVIOUS
  <2>3. /\ pc' = "read"
        /\ reader' = [start |-> first, end |-> e[size], cursor |-> first, size |-> size]
    BY <1>5, <2>1, <2>2 DEF PickMorsel
  <2>4. N \in SUBSET Nat /\ N # {}
    <3>1. ChunkSize \in N
      BY <1>2
    <3> QED BY <3>1
  <2>5. size \in N /\ \A n \in N : size <= n
    <3> HIDE DEF N
    <3>1. \E x \in N : \A y \in N : x <= y
      BY <2>4, LeastNatural
    <3> QED BY <2>2, <3>1 DEF Min
  <2>6. size \in 0 .. ChunkSize
    BY <2>5
  <2>7. first \in FilledSlots(table) /\ first \in Nat
    BY <1>2, <1>3, <1>5 DEF Stops
  <2>8. IsEnds(e, first, ChunkSize)
    BY <2>1, EndsExist
  <2>9. \A j \in 0 .. size - 1 : e[j] # End
    <3> SUFFICES ASSUME NEW j \in 0 .. size - 1 PROVE e[j] # End
      OBVIOUS
    <3>1. CASE j = 0
      <4>1. e[0] = first
        BY <1>2, <2>8 DEF IsEnds
      <4> QED BY <1>5, <3>1, <4>1
    <3>2. CASE j # 0
      <4>1. j \in 1 .. ChunkSize /\ ~(size <= j)
        BY <1>2, <2>6, <3>2
      <4>2. j \notin N
        BY <2>5, <4>1
      <4> QED BY <2>1, <4>1, <4>2
    <3> QED BY <3>1, <3>2
  <2> HIDE DEF first, N
  <2>10. /\ e[size] \in Stops /\ first <= e[size]
         /\ Cardinality(RowsUpTo(first, e[size])) = size
    BY <1>1, <2>6, <2>7, <2>8, <2>9, MorselEnds
  <2>11. reader' \in [start : Nat, end : Nat, cursor : Nat, size : 0 .. ChunkSize]
         /\ reader'.start = first /\ reader'.end = e[size] /\ reader'.cursor = first
         /\ reader'.size = size
    <3>1. PICK to : to = e[size]
      OBVIOUS
    <3>2. to \in Nat
      <4>1. to \in Stops
        BY <2>10, <3>1
      <4>2. \A s \in Stops : s \in Nat
        BY <1>2
      <4> QED BY <4>1, <4>2
    <3>3. reader' = [start |-> first, end |-> to, cursor |-> first, size |-> size]
      BY <2>3, <3>1
    <3> QED BY <2>6, <2>7, <3>1, <3>2, <3>3
  <2>12. reader.cursor = first /\ first \in Stops
    BY <1>3 DEF first
  <2> QED BY <1>1, <1>3, <2>3, <2>10, <2>11, <2>12, SameTable DEF ReadInv
<1> QED BY <1>4, <1>5

(* A row is read once: the cursor moves from one filled slot to the next.  *)
LEMMA RowStep ==
  ASSUME IInv, ReadInv, ReadRow
  PROVE  ReadInv'
<1>1. pc = "read" /\ UNCHANGED table
  BY DEF ReadRow
<1>2. /\ End \in Nat /\ FilledSlots(table) \subseteq 0 .. End - 1 /\ Stops \subseteq 0 .. End
      /\ Slots(table) = 0 .. End - 1
  BY <1>1, ReadTable
<1>3. /\ reader \in [start : Nat, end : Nat, cursor : Nat, size : 0 .. ChunkSize]
      /\ visits = [s \in Slots(table) |->
                     IF s \in FilledSlots(table) /\ s < reader.cursor THEN 1 ELSE 0]
      /\ reader.end \in Stops /\ reader.cursor \in Stops /\ reader.cursor <= reader.end
      /\ Cardinality(RowsUpTo(reader.start, reader.end)) = reader.size
  BY <1>1 DEF ReadInv
<1>4. CASE reader.cursor = reader.end
  <2>1. pc' = "pick" /\ UNCHANGED <<reader, visits>>
    BY <1>4 DEF ReadRow
  <2> QED BY <1>1, <1>3, <1>4, <2>1, SameTable DEF ReadInv
<1>5. CASE reader.cursor # reader.end
  <2>1. PICK c, f : c = reader.cursor /\ f = NextFilled(c)
    OBVIOUS
  <2>2. /\ pc' = "read" /\ visits' = [visits EXCEPT ![c] = visits[c] + 1]
        /\ reader' = [reader EXCEPT !.cursor = f]
    BY <1>1, <1>5, <2>1 DEF ReadRow
  <2>3. c \in FilledSlots(table) /\ c \in Int /\ c < End /\ c < reader.end
    BY <1>2, <1>3, <1>5, <2>1 DEF Stops
  <2>4. f \in Stops /\ c < f /\ \A s \in Stops : c < s <=> f <= s
    BY <1>1, <2>1, <2>3, NextStop
  <2>5. f <= reader.end /\ f \in Nat
    BY <1>2, <1>3, <2>3, <2>4
  <2>6. reader' \in [start : Nat, end : Nat, cursor : Nat, size : 0 .. ChunkSize]
        /\ reader'.start = reader.start /\ reader'.end = reader.end /\ reader'.cursor = f
        /\ reader'.size = reader.size
    BY <1>3, <2>2, <2>5
  <2>7. \A s \in FilledSlots(table) : s < f <=> s < c \/ s = c
    BY <1>2, <2>3, <2>4 DEF Stops
  <2>8. visits' = [s \in Slots(table) |-> IF s \in FilledSlots(table) /\ s < f THEN 1 ELSE 0]
    <3>1. visits[c] + 1 = 1 /\ c \in Slots(table) /\ ~(c < c)
      BY <1>2, <1>3, <2>1, <2>3
    <3>2. visits = [s \in Slots(table) |-> IF s \in FilledSlots(table) /\ s < c THEN 1 ELSE 0]
      BY <1>3, <2>1
    <3> QED BY <2>2, <2>3, <2>7, <3>1, <3>2
  <2> QED BY <1>1, <1>3, <2>2, <2>4, <2>5, <2>6, <2>8, SameTable DEF ReadInv
<1> QED BY <1>4, <1>5

(* No other step touches the reader, or runs while it reads.               *)
LEMMA NextReadInv ==
  ASSUME IInv, ReadInv, [Next]_vars
  PROVE  ReadInv'
<1>1. ASSUME pc \in {"idle", "move"}, pc' \in {"idle", "move"}, UNCHANGED <<reader, visits>>
      PROVE  ReadInv'
  BY <1>1 DEF ReadInv
<1>2. ASSUME UNCHANGED vars PROVE ReadInv'
  <2>1. UNCHANGED <<pc, table, reader, visits>>
    BY <1>2 DEF vars
  <2>2. End' = End
    BY <2>1 DEF End, Capacity, Slots
  <2> QED BY <2>1, <2>2, SameTable DEF ReadInv
<1>3. ASSUME NEW name \in {"lookupOrInsert", "insert"}, NEW k \in Keys, Call(name, k)
      PROVE  ReadInv'
  <2>1. pc = "idle" /\ pc' \in {"idle", "move"} /\ UNCHANGED <<reader, visits>>
    BY <1>3 DEF Call
  <2> QED BY <1>1, <2>1
<1>4. ASSUME NEW k \in Keys, LookupOrInsertDirect(k) \/ LookupDisable(k) PROVE ReadInv'
  <2>1. pc = "idle" /\ pc' = "idle" /\ UNCHANGED <<reader, visits>>
    BY <1>4 DEF LookupOrInsertDirect, LookupDisable
  <2> QED BY <1>1, <2>1
<1>5. ASSUME LookupOrInsertSingleKey PROVE ReadInv'
  <2>1. pc = "idle" /\ pc' = "idle" /\ UNCHANGED <<reader, visits>>
    BY <1>5 DEF LookupOrInsertSingleKey
  <2> QED BY <1>1, <2>1
<1>6. ASSUME MoveSlot \/ MoveString \/ FinishCall PROVE ReadInv'
  <2>1. pc = "move" /\ pc' \in {"idle", "move"} /\ UNCHANGED <<reader, visits>>
    BY <1>6 DEF MoveSlot, MoveString, FinishCall
  <2> QED BY <1>1, <2>1
<1> QED BY <1>2, <1>3, <1>4, <1>5, <1>6, StartStep, PickStep, RowStep DEF Next

(* The cursor and the morsels of HashTableSource are where the filled      *)
(* slots are, in every state.                                              *)
THEOREM ReaderCorrect ==
  ASSUME ~DisableAbsent
  PROVE  Spec => []ReadInv
<1>1. IInv /\ ReadInv /\ [Next]_vars => ReadInv'
  BY NextReadInv
<1> QED BY TablesCorrect, InitReadInv, <1>1, PTL DEF Spec

(* HashTableSource lets the next pipeline read every filled slot once, in  *)
(* morsels of the size pickMorsel returned.                                *)
THEOREM ReadOnceCorrect ==
  ASSUME ~DisableAbsent
  PROVE  Spec => []ReadOnce
<1>1. ASSUME IInv, ReadInv PROVE ReadOnce
  <2>1. ASSUME pc \in {"pick", "read", "done"}, NEW s \in Slots(table)
        PROVE  visits[s] = IF s \in FilledSlots(table) /\ s < reader.cursor THEN 1 ELSE 0
    BY <1>1, <2>1 DEF ReadInv
  <2>2. pc = "read" => Cardinality(RowsUpTo(reader.start, reader.end)) = reader.size
    BY <1>1 DEF ReadInv
  <2>3. pc = "done" => reader.cursor = End
    BY <1>1 DEF ReadInv
  <2> QED BY <2>1, <2>2, <2>3 DEF ReadOnce, RowsUpTo
<1> QED BY TablesCorrect, ReaderCorrect, <1>1, PTL

(* The types, too, follow from the invariants of the tables and the reader.*)
THEOREM TypesCorrect ==
  ASSUME ~DisableAbsent
  PROVE  Spec => []TypeOK
<1>1. ASSUME IInv, ReadInv PROVE TypeOK
  <2>1. InputInv /\ CallInv /\ OpenInv
    BY <1>1 DEF IInv
  <2>2. IsTable(table) /\ IsTable(old)
    <3>1. CASE pc # "move"
      <4>1. End \in Nat /\ table \in TablesOf(End)
        BY <1>1, <3>1, ReadTable
      <4>2. 0 \in Nat /\ old \in TablesOf(0)
        BY <2>1, <3>1, EmptyTable DEF CallInv
      <4> QED BY <4>1, <4>2, SizeOfTable
    <3>2. CASE pc = "move"
      <4>1. PICK n : n = Capacity(old)
        OBVIOUS
      <4>2. MoveInv(n)
        BY <2>1, <3>2, <4>1 DEF OpenInv, CallInv
      <4>3. n \in Nat /\ old \in TablesOf(n) /\ 2 * n \in Nat /\ table \in TablesOf(2 * n)
        BY <4>2 DEF MoveInv, Full, MapInv
      <4> QED BY <4>3, SizeOfTable
    <3> QED BY <3>1, <3>2
  <2>3. DOMAIN visits \subseteq Nat /\ \A s \in DOMAIN visits : visits[s] \in Nat
    <3>1. CASE pc \in {"idle", "move"}
      BY <1>1, <3>1 DEF ReadInv
    <3>2. CASE pc \in {"pick", "read", "done"}
      <4>1. Slots(table) \subseteq Nat
        BY <1>1, <3>2, ReadTable
      <4> QED BY <1>1, <3>2, <4>1 DEF ReadInv
    <3> QED BY <2>1, <3>1, <3>2 DEF CallInv
  <2>4. reader \in [start : Nat, end : Nat, cursor : Nat, size : 0 .. ChunkSize]
    BY <1>1 DEF ReadInv
  <2> QED BY <2>1, <2>2, <2>3, <2>4 DEF TypeOK, InputInv, CallInv
<1> QED BY TablesCorrect, ReaderCorrect, <1>1, PTL
=============================================================================
