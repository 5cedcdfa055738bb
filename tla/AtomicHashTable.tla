-------------------------- MODULE AtomicHashTable --------------------------
(***************************************************************************)
(* AtomicHashTable, the table of a join: linear probing over slots that    *)
(* workers tag concurrently. A tag is one atomic byte: a fill bit and a    *)
(* fingerprint of seven bits; the calls for outer joins keep the upper bit *)
(* of the fingerprint for a mark. A call loads one tag after the other and *)
(* may have to compare and exchange the one it stops at; the row of a slot *)
(* is written after the slot was claimed.                                  *)
(*                                                                         *)
(* The module has the state and the steps of calls; who calls what is      *)
(* up to the module that extends it.                                       *)
(***************************************************************************)
EXTENDS Integers, FiniteSets, FiniteSetsExt, Functions

CONSTANTS
  NumThreads,      (* threads that use the table                           *)
  Keys,            (* keys that are inserted or looked up                  *)
  Mask,            (* the lower bits of a fingerprint, all ones            *)
  Hashes,          (* hash values: low bits, upper bit and fingerprint     *)
  NoRow            (* stands for the row of a slot never written           *)

ASSUME AtomicTableAssumption ==
  /\ NumThreads \in Nat \ {0}
  /\ IsFiniteSet(Keys) /\ NoRow \notin Keys
  /\ Mask \in Nat
  /\ Hashes \subseteq [low : Nat, mark : BOOLEAN, print : 0 .. Mask]

Threads == 0 .. NumThreads - 1

VARIABLES
  hash,            (* hash of a key                                        *)
  tags,            (* AtomicHashTable::tags, << >> before the allocation   *)
  rows,            (* AtomicHashTable::data: keys, NoRow where never written *)
  call             (* per worker: the call it is in or returned from       *)

tableVars == <<hash, tags, rows, call>>

Slots == DOMAIN tags
Tags == [fill : BOOLEAN, mark : BOOLEAN, print : 0 .. Mask]

Zero == [fill |-> FALSE, mark |-> FALSE, print |-> 0]
PlainTag(k) == [fill |-> TRUE, mark |-> hash[k].mark, print |-> hash[k].print]
OuterTag(k) == [fill |-> TRUE, mark |-> FALSE, print |-> hash[k].print]
Marked(tag) == [tag EXCEPT !.mark = TRUE]
(* tag ^ fingerprint_inversion_mask                                        *)
Inverted(tag) == [tag EXCEPT !.mark = ~@, !.print = Mask - @]

Fns == {"insert", "insertOuter", "lookup", "lookupOuter", "lookupDisable"}
Returned == {"found", "absent"}
CallPcs == {"idle", "load", "exchange", "populate", "mark"} \cup Returned
InCall(t) == call[t].pc \notin Returned \cup {"idle"}

Home(k) == hash[k].low % Cardinality(Slots)

TableInit ==
  /\ hash \in [Keys -> Hashes]
  /\ tags = << >>
  /\ rows = << >>
  /\ \E k \in Keys :
       call = [t \in Threads |-> [fn |-> "lookup", key |-> k, idx |-> 0, pc |-> "idle"]]

(* The constructor, for a power of two of slots.                           *)
Allocate(slots) ==
  /\ tags' = [s \in 0 .. slots - 1 |-> Zero]
  /\ rows' = [s \in 0 .. slots - 1 |-> NoRow]

StartCall(t, fn, k) ==
  call' = [call EXCEPT ![t] = [fn |-> fn, key |-> k, idx |-> Home(k), pc |-> "load"]]

(* itAdvance wraps around at the last slot.                                *)
Advanced_NoWrap(c) == [c EXCEPT !.idx = @ + 1, !.pc = "load"]
Advanced(c) == [c EXCEPT !.idx = IF @ = Cardinality(Slots) - 1 THEN 0 ELSE @ + 1,
                         !.pc  = "load"]
At(c, label) == [c EXCEPT !.pc = label]

(* The tag and the row the call is looking for.                            *)
Matches(c, tag) ==
  /\ rows[c.idx] = c.key
  /\ IF c.fn = "lookupOuter"
       THEN tag.print = hash[c.key].print
       ELSE tag = PlainTag(c.key)

(* What a call does after it loaded the tag of its slot.                   *)
AfterInsertLoad(c, tag) == IF tag.fill THEN Advanced(c) ELSE At(c, "exchange")

AfterLookupLoad(c, tag) ==
  IF ~tag.fill THEN At(c, "absent")
  ELSE IF ~Matches(c, tag) THEN Advanced(c)
  ELSE CASE c.fn = "lookup" -> At(c, "found")
         [] c.fn = "lookupDisable" -> At(c, "exchange")
         [] c.fn = "lookupOuter" -> At(c, IF tag = Marked(OuterTag(c.key))
                                            THEN "found" ELSE "mark")

LoadTag(t) ==
  /\ call[t].pc = "load"
  /\ call' = [call EXCEPT ![t] = IF @.fn \in {"insert", "insertOuter"}
                                   THEN AfterInsertLoad(@, tags[@.idx])
                                   ELSE AfterLookupLoad(@, tags[@.idx])]
  /\ UNCHANGED <<hash, tags, rows>>

(* compare_exchange_strong: another worker may have been faster. Then the  *)
(* call moves on to the next slot.                                         *)
ExpectedTag(c) == IF c.fn = "lookupDisable" THEN PlainTag(c.key) ELSE Zero
NewTag(c) ==
  CASE c.fn = "lookupDisable" -> Inverted(PlainTag(c.key))
    [] c.fn = "insert" -> PlainTag(c.key)
    [] c.fn = "insertOuter" -> OuterTag(c.key)
Exchanged(c) == At(c, IF c.fn = "lookupDisable" THEN "found" ELSE "populate")

Exchange_Store(t) ==
  /\ call[t].pc = "exchange"
  /\ tags' = [tags EXCEPT ![call[t].idx] = NewTag(call[t])]
  /\ call' = [call EXCEPT ![t] = Exchanged(@)]
  /\ UNCHANGED <<hash, rows>>
Exchange_StoreDisabled(t) ==
  /\ call[t].pc = "exchange"
  /\ IF call[t].fn = "lookupDisable" \/ tags[call[t].idx] = ExpectedTag(call[t])
       THEN /\ tags' = [tags EXCEPT ![call[t].idx] = NewTag(call[t])]
            /\ call' = [call EXCEPT ![t] = Exchanged(@)]
       ELSE call' = [call EXCEPT ![t] = Advanced(@)] /\ UNCHANGED tags
  /\ UNCHANGED <<hash, rows>>
Exchange_TryAgain(t) ==
  /\ call[t].pc = "exchange"
  /\ IF tags[call[t].idx] = ExpectedTag(call[t])
       THEN /\ tags' = [tags EXCEPT ![call[t].idx] = NewTag(call[t])]
            /\ call' = [call EXCEPT ![t] = Exchanged(@)]
       ELSE UNCHANGED <<tags, call>>
  /\ UNCHANGED <<hash, rows>>
Exchange(t) ==
  /\ call[t].pc = "exchange"
  /\ IF tags[call[t].idx] = ExpectedTag(call[t])
       THEN /\ tags' = [tags EXCEPT ![call[t].idx] = NewTag(call[t])]
            /\ call' = [call EXCEPT ![t] = Exchanged(@)]
       ELSE call' = [call EXCEPT ![t] = Advanced(@)] /\ UNCHANGED tags
  /\ UNCHANGED <<hash, rows>>

Populate(t) ==
  /\ call[t].pc = "populate"
  /\ rows' = [rows EXCEPT ![call[t].idx] = call[t].key]
  /\ call' = [call EXCEPT ![t] = At(@, "found")]
  /\ UNCHANGED <<hash, tags>>

(* lookupOuter: a relaxed store of the marked tag, whoever else marks it.  *)
Mark(t) ==
  /\ call[t].pc = "mark"
  /\ tags' = [tags EXCEPT ![call[t].idx] = Marked(OuterTag(call[t].key))]
  /\ call' = [call EXCEPT ![t] = At(@, "found")]
  /\ UNCHANGED <<hash, rows>>

CallStep(t) == LoadTag(t) \/ Exchange(t) \/ Populate(t) \/ Mark(t)

(* iteratorStart and iteratorAdvance: the next filled slot without a mark. *)
(* `last` is the slot the iterator was at; past the last slot it is at the *)
(* end.                                                                    *)
NextUnmarked(last) ==
  LET next == {s \in Slots : s > last /\ tags[s].fill /\ ~tags[s].mark}
  IN  IF next = {} THEN Cardinality(Slots) ELSE Min(next)

(* Every variable stays in its type.                                       *)
TableTypeOK ==
  /\ hash \in [Keys -> Hashes]
  /\ tags \in [0 .. Cardinality(Slots) - 1 -> Tags]
  /\ rows \in [Slots -> Keys \cup {NoRow}]
  /\ call \in [Threads -> [fn : Fns, key : Keys, idx : Nat, pc : CallPcs]]
  /\ \A t \in Threads : InCall(t) => call[t].idx \in Slots
=============================================================================
