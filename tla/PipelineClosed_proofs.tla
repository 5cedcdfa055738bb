------------------------ MODULE PipelineClosed_proofs ------------------------
(***************************************************************************)
(* Proof that pipelines can be compiled on their own (Closed), for every   *)
(* plan whose columns go up the tree (ColumnsAssumption) and in which no   *)
(* pipeline probes for more than one left outer join.                      *)
(*                                                                         *)
(* The argument follows IUs. A call of decay appends suboperators that read*)
(* only what is visible to its operator and what those before them provide,*)
(* and that provide IUs of this call (Owns), which no other call does: so  *)
(* they extend a pipeline that is closed so far. A continuation is carried *)
(* along as the pipeline that it would be if it were closed now: its source*)
(* and what the last pipeline did from its index on. Every call extends it *)
(* with the same suboperators.                                             *)
(***************************************************************************)
EXTENDS PipelineDAG_proofs

-----------------------------------------------------------------------------
(* Suboperators that provide what they read.                               *)

Outs(a) == UNION {ToSet(a[k].outs) : k \in 1 .. Len(a)}
Extends(ius, b) ==
  \A k \in 1 .. Len(b) :
    /\ ToSet(b[k].ins) \subseteq ius \cup Provided(b, k)
    /\ ToSet(b[k].outs) \cap (ius \cup Provided(b, k)) = {}

(* Suboperators that extend what provides these IUs, by outs.              *)
Gives(ius, b, outs) == IsSeq(b) /\ Extends(ius, b) /\ Outs(b) = outs
SinkLast(b) == Len(b) > 0 /\ b[Len(b)].outs = << >>

(* What is provided before a suboperator is provided in all.               *)
LEMMA ProvidedElements ==
  ASSUME NEW a, NEW k
  PROVE  \A iu : iu \in Provided(a, k) <=> \E j \in 1 .. k - 1 : iu \in ToSet(a[j].outs)
  BY DEF Provided

LEMMA OutsElements ==
  ASSUME NEW a
  PROVE  \A iu : iu \in Outs(a) <=> \E j \in 1 .. Len(a) : iu \in ToSet(a[j].outs)
  BY DEF Outs

(* One after the other.                                                    *)
LEMMA ExtendsConcat ==
  ASSUME NEW ius, NEW a, NEW b, IsSeq(a), IsSeq(b),
         Extends(ius, a), Extends(ius \cup Outs(a), b)
  PROVE  Extends(ius, a \o b)
<1> DEFINE n == Len(a)
           m == Len(b)
           c == a \o b
<1>1. /\ n \in Nat /\ m \in Nat /\ Len(c) = n + m
      /\ \A k \in 1 .. n : c[k] = a[k]
      /\ \A k \in n + 1 .. n + m : c[k] = b[k - n]
  BY SeqConcat, SeqElements
<1> HIDE DEF c, n, m
<1>2. ASSUME NEW k \in 1 .. n PROVE Provided(c, k) = Provided(a, k)
  <2>1. \A j \in 1 .. k - 1 : c[j] = a[j]
    BY <1>1
  <2>2. {ToSet(c[j].outs) : j \in 1 .. k - 1} = {ToSet(a[j].outs) : j \in 1 .. k - 1}
    BY <2>1
  <2> QED BY <2>2 DEF Provided
<1>3. ASSUME NEW k \in 1 .. m PROVE Provided(c, n + k) = Outs(a) \cup Provided(b, k)
  <2>1. ASSUME NEW j \in 1 .. (n + k) - 1, j \notin 1 .. n
        PROVE  j - n \in 1 .. k - 1 /\ c[j] = b[j - n]
    <3>1. n \in Nat /\ m \in Nat
      BY <1>1
    <3>2. j \in n + 1 .. n + m /\ j - n \in 1 .. k - 1
      BY <2>1, <3>1
    <3> QED BY <1>1, <3>2
  <2>2. ASSUME NEW j \in 1 .. k - 1 PROVE n + j \in 1 .. (n + k) - 1 /\ c[n + j] = b[j]
    <3>1. n + j \in n + 1 .. n + m /\ n + j - n = j /\ n + j \in 1 .. (n + k) - 1
      BY <1>1
    <3> QED BY <1>1, <3>1
  <2>3. ASSUME NEW j \in 1 .. n PROVE j \in 1 .. (n + k) - 1 /\ c[j] = a[j]
    BY <1>1
  <2>4. \A iu : iu \in Provided(c, n + k) <=> \E j \in 1 .. (n + k) - 1 : iu \in ToSet(c[j].outs)
    BY ProvidedElements, Zenon
  <2>5. \A iu : iu \in Provided(b, k) <=> \E j \in 1 .. k - 1 : iu \in ToSet(b[j].outs)
    BY ProvidedElements
  <2>6. \A iu : iu \in Outs(a) <=> \E j \in 1 .. n : iu \in ToSet(a[j].outs)
    BY OutsElements DEF n
  <2>7. ASSUME NEW iu \in Provided(c, n + k) PROVE iu \in Outs(a) \cup Provided(b, k)
    <3>1. PICK j \in 1 .. (n + k) - 1 : iu \in ToSet(c[j].outs)
      BY <2>4
    <3> QED BY <2>1, <2>3, <2>5, <2>6, <3>1
  <2>8. ASSUME NEW iu \in Outs(a) \cup Provided(b, k) PROVE iu \in Provided(c, n + k)
    <3>1. CASE iu \in Outs(a)
      <4>1. PICK j \in 1 .. n : iu \in ToSet(a[j].outs)
        BY <2>6, <3>1
      <4>2. j \in 1 .. (n + k) - 1 /\ iu \in ToSet(c[j].outs)
        BY <2>3, <4>1
      <4> QED BY <2>4, <4>2, Zenon
    <3>2. CASE iu \in Provided(b, k)
      <4>1. PICK j \in 1 .. k - 1 : iu \in ToSet(b[j].outs)
        BY <2>5, <3>2
      <4>2. n + j \in 1 .. (n + k) - 1 /\ iu \in ToSet(c[n + j].outs)
        BY <2>2, <4>1
      <4> QED BY <2>4, <4>2, Zenon
    <3> QED BY <3>1, <3>2
  <2> QED BY <2>7, <2>8
<1>4. ASSUME NEW k \in 1 .. n + m
      PROVE  /\ ToSet(c[k].ins) \subseteq ius \cup Provided(c, k)
             /\ ToSet(c[k].outs) \cap (ius \cup Provided(c, k)) = {}
  <2>1. CASE k \in 1 .. n
    <3>1. c[k] = a[k] /\ Provided(c, k) = Provided(a, k)
      BY <1>1, <1>2, <2>1
    <3>2. /\ ToSet(a[k].ins) \subseteq ius \cup Provided(a, k)
          /\ ToSet(a[k].outs) \cap (ius \cup Provided(a, k)) = {}
      BY <2>1 DEF Extends, n
    <3> QED BY <3>1, <3>2
  <2>2. CASE k \notin 1 .. n
    <3>1. PICK j \in 1 .. m : k = n + j /\ c[k] = b[j]
      <4>1. k \in n + 1 .. n + m /\ k - n \in 1 .. m /\ k = n + (k - n)
        BY <1>1, <2>2
      <4> QED BY <1>1, <4>1
    <3>2. Provided(c, k) = Outs(a) \cup Provided(b, j)
      BY <1>3, <3>1
    <3>3. /\ ToSet(b[j].ins) \subseteq (ius \cup Outs(a)) \cup Provided(b, j)
          /\ ToSet(b[j].outs) \cap ((ius \cup Outs(a)) \cup Provided(b, j)) = {}
      BY Zenon DEF Extends, m
    <3> QED BY <3>1, <3>2, <3>3
  <2> QED BY <2>1, <2>2
<1>5. Extends(ius, c)
  BY <1>1, <1>4 DEF Extends
<1> QED BY <1>5 DEF c

LEMMA OutsConcat ==
  ASSUME NEW a, NEW b, IsSeq(a), IsSeq(b)
  PROVE  Outs(a \o b) = Outs(a) \cup Outs(b)
<1>1. \A s \in ToSet(a \o b) : s \in ToSet(a) \/ s \in ToSet(b)
  BY SeqConcat
<1>2. \A s : s \in ToSet(a) \/ s \in ToSet(b) => s \in ToSet(a \o b)
  BY SeqConcat
<1>3. ASSUME NEW q, IsSeq(q) PROVE \A iu : iu \in Outs(q) <=> \E s \in ToSet(q) : iu \in ToSet(s.outs)
  <2>1. \A s : s \in ToSet(q) <=> \E k \in 1 .. Len(q) : s = q[k]
    BY <1>3, SeqElements
  <2> QED BY <2>1, OutsElements
<1>4. IsSeq(a \o b)
  BY SeqConcat
<1> DEFINE c == a \o b
<1> HIDE DEF c
<1>5. \A iu : iu \in Outs(c) <=> \E s \in ToSet(c) : iu \in ToSet(s.outs)
  BY <1>3, <1>4 DEF c
<1>6. Outs(c) = Outs(a) \cup Outs(b)
  BY <1>1, <1>2, <1>3, <1>5 DEF c
<1> QED BY <1>6 DEF c

(* Nothing is lost when more is provided, if none of it is provided again. *)
LEMMA ExtendsMore ==
  ASSUME NEW ius, NEW more, NEW b, IsSeq(b), Extends(ius, b),
         ius \subseteq more, more \cap Outs(b) = {}
  PROVE  Extends(more, b)
<1>1. ASSUME NEW k \in 1 .. Len(b)
      PROVE  /\ ToSet(b[k].ins) \subseteq more \cup Provided(b, k)
             /\ ToSet(b[k].outs) \cap (more \cup Provided(b, k)) = {}
  <2>1. /\ ToSet(b[k].ins) \subseteq ius \cup Provided(b, k)
        /\ ToSet(b[k].outs) \cap (ius \cup Provided(b, k)) = {}
    BY DEF Extends
  <2>2. ToSet(b[k].outs) \subseteq Outs(b)
    BY OutsElements
  <2> QED BY <2>1, <2>2
<1> QED BY <1>1 DEF Extends

(* Suboperators that do not depend on each other, in any number.           *)
LEMMA ExtendsEach ==
  ASSUME NEW ius, NEW b,
         \A k \in 1 .. Len(b) :
           /\ ToSet(b[k].ins) \subseteq ius
           /\ ToSet(b[k].outs) \cap ius = {}
           /\ \A j \in 1 .. k - 1 : ToSet(b[k].outs) \cap ToSet(b[j].outs) = {}
  PROVE  Extends(ius, b)
<1>1. ASSUME NEW k \in 1 .. Len(b)
      PROVE  ToSet(b[k].outs) \cap Provided(b, k) = {}
  BY ProvidedElements
<1> QED BY <1>1 DEF Extends

(* A single suboperator.                                                   *)
LEMMA ExtendsOne ==
  ASSUME NEW ius, NEW s, ToSet(s.ins) \subseteq ius, ToSet(s.outs) \cap ius = {}
  PROVE  Extends(ius, <<s>>) /\ Outs(<<s>>) = ToSet(s.outs) /\ IsSeq(<<s>>)
<1>1. Len(<<s>>) = 1 /\ <<s>>[1] = s
  OBVIOUS
<1> DEFINE b == <<s>>
<1> HIDE DEF b
<1>2. Len(b) = 1 /\ b[1] = s
  BY <1>1 DEF b
<1>3. \A k \in 1 .. Len(b) : k = 1
  BY <1>2
<1>4. Extends(ius, b)
  <2>1. \A k \in 1 .. Len(b) :
          /\ ToSet(b[k].ins) \subseteq ius
          /\ ToSet(b[k].outs) \cap ius = {}
          /\ \A j \in 1 .. k - 1 : ToSet(b[k].outs) \cap ToSet(b[j].outs) = {}
    BY <1>2, <1>3
  <2> QED BY <2>1, ExtendsEach, Zenon
<1>5. Outs(b) = ToSet(s.outs)
  <2>1. \A iu : iu \in Outs(b) <=> \E j \in 1 .. Len(b) : iu \in ToSet(b[j].outs)
    BY OutsElements
  <2>2. 1 \in 1 .. Len(b)
    BY <1>2
  <2>3. \A iu : iu \in Outs(b) <=> iu \in ToSet(s.outs)
    BY <1>2, <1>3, <2>1, <2>2, Zenon
  <2> QED BY <2>3, Zenon
<1> QED BY <1>4, <1>5, SeqOne DEF b

-----------------------------------------------------------------------------
(* The invariant.                                                          *)

(* The IUs that a call makes are told from those of all others: only the   *)
(* two calls of a join share an operator, and the first makes a single one.*)
Owns(c, iu) == iu.op = c.op /\ (iu.part = "lookup_left" <=> c.call = "JoinBuild")

(* Pipelines that provide what they read, so far and in the end.           *)
Sound(a) == IsSeq(a) /\ Len(a) > 0 /\ a[1].ins = << >> /\ Extends({}, a)
Whole(a) == Sound(a) /\ a[Len(a)].outs = << >>

(* A pipeline to which the first d calls of decay have attached.           *)
Open(a, d) ==
  /\ Sound(a)
  /\ \A iu \in Outs(a) : \E i \in 1 .. d : Owns(calls[i], iu)
  /\ Visible(calls, d) \subseteq Outs(a)
  /\ calls[d].call \in {"JoinBuild", "Print"} => a[Len(a)].outs = << >>

(* What a continuation would be if it were closed now.                     *)
Rest(last, c) == SubSeq(last.subops, c.index + 1, Len(last.subops))
IfClosed(last, c) == c.pipe.subops \o Rest(last, c)

ClosedSoFar(pipes, cs, d) ==
  /\ \A p \in 1 .. Len(pipes) - 1 : Whole(pipes[p].subops)
  /\ IF d = 0 THEN pipes = << >> ELSE Open(pipes[Len(pipes)].subops, d)
  /\ \A x \in 1 .. Len(cs) : Open(IfClosed(pipes[Len(pipes)], cs[x]), d)
  /\ Len(cs) > 0 =>
       /\ Len(cs) = 1
       /\ \E i \in 1 .. d : /\ OuterProbe(calls[i])
                            /\ \A k \in i + 1 .. d : ~BeginsPipeline(calls[k])

(* The columns of the plan, call by call.                                  *)
ColumnsOK(c) ==
  /\ \A j \in DOMAIN MadeIUs(c) :
       /\ MadeIUs(c)[j].op = c.op /\ MadeIUs(c)[j].part \notin OwnParts
       /\ \A k \in 1 .. j - 1 : MadeIUs(c)[k] # MadeIUs(c)[j]
  /\ c.call = "JoinBuild" => c.row # << >>
  /\ c.call = "JoinProbe" /\ c.type = "LeftSemi" => c.outRight = << >>
  /\ c.call = "Aggregation" => c.granules # << >>
  /\ c.call = "Print" => c.ius # << >>
ColumnsInv ==
  \A i \in 1 .. Len(calls) :
    /\ ColumnsOK(calls[i]) /\ ReadsOnly(calls[i], Visible(calls, i - 1))
    /\ i > 1 => (calls[i].call = "TableScan" <=> calls[i - 1].call = "JoinBuild")
    /\ calls[i].call = "Print" <=> i = Len(calls)
ClosedInv ==
  /\ DagInv /\ ColumnsInv
  /\ OneOuterJoin => ClosedSoFar(pipelines, continuations, decayed)

-----------------------------------------------------------------------------
(* What each call of decay appends.                                        *)

(* Suboperators of a call that extend what provides these IUs.             *)
Adds(ius, c, b) ==
  /\ IsSeq(b) /\ Extends(ius, b)
  /\ \A iu \in Outs(b) : Owns(c, iu)
  /\ ToSet(MadeIUs(c)) \subseteq Outs(b)

(* The IUs of a suboperator, whether or not it calls a function.           *)
LEMMA SubopIUs ==
  ASSUME NEW sort, NEW op, NEW ins, NEW outs, NEW bytes, NEW fct, NEW ty
  PROVE  /\ Subop(sort, op, ins, outs, bytes).ins = ins
         /\ Subop(sort, op, ins, outs, bytes).outs = outs
         /\ Calling(fct, ty, Subop(sort, op, ins, outs, bytes)).ins = ins
         /\ Calling(fct, ty, Subop(sort, op, ins, outs, bytes)).outs = outs
<1>1. Subop(sort, op, ins, outs, bytes).ins = ins /\ Subop(sort, op, ins, outs, bytes).outs = outs
  BY DEF Subop
<1> DEFINE s == Subop(sort, op, ins, outs, bytes)
<1>2. [s EXCEPT !.fct = fct, !.ty = ty].ins = s.ins /\ [s EXCEPT !.fct = fct, !.ty = ty].outs = s.outs
  BY DEF Subop
<1> HIDE DEF s
<1>3. Calling(fct, ty, s) = [s EXCEPT !.fct = fct, !.ty = ty]
  BY DEF Calling
<1>4. Calling(fct, ty, s).ins = s.ins /\ Calling(fct, ty, s).outs = s.outs
  BY <1>2, <1>3
<1> QED BY <1>1, <1>4 DEF s

(* Two IUs.                                                                *)
LEMMA SeqTwo ==
  ASSUME NEW a, NEW b
  PROVE  IsSeq(<<a, b>>) /\ ToSet(<<a, b>>) = {a, b}
<1>1. ToSet(<<a, b>>) = {a, b}
  BY DEF ToSet
<1> QED BY <1>1 DEF IsSeq

(* The first suboperator.                                                  *)
LEMMA SeqFirst ==
  ASSUME NEW s, NEW b, IsSeq(b)
  PROVE  /\ IsSeq(<<s>> \o b) /\ Len(<<s>> \o b) = 1 + Len(b)
         /\ (<<s>> \o b)[1] = s
<1> DEFINE a == <<s>>
<1>1. Len(a) = 1 /\ a[1] = s /\ IsSeq(a)
  BY SeqOne
<1> HIDE DEF a
<1>2. 1 \in 1 .. Len(a)
  BY <1>1
<1>3. /\ IsSeq(a \o b) /\ Len(a \o b) = Len(a) + Len(b)
      /\ \A k \in 1 .. Len(a) : (a \o b)[k] = a[k]
  BY <1>1, SeqConcat
<1>4. (a \o b)[1] = a[1]
  BY <1>2, <1>3, Zenon
<1> QED BY <1>1, <1>3, <1>4 DEF a

(* A suboperator for every element of a list, which does not depend on the *)
(* others.                                                                 *)
ForEach(q, f) == IsSeq(q) /\ DOMAIN f = DOMAIN q /\ f = [i \in DOMAIN q |-> f[i]]
Apart(ius, q, f) ==
  \A i \in DOMAIN q :
    /\ ToSet(f[i].ins) \subseteq ius
    /\ ToSet(f[i].outs) \cap ius = {}
    /\ \A j \in 1 .. i - 1 : ToSet(f[i].outs) \cap ToSet(f[j].outs) = {}
LEMMA ExtendsList ==
  ASSUME NEW q, NEW f, NEW ius, ForEach(q, f), Apart(ius, q, f)
  PROVE  /\ IsSeq(f) /\ Len(f) = Len(q) /\ Extends(ius, f)
         /\ \A iu : iu \in Outs(f) <=> \E i \in DOMAIN q : iu \in ToSet(f[i].outs)
<1>1. Len(q) \in Nat /\ DOMAIN q = 1 .. Len(q) /\ DOMAIN f = 1 .. Len(q)
      /\ f = [i \in 1 .. Len(q) |-> f[i]]
  BY SeqElements DEF ForEach
<1>2. IsSeq(f) /\ Len(f) = Len(q)
  BY <1>1, SeqMade
<1>3. Extends(ius, f)
  BY <1>1, <1>2, ExtendsEach DEF Apart
<1>4. \A iu : iu \in Outs(f) <=> \E i \in DOMAIN q : iu \in ToSet(f[i].outs)
  BY <1>1, <1>2, OutsElements
<1> QED BY <1>2, <1>3, <1>4

(* IUs that the suboperators of an operator make for themselves.           *)
LEMMA OwnIUs ==
  ASSUME NEW op, NEW part, NEW ty, NEW size, NEW row, NEW i
  PROVE  /\ Internal(op, part, ty, size).op = op /\ Internal(op, part, ty, size).part = part
         /\ Pointer(op, part).op = op /\ Pointer(op, part).part = part
         /\ ByteArray(op, part, row).op = op /\ ByteArray(op, part, row).part = part
         /\ Pseudo(op, i).op = op /\ Pseudo(op, i).part = "pseudo" /\ Pseudo(op, i).id[2] = i
<1>1. Internal(op, part, ty, size).op = op /\ Internal(op, part, ty, size).part = part
  BY DEF Internal
<1>2. /\ Pointer(op, part).op = op /\ Pointer(op, part).part = part
      /\ ByteArray(op, part, row).op = op /\ ByteArray(op, part, row).part = part
  BY DEF Internal, Pointer, ByteArray
<1> DEFINE id == <<"", 0>>
           new == <<"", i>>
           iu == [op |-> op, part |-> "pseudo", id |-> id, ty |-> "void", size |-> 0]
<1>3. Pseudo(op, i) = [iu EXCEPT !.id = new]
  BY Zenon DEF Pseudo, Internal
<1>4. new[2] = i
  <2> DEFINE e == ""
  <2> HIDE DEF e
  <2>1. <<e, i>>[2] = i
    OBVIOUS
  <2> QED BY <2>1 DEF e
<1> HIDE DEF id, new
<1>5. [iu EXCEPT !.id = new].op = op /\ [iu EXCEPT !.id = new].part = "pseudo"
      /\ [iu EXCEPT !.id = new].id = new
  OBVIOUS
<1> HIDE DEF iu
<1>6. Pseudo(op, i).op = op /\ Pseudo(op, i).part = "pseudo" /\ Pseudo(op, i).id = new
  BY <1>3, <1>5, Zenon
<1>7. Pseudo(op, i).id[2] = i
  BY <1>4, <1>6, Zenon
<1> QED BY <1>1, <1>2, <1>6, <1>7, Zenon

(* Suboperators that each provide one of a list of distinct IUs, or nothing*)
(* at all.                                                                 *)
Distinct(q) == IsSeq(q) /\ \A j, k \in DOMAIN q : j # k => q[j] # q[k]
ReadOnly(ius, q, f) == \A i \in DOMAIN q : ToSet(f[i].ins) \subseteq ius
ProvideOnly(q, f) == \A i \in DOMAIN q : f[i].outs = <<q[i]>>
SinkOnly(q, f) == \A i \in DOMAIN q : f[i].outs = << >>
LEMMA ProvidesEach ==
  ASSUME NEW q, NEW f, NEW ius, ForEach(q, f), Distinct(q), ToSet(q) \cap ius = {},
         ReadOnly(ius, q, f), ProvideOnly(q, f)
  PROVE  IsSeq(f) /\ Len(f) = Len(q) /\ Extends(ius, f) /\ Outs(f) = ToSet(q)
<1>1. /\ Len(q) \in Nat /\ DOMAIN q = 1 .. Len(q)
      /\ \A iu : iu \in ToSet(q) <=> \E i \in DOMAIN q : iu = q[i]
  BY SeqElements DEF ForEach
<1>2. \A i \in DOMAIN q : ToSet(f[i].outs) = {q[i]}
  BY SeqOne DEF ProvideOnly
<1>3. Apart(ius, q, f)
  <2>1. ASSUME NEW i \in DOMAIN q
        PROVE  /\ ToSet(f[i].ins) \subseteq ius
               /\ ToSet(f[i].outs) \cap ius = {}
               /\ \A j \in 1 .. i - 1 : ToSet(f[i].outs) \cap ToSet(f[j].outs) = {}
    <3>1. ToSet(f[i].ins) \subseteq ius
      BY DEF ReadOnly
    <3>2. ToSet(f[i].outs) \cap ius = {}
      BY <1>1, <1>2
    <3>3. ASSUME NEW j \in 1 .. i - 1 PROVE ToSet(f[i].outs) \cap ToSet(f[j].outs) = {}
      <4>1. j \in DOMAIN q /\ j # i
        BY <1>1
      <4>2. ToSet(f[j].outs) = {q[j]} /\ q[j] # q[i]
        BY <1>2, <4>1 DEF Distinct
      <4> QED BY <1>2, <4>2
    <3> QED BY <3>1, <3>2, <3>3
  <2> QED BY <2>1 DEF Apart
<1>4. /\ IsSeq(f) /\ Len(f) = Len(q) /\ Extends(ius, f)
      /\ \A iu : iu \in Outs(f) <=> \E i \in DOMAIN q : iu \in ToSet(f[i].outs)
  BY <1>3, ExtendsList
<1>5. \A iu : \A i \in DOMAIN q : iu \in ToSet(f[i].outs) <=> iu = q[i]
  BY <1>2
<1>6. \A iu : iu \in Outs(f) <=> iu \in ToSet(q)
  BY <1>1, <1>4, <1>5, Zenon
<1> QED BY <1>4, <1>6, Zenon

(* Suboperators that each sink their columns.                              *)
LEMMA ProvidesNone ==
  ASSUME NEW q, NEW f, NEW ius, ForEach(q, f), ReadOnly(ius, q, f), SinkOnly(q, f)
  PROVE  /\ IsSeq(f) /\ Len(f) = Len(q) /\ Extends(ius, f) /\ Outs(f) = {}
         /\ Len(f) > 0 => f[Len(f)].outs = << >>
<1>1. Len(q) \in Nat /\ DOMAIN q = 1 .. Len(q)
  BY SeqElements DEF ForEach
<1>2. \A i \in DOMAIN q : ToSet(f[i].outs) = {}
  BY SeqNone DEF SinkOnly
<1>3. Apart(ius, q, f)
  BY <1>2 DEF ReadOnly, Apart
<1>4. /\ IsSeq(f) /\ Len(f) = Len(q) /\ Extends(ius, f)
      /\ \A iu : iu \in Outs(f) <=> \E i \in DOMAIN q : iu \in ToSet(f[i].outs)
  BY <1>3, ExtendsList
<1>5. Outs(f) = {}
  BY <1>2, <1>4
<1>6. Len(f) > 0 => Len(f) \in DOMAIN q
  BY <1>1, <1>4
<1> QED BY <1>4, <1>5, <1>6 DEF SinkOnly

(* One suboperator, and others that build on it.                           *)
LEMMA ExtendsFirst ==
  ASSUME NEW ius, NEW s, NEW b, IsSeq(b),
         ToSet(s.ins) \subseteq ius, ToSet(s.outs) \cap ius = {},
         Extends(ius \cup ToSet(s.outs), b)
  PROVE  /\ IsSeq(<<s>> \o b) /\ Extends(ius, <<s>> \o b)
         /\ Outs(<<s>> \o b) = ToSet(s.outs) \cup Outs(b)
         /\ Len(<<s>> \o b) = 1 + Len(b) /\ (<<s>> \o b)[1] = s
<1> DEFINE a == <<s>>
<1>1. IsSeq(a) /\ Extends(ius, a) /\ Outs(a) = ToSet(s.outs)
  BY ExtendsOne
<1>2. IsSeq(<<s>> \o b) /\ Len(<<s>> \o b) = 1 + Len(b) /\ (<<s>> \o b)[1] = s
  BY SeqFirst
<1> HIDE DEF a
<1>3. Extends(ius, a \o b) /\ Outs(a \o b) = Outs(a) \cup Outs(b)
  BY <1>1, ExtendsConcat, OutsConcat
<1> QED BY <1>1, <1>2, <1>3 DEF a

(* The IUs that a call makes for the operator above it.                    *)
LEMMA MadeDistinct ==
  ASSUME NEW c, ColumnsOK(c), IsSeq(MadeIUs(c))
  PROVE  /\ \A iu \in ToSet(MadeIUs(c)) : iu.op = c.op /\ iu.part \notin OwnParts
         /\ Distinct(MadeIUs(c))
<1> DEFINE made == MadeIUs(c)
<1>1. \A j \in DOMAIN made : /\ made[j].op = c.op /\ made[j].part \notin OwnParts
                             /\ \A k \in 1 .. j - 1 : made[k] # made[j]
  BY DEF ColumnsOK
<1>2. Len(made) \in Nat /\ DOMAIN made = 1 .. Len(made)
  BY SeqElements
<1>3. \A iu \in ToSet(made) : \E j \in 1 .. Len(made) : iu = made[j]
  BY SeqElements
<1> HIDE DEF made
<1>4. \A iu \in ToSet(made) : iu.op = c.op /\ iu.part \notin OwnParts
  BY <1>1, <1>2, <1>3
<1>5. ASSUME NEW j \in DOMAIN made, NEW k \in DOMAIN made, j # k
      PROVE  made[j] # made[k]
  <2>1. j \in 1 .. k - 1 \/ k \in 1 .. j - 1
    BY <1>2, <1>5
  <2> QED BY <1>1, <2>1
<1> QED BY <1>4, <1>5 DEF made, Distinct

(* A table scan reads nothing.                                             *)
LEMMA ScanAdds ==
  ASSUME NEW c, c.call = "TableScan", IsSeq(c.ius), ColumnsOK(c)
  PROVE  /\ Adds({}, c, ScanSubops(c))
         /\ Len(ScanSubops(c)) > 0 /\ ScanSubops(c)[1].ins = << >>
<1> DEFINE loop == Internal(c.op, "loop", "u8", 8)
           driver == Subop("TScanDriver", c.op, << >>, <<loop>>, << >>)
           q == c.ius
           f == [i \in DOMAIN q |-> Subop("TScanIUProvider", c.op, <<loop>>, <<q[i]>>, << >>)]
<1>1. MadeIUs(c) = q
  BY DEF MadeIUs
<1>2. loop.op = c.op /\ loop.part = "loop"
  BY OwnIUs
<1>3. driver.ins = << >> /\ driver.outs = <<loop>>
  BY SubopIUs
<1>4. /\ DOMAIN f = DOMAIN q /\ f = [i \in DOMAIN q |-> f[i]]
      /\ \A i \in DOMAIN q : f[i].ins = <<loop>> /\ f[i].outs = <<q[i]>>
  BY DEF Subop
<1>5. ScanSubops(c) = <<driver>> \o f
  BY DEF ScanSubops
<1> HIDE DEF loop, driver, f, q
<1>6. /\ \A iu \in ToSet(q) : iu.op = c.op /\ iu.part \notin OwnParts
      /\ Distinct(q) /\ IsSeq(q) /\ Len(q) \in Nat
  BY <1>1, MadeDistinct, SeqElements DEF q
<1>7. "loop" \in OwnParts /\ "lookup_left" \in OwnParts
  BY DEF OwnParts
<1>8. ToSet(driver.ins) = {} /\ ToSet(driver.outs) = {loop}
  BY <1>3, SeqNone, SeqOne
<1>9. IsSeq(f) /\ Len(f) = Len(q) /\ Extends({loop}, f) /\ Outs(f) = ToSet(q)
  <2>1. ReadOnly({loop}, q, f)
    BY <1>4, SeqOne DEF ReadOnly
  <2>2. ToSet(q) \cap {loop} = {}
    BY <1>2, <1>6, <1>7
  <2>3. ForEach(q, f) /\ ProvideOnly(q, f)
    BY <1>4, <1>6 DEF ForEach, ProvideOnly
  <2>4. Distinct(q)
    BY <1>6
  <2> QED BY ONLY <2>1, <2>2, <2>3, <2>4, ProvidesEach
<1> DEFINE b == <<driver>> \o f
<1>10. /\ IsSeq(b) /\ Extends({}, b) /\ Outs(b) = {loop} \cup ToSet(q)
       /\ Len(b) = 1 + Len(f) /\ b[1] = driver
  <2>1. /\ IsSeq(f) /\ Extends({} \cup ToSet(driver.outs), f)
        /\ ToSet(driver.ins) \subseteq {} /\ ToSet(driver.outs) \cap {} = {}
    BY <1>8, <1>9
  <2>2. /\ IsSeq(b) /\ Extends({}, b) /\ Outs(b) = ToSet(driver.outs) \cup Outs(f)
        /\ Len(b) = 1 + Len(f) /\ b[1] = driver
    BY ONLY <2>1, ExtendsFirst, Zenon
  <2> QED BY <1>8, <1>9, <2>2, Zenon
<1> HIDE DEF b
<1>11. \A iu \in Outs(b) : Owns(c, iu)
  BY <1>2, <1>6, <1>7, <1>10 DEF Owns
<1>12. Len(b) > 0 /\ ToSet(MadeIUs(c)) \subseteq Outs(b)
  BY <1>1, <1>6, <1>9, <1>10
<1> QED BY <1>3, <1>5, <1>10, <1>11, <1>12 DEF Adds, b

(* Where nothing that is provided belongs to the call.                     *)
NoneOwned(c, ius) == \A iu \in ius : ~Owns(c, iu)

(* A list of IUs made by index.                                            *)
LEMMA ListMade ==
  ASSUME NEW q, IsSeq(q), NEW f, f = [i \in DOMAIN q |-> f[i]]
  PROVE  IsSeq(f) /\ Len(f) = Len(q) /\ DOMAIN f = DOMAIN q
<1>1. Len(q) \in Nat /\ DOMAIN q = 1 .. Len(q)
  BY SeqElements
<1>2. DOMAIN f = DOMAIN q
  OBVIOUS
<1> QED BY <1>1, <1>2, SeqMade

(* What is computed is read by what is computed later.                     *)
LEMMA ExpressionAdds ==
  ASSUME NEW c, c.call = "ExpressionOp", IsSeq(c.nodes), ColumnsOK(c),
         NEW ius, NoneOwned(c, ius), ReadsOnly(c, ius)
  PROVE  Adds(ius, c, ExpressionSubops(c))
<1> DEFINE q == [i \in DOMAIN c.nodes |-> c.nodes[i].out]
           f == ExpressionSubops(c)
<1>1. MadeIUs(c) = q
  BY DEF MadeIUs
<1>2. Len(c.nodes) \in Nat /\ DOMAIN c.nodes = 1 .. Len(c.nodes)
  BY SeqElements
<1>3. /\ DOMAIN f = DOMAIN c.nodes /\ f = [i \in DOMAIN c.nodes |-> f[i]]
      /\ \A i \in DOMAIN c.nodes : f[i].ins = c.nodes[i].ins /\ f[i].outs = <<q[i]>>
  <2>1. DOMAIN f = DOMAIN c.nodes /\ f = [i \in DOMAIN c.nodes |-> f[i]]
    BY DEF ExpressionSubops
  <2>2. ASSUME NEW i \in DOMAIN c.nodes
        PROVE  f[i].ins = c.nodes[i].ins /\ f[i].outs = <<c.nodes[i].out>>
    BY SubopIUs DEF ExpressionSubops
  <2>3. \A i \in DOMAIN c.nodes : q[i] = c.nodes[i].out
    OBVIOUS
  <2> HIDE DEF f, q
  <2> QED BY <2>1, <2>2, <2>3
<1>4. /\ DOMAIN q = DOMAIN c.nodes /\ q = [i \in DOMAIN c.nodes |-> q[i]]
      /\ \A i \in DOMAIN c.nodes : q[i] = c.nodes[i].out
  OBVIOUS
<1>5. \A i \in DOMAIN c.nodes :
        ToSet(c.nodes[i].ins) \subseteq ius \cup {c.nodes[j].out : j \in 1 .. i - 1}
  BY DEF ReadsOnly
<1> HIDE DEF q, f
<1>6. IsSeq(f) /\ Len(f) = Len(c.nodes) /\ IsSeq(q) /\ Len(q) = Len(c.nodes)
  BY <1>3, <1>4, ListMade
<1>7. /\ \A iu \in ToSet(q) : iu.op = c.op /\ iu.part \notin OwnParts
      /\ Distinct(q)
  BY <1>1, <1>6, MadeDistinct
<1>8. "lookup_left" \in OwnParts
  BY DEF OwnParts
<1>9. \A iu \in ToSet(q) : Owns(c, iu)
  BY <1>7, <1>8 DEF Owns
<1>10. \A i \in 1 .. Len(f) : ToSet(f[i].outs) = {q[i]} /\ q[i] \in ToSet(q)
  BY <1>2, <1>3, <1>6, SeqOne, SeqElements
<1>11. ASSUME NEW i \in 1 .. Len(f)
       PROVE  /\ ToSet(f[i].ins) \subseteq ius \cup Provided(f, i)
              /\ ToSet(f[i].outs) \cap (ius \cup Provided(f, i)) = {}
  <2>1. \A j \in 1 .. i - 1 : j \in 1 .. Len(f) /\ j # i
    BY <1>2, <1>6
  <2>2. \A iu : iu \in Provided(f, i) <=> \E j \in 1 .. i - 1 : iu \in ToSet(f[j].outs)
    BY ProvidedElements
  <2>7. \A iu : \A j \in 1 .. i - 1 : iu \in ToSet(f[j].outs) <=> iu = q[j]
    BY <1>10, <2>1
  <2>3. \A iu : iu \in Provided(f, i) <=> \E j \in 1 .. i - 1 : iu = q[j]
    BY <2>2, <2>7, Zenon
  <2>4. ToSet(f[i].ins) \subseteq ius \cup Provided(f, i)
    <3>1. \A j \in 1 .. i - 1 : q[j] = c.nodes[j].out
      BY <1>2, <1>4, <1>6, <2>1
    <3>2. {c.nodes[j].out : j \in 1 .. i - 1} \subseteq Provided(f, i)
      BY <2>3, <3>1
    <3>3. ToSet(f[i].ins) \subseteq ius \cup {c.nodes[j].out : j \in 1 .. i - 1}
      BY <1>2, <1>3, <1>5, <1>6
    <3> QED BY <3>2, <3>3
  <2>5. q[i] \notin ius
    BY <1>9, <1>10 DEF NoneOwned
  <2>6. q[i] \notin Provided(f, i)
    <3>1. \A j \in 1 .. i - 1 : q[j] # q[i]
      BY <1>2, <1>4, <1>6, <1>7, <2>1 DEF Distinct
    <3> QED BY <2>3, <3>1
  <2> QED BY <1>10, <2>4, <2>5, <2>6
<1>12. Extends(ius, f)
  BY <1>11 DEF Extends
<1>13. Outs(f) = ToSet(q)
  <2>1. \A iu : iu \in Outs(f) <=> \E i \in 1 .. Len(f) : iu \in ToSet(f[i].outs)
    BY OutsElements
  <2>2. \A iu : iu \in ToSet(q) <=> \E i \in 1 .. Len(f) : iu = q[i]
    BY <1>6, SeqElements
  <2>3. \A iu : \A i \in 1 .. Len(f) : iu \in ToSet(f[i].outs) <=> iu = q[i]
    BY <1>10
  <2>4. \A iu : iu \in Outs(f) <=> iu \in ToSet(q)
    BY <2>1, <2>2, <2>3, Zenon
  <2> QED BY <2>4, Zenon
<1> QED BY <1>1, <1>6, <1>9, <1>12, <1>13 DEF Adds, f

(* Filters, of columns and of the rows of a join.                          *)
Filters(ius, cond, pseudo, from, to, q) ==
  /\ IsSeq(from) /\ q = [i \in DOMAIN from |-> to[i]] /\ Distinct(q)
  /\ cond \in ius /\ ToSet(from) \subseteq ius /\ pseudo \notin ius
  /\ ToSet(q) \cap (ius \cup {pseudo}) = {}
LEMMA FilterExtends ==
  ASSUME NEW op, NEW ty, NEW cond, NEW pseudo, NEW from, NEW to, NEW q,
         NEW ius, Filters(ius, cond, pseudo, from, to, q)
  PROVE  Gives(ius, FilterSubops(op, ty, cond, pseudo, from, to), {pseudo} \cup ToSet(q))
<1>0. /\ IsSeq(from) /\ q = [i \in DOMAIN from |-> to[i]] /\ Distinct(q)
      /\ cond \in ius /\ ToSet(from) \subseteq ius /\ pseudo \notin ius
      /\ ToSet(q) \cap (ius \cup {pseudo}) = {}
  BY DEF Filters
<1> DEFINE scope == Subop("ColumnFilterScope", op, <<cond>>, <<pseudo>>, << >>)
           f == [i \in DOMAIN from |->
                  Calling(IF ty = "ptr" /\ from[i] = cond THEN "filters_itself" ELSE "", ty,
                    Subop("ColumnFilterLogic", op, <<pseudo, from[i]>>, <<to[i]>>, << >>))]
<1>1. FilterSubops(op, ty, cond, pseudo, from, to) = <<scope>> \o f
  BY DEF FilterSubops
<1>2. ToSet(scope.ins) = {cond} /\ ToSet(scope.outs) = {pseudo}
  <2>1. scope.ins = <<cond>> /\ scope.outs = <<pseudo>>
    BY DEF Subop
  <2> QED BY <2>1, SeqOne
<1>3. ASSUME NEW i \in DOMAIN from
      PROVE  f[i].ins = <<pseudo, from[i]>> /\ f[i].outs = <<to[i]>>
  <2> DEFINE fct == IF ty = "ptr" /\ from[i] = cond THEN "filters_itself" ELSE ""
             ins == <<pseudo, from[i]>>
             outs == <<to[i]>>
  <2>1. f[i] = Calling(fct, ty, Subop("ColumnFilterLogic", op, ins, outs, << >>))
    BY Zenon
  <2> HIDE DEF f, fct, ins, outs
  <2>2. f[i].ins = ins /\ f[i].outs = outs
    BY <2>1 DEF Subop, Calling
  <2> QED BY <2>2 DEF ins, outs
<1>4. DOMAIN f = DOMAIN from /\ f = [i \in DOMAIN from |-> f[i]]
  OBVIOUS
<1> HIDE DEF scope, f
<1>5. DOMAIN q = DOMAIN from /\ \A i \in DOMAIN from : q[i] = to[i]
  BY <1>0
<1>6. IsSeq(q)
  BY <1>0 DEF Distinct
<1>7. ForEach(q, f) /\ ProvideOnly(q, f)
  <2>1. f = [i \in DOMAIN q |-> f[i]] /\ DOMAIN f = DOMAIN q
    BY <1>4, <1>5
  <2> QED BY <1>3, <1>5, <1>6, <2>1 DEF ForEach, ProvideOnly
<1> DEFINE more == ius \cup {pseudo}
<1>8. ReadOnly(more, q, f)
  <2>1. \A i \in DOMAIN from : from[i] \in ToSet(from)
    BY <1>0, SeqElements
  <2>2. \A i \in DOMAIN from : ToSet(f[i].ins) = {pseudo, from[i]}
    BY <1>3, SeqTwo
  <2> QED BY <1>0, <1>5, <2>1, <2>2 DEF ReadOnly
<1>9. ToSet(q) \cap more = {}
  BY <1>0
<1>10. IsSeq(f) /\ Extends(more, f) /\ Outs(f) = ToSet(q)
  <2> HIDE DEF more
  <2> QED BY ONLY <1>0, <1>7, <1>8, <1>9, ProvidesEach
<1>11. /\ IsSeq(f) /\ Extends(ius \cup ToSet(scope.outs), f)
       /\ ToSet(scope.ins) \subseteq ius /\ ToSet(scope.outs) \cap ius = {}
  BY <1>0, <1>2, <1>10
<1> DEFINE b == <<scope>> \o f
<1>12. IsSeq(b) /\ Extends(ius, b) /\ Outs(b) = ToSet(scope.outs) \cup Outs(f)
  BY ONLY <1>11, ExtendsFirst, Zenon
<1> HIDE DEF b
<1>13. IsSeq(b) /\ Extends(ius, b) /\ Outs(b) = {pseudo} \cup ToSet(q)
  BY <1>2, <1>10, <1>12
<1> QED BY <1>1, <1>13 DEF b, Gives

LEMMA FilterAdds ==
  ASSUME NEW c, c.call = "Filter", IsSeq(c.old), ColumnsOK(c),
         NEW ius, NoneOwned(c, ius), ReadsOnly(c, ius)
  PROVE  Adds(ius, c, FilterSubops(c.op, "bool", c.cond, FilterPseudo(c.op), c.old, c.new))
<1> DEFINE q == [i \in DOMAIN c.old |-> c.new[i]]
           pseudo == FilterPseudo(c.op)
           b == FilterSubops(c.op, "bool", c.cond, pseudo, c.old, c.new)
<1>1. MadeIUs(c) = q
  BY DEF MadeIUs
<1>2. IsSeq(q)
  <2>1. q = [i \in DOMAIN c.old |-> q[i]]
    OBVIOUS
  <2> HIDE DEF q
  <2> QED BY <2>1, ListMade
<1>3. pseudo.op = c.op /\ pseudo.part = "filter_pseudo"
  BY OwnIUs DEF FilterPseudo
<1>4. c.cond \in ius /\ ToSet(c.old) \subseteq ius
  BY DEF ReadsOnly
<1>5. q = [i \in DOMAIN c.old |-> c.new[i]]
  OBVIOUS
<1> HIDE DEF q, pseudo
<1>6. /\ \A iu \in ToSet(q) : iu.op = c.op /\ iu.part \notin OwnParts
      /\ Distinct(q)
  BY <1>1, <1>2, MadeDistinct
<1>7. "lookup_left" \in OwnParts /\ "filter_pseudo" \in OwnParts
  BY DEF OwnParts
<1>8. Owns(c, pseudo) /\ \A iu \in ToSet(q) : Owns(c, iu)
  BY <1>3, <1>6, <1>7 DEF Owns
<1>9. pseudo \notin ius /\ ToSet(q) \cap (ius \cup {pseudo}) = {}
  BY <1>3, <1>6, <1>7, <1>8 DEF NoneOwned
<1>10. IsSeq(b) /\ Extends(ius, b) /\ Outs(b) = {pseudo} \cup ToSet(q)
  <2>1. Filters(ius, c.cond, pseudo, c.old, c.new, q)
    BY <1>4, <1>5, <1>6, <1>9 DEF Filters
  <2>2. Gives(ius, b, {pseudo} \cup ToSet(q))
    BY <2>1, FilterExtends, Zenon
  <2> QED BY <2>2 DEF Gives
<1> HIDE DEF b
<1>11. Adds(ius, c, b)
  BY <1>1, <1>8, <1>10 DEF Adds
<1> QED BY <1>11 DEF b, pseudo

(* Packing a row, of a build side and of any other, and unpacking it.      *)
LEMMA PackSinks ==
  ASSUME NEW op, NEW row, IsSeq(row), NEW into, NEW ius, into \in ius, ToSet(row) \subseteq ius
  PROVE  /\ Gives(ius, Pack(op, row, into, NoPseudo(row)), {})
         /\ Len(row) > 0 => SinkLast(Pack(op, row, into, NoPseudo(row)))
<1> DEFINE f == Pack(op, row, into, NoPseudo(row))
<1>1. /\ f = [i \in DOMAIN row |-> f[i]] /\ DOMAIN f = DOMAIN row
      /\ \A i \in DOMAIN row : f[i].ins = <<row[i], into>> /\ f[i].outs = << >>
  <2>1. f = [i \in DOMAIN row |-> f[i]] /\ DOMAIN f = DOMAIN row
    BY DEF Pack
  <2>2. ASSUME NEW i \in DOMAIN row
        PROVE  f[i].ins = <<row[i], into>> /\ f[i].outs = << >>
    <3> DEFINE ins == <<row[i], into>>
               bytes == BytesOf(0, row, i)
    <3>1. f[i] = Subop("KeyPacker", op, ins, << >>, bytes)
      BY DEF Pack, NoPseudo
    <3> HIDE DEF f, ins, bytes
    <3>2. /\ Subop("KeyPacker", op, ins, << >>, bytes).ins = ins
          /\ Subop("KeyPacker", op, ins, << >>, bytes).outs = << >>
      BY DEF Subop
    <3>3. f[i].ins = ins /\ f[i].outs = << >>
      BY <3>1, <3>2, Zenon
    <3> QED BY <3>3 DEF ins
  <2> HIDE DEF f
  <2> QED BY <2>1, <2>2
<1>2. \A i \in DOMAIN row : row[i] \in ToSet(row)
  BY SeqElements
<1> HIDE DEF f
<1>3. ForEach(row, f) /\ SinkOnly(row, f)
  BY <1>1 DEF ForEach, SinkOnly
<1>4. ReadOnly(ius, row, f)
  <2>1. ASSUME NEW i \in DOMAIN row PROVE ToSet(f[i].ins) \subseteq ius
    <3>1. f[i].ins = <<row[i], into>> /\ ToSet(<<row[i], into>>) = {row[i], into}
      BY <1>1, SeqTwo
    <3> QED BY <1>2, <3>1
  <2> QED BY <2>1 DEF ReadOnly
<1>5. /\ IsSeq(f) /\ Len(f) = Len(row) /\ Extends(ius, f) /\ Outs(f) = {}
      /\ Len(f) > 0 => f[Len(f)].outs = << >>
  BY ONLY <1>3, <1>4, ProvidesNone
<1> QED BY <1>5 DEF f, Gives, SinkLast

LEMMA PseudoDistinct ==
  ASSUME NEW op, NEW row, IsSeq(row)
  PROVE  /\ IsSeq(PseudoIUs(op, row)) /\ Distinct(PseudoIUs(op, row))
         /\ \A iu \in ToSet(PseudoIUs(op, row)) : iu.op = op /\ iu.part = "pseudo"
<1> DEFINE q == PseudoIUs(op, row)
<1>1. DOMAIN q = DOMAIN row /\ q = [i \in DOMAIN row |-> q[i]]
      /\ \A i \in DOMAIN row : q[i] = Pseudo(op, i)
  BY DEF PseudoIUs
<1> HIDE DEF q
<1>2. IsSeq(q)
  BY <1>1, ListMade
<1>3. \A i \in DOMAIN row : q[i].id[2] = i /\ q[i].op = op /\ q[i].part = "pseudo"
  BY <1>1, OwnIUs
<1>4. \A j, k \in DOMAIN q : j # k => q[j] # q[k]
  BY <1>1, <1>3
<1>5. \A iu \in ToSet(q) : iu.op = op /\ iu.part = "pseudo"
  BY <1>1, <1>2, <1>3, SeqElements
<1> QED BY <1>2, <1>4, <1>5 DEF q, Distinct

LEMMA PackGives ==
  ASSUME NEW op, NEW row, IsSeq(row), NEW into, NEW ius, into \in ius, ToSet(row) \subseteq ius,
         ToSet(PseudoIUs(op, row)) \cap ius = {}
  PROVE  Gives(ius, Pack(op, row, into, PseudoFor(op, row)), ToSet(PseudoIUs(op, row)))
<1> DEFINE f == Pack(op, row, into, PseudoFor(op, row))
           q == PseudoIUs(op, row)
<1>1. /\ f = [i \in DOMAIN row |-> f[i]] /\ DOMAIN f = DOMAIN row
      /\ \A i \in DOMAIN row : f[i].ins = <<row[i], into>> /\ f[i].outs = <<q[i]>>
  <2>1. f = [i \in DOMAIN row |-> f[i]] /\ DOMAIN f = DOMAIN row
    BY DEF Pack
  <2>2. ASSUME NEW i \in DOMAIN row
        PROVE  f[i].ins = <<row[i], into>> /\ f[i].outs = <<Pseudo(op, i)>>
    <3> DEFINE ins == <<row[i], into>>
               outs == <<Pseudo(op, i)>>
               bytes == BytesOf(0, row, i)
    <3>1. f[i] = Subop("KeyPacker", op, ins, outs, bytes)
      BY DEF Pack, PseudoFor
    <3> HIDE DEF f, ins, outs, bytes
    <3>2. /\ Subop("KeyPacker", op, ins, outs, bytes).ins = ins
          /\ Subop("KeyPacker", op, ins, outs, bytes).outs = outs
      BY DEF Subop
    <3>3. f[i].ins = ins /\ f[i].outs = outs
      BY <3>1, <3>2, Zenon
    <3> QED BY <3>3 DEF ins, outs
  <2>3. \A i \in DOMAIN row : q[i] = Pseudo(op, i)
    BY DEF PseudoIUs
  <2> HIDE DEF f, q
  <2> QED BY <2>1, <2>2, <2>3
<1>2. \A i \in DOMAIN row : row[i] \in ToSet(row)
  BY SeqElements
<1>3. DOMAIN q = DOMAIN row
  BY DEF PseudoIUs
<1>4. IsSeq(q) /\ Distinct(q)
  BY PseudoDistinct
<1> HIDE DEF f, q
<1>5. ForEach(q, f) /\ ProvideOnly(q, f)
  BY <1>1, <1>3, <1>4 DEF ForEach, ProvideOnly
<1>6. ReadOnly(ius, q, f)
  <2>1. ASSUME NEW i \in DOMAIN row PROVE ToSet(f[i].ins) \subseteq ius
    <3>1. f[i].ins = <<row[i], into>> /\ ToSet(<<row[i], into>>) = {row[i], into}
      BY <1>1, SeqTwo
    <3> QED BY <1>2, <3>1
  <2> QED BY <1>3, <2>1 DEF ReadOnly
<1>7. ToSet(q) \cap ius = {}
  BY DEF q
<1>8. IsSeq(f) /\ Extends(ius, f) /\ Outs(f) = ToSet(q)
  BY ONLY <1>4, <1>5, <1>6, <1>7, ProvidesEach
<1> QED BY <1>8 DEF f, q, Gives

LEMMA UnpackGives ==
  ASSUME NEW op, NEW row, Distinct(row), NEW from, NEW ius, from \in ius, ToSet(row) \cap ius = {}
  PROVE  Gives(ius, Unpack(op, from, row), ToSet(row))
<1> DEFINE f == Unpack(op, from, row)
<1>1. /\ f = [i \in DOMAIN row |-> f[i]] /\ DOMAIN f = DOMAIN row
      /\ \A i \in DOMAIN row : f[i].ins = <<from>> /\ f[i].outs = <<row[i]>>
  <2>1. f = [i \in DOMAIN row |-> f[i]] /\ DOMAIN f = DOMAIN row
    BY DEF Unpack
  <2>2. ASSUME NEW i \in DOMAIN row
        PROVE  f[i].ins = <<from>> /\ f[i].outs = <<row[i]>>
    <3> DEFINE ins == <<from>>
               outs == <<row[i]>>
               bytes == BytesOf(0, row, i)
    <3>1. f[i] = Subop("KeyUnpacker", op, ins, outs, bytes)
      BY DEF Unpack
    <3> HIDE DEF f, ins, outs, bytes
    <3>2. /\ Subop("KeyUnpacker", op, ins, outs, bytes).ins = ins
          /\ Subop("KeyUnpacker", op, ins, outs, bytes).outs = outs
      BY DEF Subop
    <3>3. f[i].ins = ins /\ f[i].outs = outs
      BY <3>1, <3>2, Zenon
    <3> QED BY <3>3 DEF ins, outs
  <2> HIDE DEF f
  <2> QED BY <2>1, <2>2
<1> HIDE DEF f
<1>2. ForEach(row, f) /\ ProvideOnly(row, f)
  BY <1>1 DEF ForEach, ProvideOnly, Distinct
<1>3. ReadOnly(ius, row, f)
  BY <1>1, SeqOne DEF ReadOnly
<1>4. Distinct(row) /\ ToSet(row) \cap ius = {}
  OBVIOUS
<1>5. IsSeq(f) /\ Extends(ius, f) /\ Outs(f) = ToSet(row)
  BY ONLY <1>2, <1>3, <1>4, ProvidesEach
<1> QED BY <1>5 DEF f, Gives

(* One suboperator, and suboperators one after the other.                  *)
LEMMA GivesOne ==
  ASSUME NEW ius, NEW s, NEW x, ToSet(s.ins) \subseteq ius, ToSet(s.outs) = x, x \cap ius = {}
  PROVE  Gives(ius, <<s>>, x)
BY ExtendsOne DEF Gives

LEMMA GivesThen ==
  ASSUME NEW ius, NEW a, NEW b, NEW x, NEW y, Gives(ius, a, x), Gives(ius \cup x, b, y)
  PROVE  /\ Gives(ius, a \o b, x \cup y)
         /\ SinkLast(b) => SinkLast(a \o b)
         /\ Len(a) > 0 => Len(a \o b) > 0 /\ (a \o b)[1] = a[1]
<1>1. /\ IsSeq(a) /\ IsSeq(b) /\ Extends(ius, a) /\ Extends(ius \cup Outs(a), b)
      /\ Outs(a) = x /\ Outs(b) = y
  BY DEF Gives
<1>2. Extends(ius, a \o b)
  BY ONLY <1>1, ExtendsConcat
<1>3. Outs(a \o b) = x \cup y
  BY <1>1, OutsConcat
<1> DEFINE c == a \o b
           n == Len(a)
           m == Len(b)
<1>4. /\ n \in Nat /\ m \in Nat /\ IsSeq(c) /\ Len(c) = n + m
      /\ \A k \in 1 .. n : c[k] = a[k]
      /\ \A k \in n + 1 .. n + m : c[k] = b[k - n]
  BY <1>1, SeqConcat, SeqElements
<1>5. Gives(ius, c, x \cup y)
  BY <1>2, <1>3, <1>4 DEF Gives
<1> HIDE DEF c, n, m
<1>6. ASSUME m > 0, b[m].outs = << >> PROVE Len(c) > 0 /\ c[Len(c)].outs = << >>
  <2>1. n + m \in n + 1 .. n + m /\ (n + m) - n = m
    BY <1>4, <1>6
  <2>2. c[n + m] = b[m]
    BY <1>4, <2>1
  <2> QED BY <1>4, <1>6, <2>2
<1>7. n > 0 => Len(c) > 0 /\ c[1] = a[1]
  BY <1>4
<1> QED BY <1>5, <1>6, <1>7 DEF SinkLast, c, n, m

(* Materialized rows: the last suboperator packs a key.                    *)
LEMMA SeqNotEmpty ==
  ASSUME NEW q, IsSeq(q), q # << >>
  PROVE  Len(q) \in Nat /\ Len(q) > 0 /\ 1 \in DOMAIN q
<1> DEFINE S == ToSet(q)
<1>1. q \in Seq(S)
  BY DEF IsSeq
<1> HIDE DEF S
<1>2. Len(q) \in Nat /\ Len(q) > 0
  BY <1>1
<1> QED BY <1>2, SeqElements

LEMMA BuildAdds ==
  ASSUME NEW c, c.call = "JoinBuild", IsSeq(c.row), ColumnsOK(c),
         NEW ius, NoneOwned(c, ius), ReadsOnly(c, ius)
  PROVE  Adds(ius, c, BuildSubops(c)) /\ SinkLast(BuildSubops(c))
<1> DEFINE slot == Pointer(c.op, "lookup_left")
           outs == <<slot>>
           row == c.row
           s == Calling("materialize_tuple", "",
                        Subop("materialize_tuple", c.op, row, outs, << >>))
           f == Pack(c.op, row, slot, NoPseudo(row))
<1>1. BuildSubops(c) = <<s>> \o f
  BY DEF BuildSubops
<1>2. slot.op = c.op /\ slot.part = "lookup_left"
  BY OwnIUs
<1>3. Owns(c, slot)
  BY <1>2 DEF Owns
<1>4. slot \notin ius
  BY <1>3 DEF NoneOwned
<1>5. ToSet(row) \subseteq ius
  BY DEF ReadsOnly
<1>6. IsSeq(row) /\ Len(row) > 0
  <2>1. row # << >>
    BY DEF ColumnsOK
  <2> QED BY <2>1, SeqNotEmpty
<1> HIDE DEF slot, row
<1>7. s.ins = row /\ s.outs = outs
  <2> HIDE DEF outs
  <2> QED BY DEF Subop, Calling
<1>8. ToSet(outs) = {slot}
  BY SeqOne
<1> HIDE DEF s, f, outs
<1>9. Gives(ius, <<s>>, {slot})
  <2>1. ToSet(s.ins) \subseteq ius /\ ToSet(s.outs) = {slot} /\ {slot} \cap ius = {}
    BY <1>4, <1>5, <1>7, <1>8
  <2> QED BY ONLY <2>1, GivesOne
<1>10. Gives(ius \cup {slot}, f, {}) /\ SinkLast(f)
  <2>1. slot \in ius \cup {slot} /\ ToSet(row) \subseteq ius \cup {slot}
    BY <1>5
  <2> QED BY <1>6, <2>1, PackSinks DEF f
<1> DEFINE b == <<s>> \o f
<1>11. Gives(ius, b, {slot} \cup {}) /\ SinkLast(b)
  BY ONLY <1>9, <1>10, GivesThen
<1> HIDE DEF b
<1>12. IsSeq(b) /\ Extends(ius, b) /\ Outs(b) = {slot}
  BY <1>11 DEF Gives
<1>13. ToSet(MadeIUs(c)) = {}
  BY SeqNone DEF MadeIUs
<1>14. Adds(ius, c, b)
  BY <1>3, <1>12, <1>13 DEF Adds
<1> QED BY <1>1, <1>11, <1>14 DEF b

(* The printer reads columns.                                              *)
LEMMA PrintAdds ==
  ASSUME NEW c, c.call = "Print", IsSeq(c.ius), ColumnsOK(c),
         NEW ius, ReadsOnly(c, ius)
  PROVE  Adds(ius, c, PrintSubops(c)) /\ SinkLast(PrintSubops(c))
<1> DEFINE q == c.ius
           f == PrintSubops(c)
<1>1. f = [i \in DOMAIN q |-> f[i]] /\ DOMAIN f = DOMAIN q
  BY DEF PrintSubops
<1>2. ASSUME NEW i \in DOMAIN q
      PROVE  f[i].ins = <<q[i]>> /\ f[i].outs = << >>
  <2> DEFINE ins == <<q[i]>>
  <2>1. f[i] = Subop("FuseChunkSink", c.op, ins, << >>, << >>)
    BY DEF PrintSubops
  <2> HIDE DEF f, ins
  <2>2. /\ Subop("FuseChunkSink", c.op, ins, << >>, << >>).ins = ins
        /\ Subop("FuseChunkSink", c.op, ins, << >>, << >>).outs = << >>
    BY DEF Subop
  <2>3. f[i].ins = ins /\ f[i].outs = << >>
    BY <2>1, <2>2, Zenon
  <2> QED BY <2>3 DEF ins
<1>3. ToSet(q) \subseteq ius
  BY DEF ReadsOnly
<1>4. IsSeq(q) /\ Len(q) > 0
  <2>1. q # << >>
    BY DEF ColumnsOK
  <2> QED BY <2>1, SeqNotEmpty
<1>5. ToSet(MadeIUs(c)) = {}
  BY SeqNone DEF MadeIUs
<1> HIDE DEF q, f
<1>6. \A i \in DOMAIN q : q[i] \in ToSet(q)
  BY <1>4, SeqElements
<1>7. ForEach(q, f) /\ SinkOnly(q, f)
  BY <1>1, <1>2, <1>4 DEF ForEach, SinkOnly
<1>8. ReadOnly(ius, q, f)
  <2>1. ASSUME NEW i \in DOMAIN q PROVE ToSet(f[i].ins) \subseteq ius
    <3>1. f[i].ins = <<q[i]>> /\ ToSet(<<q[i]>>) = {q[i]}
      BY <1>2, SeqOne
    <3> QED BY <1>3, <1>6, <3>1
  <2> QED BY <2>1 DEF ReadOnly
<1>9. /\ IsSeq(f) /\ Len(f) = Len(q) /\ Extends(ius, f) /\ Outs(f) = {}
      /\ Len(f) > 0 => f[Len(f)].outs = << >>
  BY ONLY <1>7, <1>8, ProvidesNone
<1>10. Adds(ius, c, f) /\ SinkLast(f)
  BY <1>4, <1>5, <1>9 DEF Adds, SinkLast
<1> QED BY <1>10 DEF f

(* Two lists of distinct IUs, if all are distinct.                         *)
LEMMA DistinctConcat ==
  ASSUME NEW a, NEW b, IsSeq(a), IsSeq(b), Distinct(a \o b)
  PROVE  Distinct(a) /\ Distinct(b) /\ ToSet(a) \cap ToSet(b) = {}
<1> DEFINE c == a \o b
           n == Len(a)
           m == Len(b)
<1>1. /\ n \in Nat /\ m \in Nat /\ IsSeq(c) /\ Len(c) = n + m
      /\ DOMAIN a = 1 .. n /\ DOMAIN b = 1 .. m
      /\ \A k \in 1 .. n : c[k] = a[k]
      /\ \A k \in n + 1 .. n + m : c[k] = b[k - n]
  BY SeqConcat, SeqElements
<1>2. DOMAIN c = 1 .. n + m
  BY <1>1, SeqElements
<1>3. \A j, k \in DOMAIN c : j # k => c[j] # c[k]
  BY DEF Distinct
<1>4. \A s : s \in ToSet(a) => \E k \in 1 .. n : s = a[k]
  BY SeqElements
<1>5. \A s : s \in ToSet(b) => \E k \in 1 .. m : s = b[k]
  BY SeqElements
<1> HIDE DEF c, n, m
<1>6. \A k \in 1 .. n : k \in 1 .. n + m
  BY <1>1
<1>7. \A k \in 1 .. m : n + k \in n + 1 .. n + m /\ n + k \in 1 .. n + m /\ (n + k) - n = k
  BY <1>1
<1>8. \A k \in 1 .. m : c[n + k] = b[k]
  BY <1>1, <1>7
<1>9. Distinct(a)
  BY <1>1, <1>2, <1>3, <1>6 DEF Distinct
<1>10. Distinct(b)
  <2>1. ASSUME NEW j \in 1 .. m, NEW k \in 1 .. m, j # k PROVE b[j] # b[k]
    <3>1. n + j # n + k
      BY <1>1, <2>1
    <3>2. c[n + j] # c[n + k]
      BY <1>2, <1>3, <1>7, <3>1
    <3> QED BY <1>8, <3>2
  <2> QED BY <1>1, <2>1 DEF Distinct
<1>11. ASSUME NEW s \in ToSet(a), s \in ToSet(b) PROVE FALSE
  <2>1. PICK j \in 1 .. n : s = a[j]
    BY <1>4
  <2>2. PICK k \in 1 .. m : s = b[k]
    BY <1>5, <1>11
  <2>3. j # n + k
    BY <1>1
  <2>4. c[j] # c[n + k]
    BY <1>2, <1>3, <1>6, <1>7, <2>3
  <2> QED BY <1>1, <1>8, <2>1, <2>2, <2>4
<1> QED BY <1>9, <1>10, <1>11

(* No suboperators provide nothing.                                        *)
LEMMA GivesNone ==
  ASSUME NEW ius
  PROVE  Gives(ius, << >>, {})
<1>1. IsSeq(<< >>) /\ Len(<< >>) = 0
  BY SeqNone
<1> DEFINE b == << >>
<1>2. Len(b) = 0 /\ IsSeq(b)
  BY <1>1
<1> HIDE DEF b
<1>3. Extends(ius, b) /\ Outs(b) = {}
  BY <1>2 DEF Extends, Outs
<1> QED BY <1>2, <1>3 DEF Gives, b

(* Two suboperators, one after the other.                                  *)
LEMMA SeqPair ==
  ASSUME NEW a, NEW b
  PROVE  <<a>> \o <<b>> = <<a, b>>
<1> DEFINE S == {a, b}
           p == <<a>>
           q == <<b>>
           c == p \o q
           d == <<a, b>>
<1>1. p \in Seq(S) /\ q \in Seq(S) /\ Len(p) = 1 /\ Len(q) = 1 /\ p[1] = a /\ q[1] = b
  OBVIOUS
<1>2. d \in Seq(S) /\ Len(d) = 2 /\ d[1] = a /\ d[2] = b /\ DOMAIN d = 1 .. 2
  OBVIOUS
<1>3. c \in Seq(S) /\ Len(c) = 2 /\ c[1] = a /\ c[2] = b /\ DOMAIN c = 1 .. 2
  <2> HIDE DEF S, p, q
  <2>1. c \in Seq(S) /\ Len(c) = 2 /\ c[1] = p[1] /\ c[2] = q[1]
    BY <1>1 DEF p, q
  <2> HIDE DEF c
  <2> QED BY <1>1, <2>1
<1> HIDE DEF c, d, S
<1>4. c = [k \in 1 .. 2 |-> c[k]] /\ d = [k \in 1 .. 2 |-> d[k]]
  BY <1>2, <1>3
<1>5. \A k \in 1 .. 2 : c[k] = d[k]
  BY <1>2, <1>3
<1>6. c = d
  BY <1>4, <1>5
<1> QED BY <1>6 DEF c, d

(* The lookup of a join, of all types.                                     *)
LookupOuts(c) ==
  ({ScratchPad(c)} \cup ToSet(PseudoIUs(c.op, c.row)))
    \cup ({Internal(c.op, "hash_right", "u8", 8)} \cup {LookupResult(c)})
LEMMA LookupOwned ==
  ASSUME NEW c, IsSeq(c.row), NEW iu \in LookupOuts(c)
  PROVE  iu.op = c.op /\ iu.part \in {"scratch_pad_right", "pseudo", "hash_right", "lookup_right"}
BY OwnIUs, PseudoDistinct DEF LookupOuts, ScratchPad, LookupResult

LEMMA LookupGives ==
  ASSUME NEW c, IsSeq(c.row), NEW ius, ToSet(c.row) \subseteq ius, LookupOuts(c) \cap ius = {}
  PROVE  Gives(ius, LookupSubops(c), LookupOuts(c))
<1> DEFINE row == c.row
           pad == ScratchPad(c)
           result == LookupResult(c)
           hash == Internal(c.op, "hash_right", "u8", 8)
           pseudo == PseudoIUs(c.op, row)
           outs1 == <<pad>>
           ins2 == <<pad>> \o pseudo
           outs2 == <<hash>>
           ins3 == <<pad, hash>>
           outs3 == <<result>>
           s1 == Subop("ScratchPad", c.op, << >>, outs1, << >>)
           s2 == Calling(HashFunction(c.keyWidth), "",
                         Subop("hash_and_prefetch", c.op, ins2, outs2, << >>))
           s3 == Calling(LookupFunction(c), "",
                         Subop("lookup_with_hash", c.op, ins3, outs3, << >>))
           f == Pack(c.op, row, pad, PseudoFor(c.op, row))
<1>1. LookupSubops(c) = (<<s1>> \o f) \o <<s2, s3>>
  BY DEF LookupSubops
<1>2. /\ pad.part = "scratch_pad_right" /\ hash.part = "hash_right" /\ result.part = "lookup_right"
      /\ IsSeq(pseudo) /\ \A iu \in ToSet(pseudo) : iu.part = "pseudo"
  BY OwnIUs, PseudoDistinct DEF ScratchPad, LookupResult
<1>3. LookupOuts(c) = ({pad} \cup ToSet(pseudo)) \cup ({hash} \cup {result})
  BY DEF LookupOuts
<1>4. s1.ins = << >> /\ s1.outs = outs1
  <2> HIDE DEF outs1
  <2> QED BY DEF Subop
<1>5. s2.ins = ins2 /\ s2.outs = outs2 /\ s3.ins = ins3 /\ s3.outs = outs3
  <2> DEFINE fct2 == HashFunction(c.keyWidth)
             fct3 == LookupFunction(c)
  <2> HIDE DEF ins2, outs2, ins3, outs3, fct2, fct3
  <2> QED BY DEF Subop, Calling
<1> HIDE DEF s1, s2, s3, pad, result, hash, pseudo, row
<1>6. /\ ToSet(outs1) = {pad} /\ ToSet(ins2) = {pad} \cup ToSet(pseudo) /\ ToSet(outs2) = {hash}
      /\ ToSet(ins3) = {pad, hash} /\ ToSet(outs3) = {result}
  <2>1. ToSet(outs1) = {pad} /\ IsSeq(outs1) /\ ToSet(outs2) = {hash} /\ ToSet(outs3) = {result}
    BY SeqOne
  <2>2. ToSet(ins3) = {pad, hash}
    BY SeqTwo
  <2>3. ins2 = outs1 \o pseudo
    OBVIOUS
  <2> HIDE DEF outs1, outs2, outs3, ins2, ins3
  <2>4. ToSet(ins2) = {pad} \cup ToSet(pseudo)
    BY <1>2, <2>1, <2>3, SeqConcat
  <2> QED BY <2>1, <2>2, <2>4
<1> HIDE DEF outs1, outs2, outs3, ins2, ins3
<1>7. Gives(ius, <<s1>>, {pad})
  <2>1. ToSet(s1.ins) \subseteq ius /\ ToSet(s1.outs) = {pad} /\ {pad} \cap ius = {}
    BY <1>3, <1>4, <1>6, SeqNone
  <2> QED BY ONLY <2>1, GivesOne
<1>8. Gives(ius \cup {pad}, f, ToSet(pseudo))
  <2>1. /\ pad \in ius \cup {pad} /\ ToSet(row) \subseteq ius \cup {pad} /\ IsSeq(row)
        /\ ToSet(PseudoIUs(c.op, row)) \cap (ius \cup {pad}) = {}
    BY <1>2, <1>3 DEF row, pseudo
  <2> QED BY <2>1, PackGives DEF f, pseudo
<1> DEFINE ius3 == ius \cup ({pad} \cup ToSet(pseudo))
           ius4 == ius3 \cup {hash}
<1>9. Gives(ius3, <<s2>>, {hash})
  <2>1. ToSet(s2.ins) \subseteq ius3 /\ ToSet(s2.outs) = {hash} /\ {hash} \cap ius3 = {}
    BY <1>2, <1>3, <1>5, <1>6
  <2> HIDE DEF ius3
  <2> QED BY ONLY <2>1, GivesOne
<1>10. Gives(ius4, <<s3>>, {result})
  <2>1. ToSet(s3.ins) \subseteq ius4 /\ ToSet(s3.outs) = {result} /\ {result} \cap ius4 = {}
    BY <1>2, <1>3, <1>5, <1>6
  <2> HIDE DEF ius4
  <2> QED BY ONLY <2>1, GivesOne
<1> HIDE DEF f
<1>11. Gives(ius, <<s1>> \o f, {pad} \cup ToSet(pseudo))
  BY ONLY <1>7, <1>8, GivesThen
<1>12. Gives(ius3, <<s2>> \o <<s3>>, {hash} \cup {result})
  <2> HIDE DEF ius3
  <2> QED BY ONLY <1>9, <1>10, GivesThen
<1> DEFINE a == <<s1>> \o f
           b == <<s2>> \o <<s3>>
           x == {pad} \cup ToSet(pseudo)
           y == {hash} \cup {result}
<1>13. <<s2>> \o <<s3>> = <<s2, s3>>
  BY SeqPair
<1>14. Gives(ius, a, x) /\ Gives(ius \cup x, b, y)
  BY <1>11, <1>12
<1> HIDE DEF a, b, x, y
<1>15. Gives(ius, a \o b, x \cup y)
  BY ONLY <1>14, GivesThen
<1> QED BY <1>1, <1>3, <1>13, <1>15 DEF a, b, x, y

(* One and two IUs.                                                        *)
LEMMA DistinctFew ==
  ASSUME NEW a
  PROVE  Distinct(<<a>>) /\ \A b : a # b => Distinct(<<a, b>>)
<1>1. Distinct(<<a>>)
  <2>1. \A j, k \in DOMAIN <<a>> : j = k
    OBVIOUS
  <2> DEFINE q == <<a>>
  <2>2. IsSeq(q)
    BY SeqOne
  <2> HIDE DEF q
  <2> QED BY <2>1, <2>2 DEF q, Distinct
<1>2. ASSUME NEW b, a # b PROVE Distinct(<<a, b>>)
  <2>1. \A j, k \in DOMAIN <<a, b>> : j # k => <<a, b>>[j] # <<a, b>>[k]
    <3>1. DOMAIN <<a, b>> = {1, 2} /\ <<a, b>>[1] = a /\ <<a, b>>[2] = b
      OBVIOUS
    <3> QED BY <1>2, <3>1
  <2> DEFINE q == <<a, b>>
  <2>2. IsSeq(q)
    BY SeqTwo
  <2> HIDE DEF q
  <2> QED BY <2>1, <2>2 DEF q, Distinct
<1> QED BY <1>1, <1>2

(* The rows of a join are filtered by the result of the lookup. Only those *)
(* of the build side go on after a semi join.                              *)
MatchOuts(c) ==
  ({FilterPseudo(c.op)} \cup ({Pointer(c.op, "filtered_build")}
     \cup (IF c.type = "LeftSemi" THEN {} ELSE {Pointer(c.op, "filtered_probe")})))
    \cup (ToSet(c.outLeft) \cup ToSet(c.outRight))
LEMMA MatchGives ==
  ASSUME NEW c, IsSeq(c.outLeft), IsSeq(c.outRight), Distinct(c.outLeft \o c.outRight),
         \A iu \in ToSet(c.outLeft) \cup ToSet(c.outRight) : iu.part \notin OwnParts,
         c.type = "LeftSemi" => c.outRight = << >>,
         NEW ius, {LookupResult(c), ScratchPad(c)} \subseteq ius, MatchOuts(c) \cap ius = {}
  PROVE  Gives(ius, MatchSubops(c), MatchOuts(c))
<1> DEFINE result == LookupResult(c)
           pad == ScratchPad(c)
           build == Pointer(c.op, "filtered_build")
           probe == Pointer(c.op, "filtered_probe")
           pseudo == FilterPseudo(c.op)
           left == c.outLeft
           right == c.outRight
           none == << >>
           from == <<result>> \o (IF c.type = "LeftSemi" THEN << >> ELSE <<pad>>)
           to == <<build>> \o (IF c.type = "LeftSemi" THEN << >> ELSE <<probe>>)
           filter == FilterSubops(c.op, "ptr", result, pseudo, from, to)
           semi == c.type = "LeftSemi"
           kept == {build} \cup (IF semi THEN {} ELSE {probe})
           some == ius \cup ({pseudo} \cup kept)
           more == some \cup ToSet(left)
<1>1. MatchSubops(c) = (filter \o Unpack(c.op, build, left)) \o Unpack(c.op, probe, right)
  BY DEF MatchSubops
<1>2. /\ build.part = "filtered_build" /\ probe.part = "filtered_probe"
      /\ pseudo.part = "filter_pseudo"
  BY ONLY OwnIUs DEF FilterPseudo
<1>3. MatchOuts(c) = ({pseudo} \cup kept) \cup (ToSet(left) \cup ToSet(right))
  BY DEF MatchOuts
<1>4. Distinct(left) /\ Distinct(right) /\ ToSet(left) \cap ToSet(right) = {}
  BY DistinctConcat
<1>5. {"filtered_build", "filtered_probe", "filter_pseudo"} \subseteq OwnParts
  BY DEF OwnParts
<1>6. /\ \A iu \in ToSet(left) \cup ToSet(right) : iu.part \notin OwnParts
      /\ result \in ius /\ pad \in ius /\ MatchOuts(c) \cap ius = {}
      /\ semi => right = none
  OBVIOUS
<1> HIDE DEF result, pad, build, probe, pseudo, left, right
<1>7. Gives(ius, filter, {pseudo} \cup kept)
  <2>1. CASE semi
    <3>1. from = <<result>> /\ to = <<build>> /\ kept = {build}
      BY <2>1
    <3> DEFINE q == to
    <3>2. IsSeq(from) /\ ToSet(from) = {result} /\ ToSet(to) = {build}
      BY <3>1, SeqOne
    <3>3. q = [i \in DOMAIN from |-> to[i]]
      BY <3>1
    <3>4. Distinct(q)
      BY <3>1, DistinctFew
    <3>5. Filters(ius, result, pseudo, from, to, to)
      <4> HIDE DEF from, to
      <4>1. ToSet(to) \cap (ius \cup {pseudo}) = {} /\ pseudo \notin ius
        BY <1>2, <1>3, <1>6, <3>1, <3>2
      <4> QED BY <1>6, <3>2, <3>3, <3>4, <4>1 DEF Filters
    <3> HIDE DEF from, to
    <3>6. Gives(ius, filter, {pseudo} \cup ToSet(to))
      BY <3>5, FilterExtends, Zenon
    <3> QED BY <3>1, <3>2, <3>6
  <2>2. CASE ~semi
    <3>1. from = <<result, pad>> /\ to = <<build, probe>> /\ kept = {build, probe}
      BY <2>2, SeqPair
    <3>2. IsSeq(from) /\ ToSet(from) = {result, pad} /\ IsSeq(to) /\ ToSet(to) = {build, probe}
      <4> HIDE DEF from, to
      <4> QED BY <3>1, SeqTwo
    <3>3. to = [i \in DOMAIN from |-> to[i]]
      BY <3>1
    <3>4. Distinct(to)
      <4>1. build # probe
        BY <1>2
      <4> HIDE DEF to
      <4> QED BY <3>1, <4>1, DistinctFew
    <3>5. Filters(ius, result, pseudo, from, to, to)
      <4> HIDE DEF from, to
      <4>1. ToSet(to) \cap (ius \cup {pseudo}) = {} /\ pseudo \notin ius
        BY <1>2, <1>3, <1>6, <3>1, <3>2
      <4> QED BY <1>6, <3>2, <3>3, <3>4, <4>1 DEF Filters
    <3> HIDE DEF from, to
    <3>6. Gives(ius, filter, {pseudo} \cup ToSet(to))
      BY <3>5, FilterExtends, Zenon
    <3> QED BY <3>1, <3>2, <3>6
  <2> QED BY <2>1, <2>2
<1>8. Gives(some, Unpack(c.op, build, left), ToSet(left))
  <2>1. build \in some
    OBVIOUS
  <2>2. ToSet(left) \cap some = {}
    BY <1>2, <1>3, <1>5, <1>6
  <2> HIDE DEF some
  <2> QED BY <1>4, <2>1, <2>2, UnpackGives
<1>9. Gives(more, Unpack(c.op, probe, right), ToSet(right))
  <2>1. CASE semi
    <3>1. right = << >>
      BY <1>6, <2>1
    <3>2. Unpack(c.op, probe, << >>) = << >>
      BY DEF Unpack
    <3> HIDE DEF more
    <3> QED BY <3>1, <3>2, GivesNone, SeqNone
  <2>2. CASE ~semi
    <3>1. probe \in more
      BY <2>2
    <3>2. ToSet(right) \cap more = {}
      BY <1>2, <1>3, <1>4, <1>5, <1>6
    <3> HIDE DEF more
    <3> QED BY <1>4, <3>1, <3>2, UnpackGives
  <2> QED BY <2>1, <2>2
<1> DEFINE a == Unpack(c.op, build, left)
           b == Unpack(c.op, probe, right)
           x == {pseudo} \cup kept
           y == ToSet(left)
           z == ToSet(right)
<1>10. Gives(ius, filter, x) /\ Gives(ius \cup x, a, y) /\ Gives((ius \cup x) \cup y, b, z)
  BY <1>7, <1>8, <1>9
<1>11. x \cup (y \cup z) = MatchOuts(c)
  BY <1>3
<1> HIDE DEF a, b, x, y, z, filter
<1>12. Gives(ius, filter \o a, x \cup y)
  BY ONLY <1>10, GivesThen
<1>13. Gives(ius \cup (x \cup y), b, z)
  BY <1>10
<1>14. Gives(ius, (filter \o a) \o b, (x \cup y) \cup z)
  BY ONLY <1>12, <1>13, GivesThen
<1> QED BY <1>1, <1>11, <1>14 DEF a, b

(* The probe side of a join: the lookup, and what is made of its matches.  *)
LEMMA MatchOwned ==
  ASSUME NEW c, c.call = "JoinProbe", IsSeq(c.row), IsSeq(c.outLeft), IsSeq(c.outRight),
         ColumnsOK(c)
  PROVE  /\ Distinct(c.outLeft \o c.outRight)
         /\ \A iu \in ToSet(c.outLeft) \cup ToSet(c.outRight) :
              iu.op = c.op /\ iu.part \notin OwnParts
         /\ c.type = "LeftSemi" => c.outRight = << >>
         /\ \A iu \in MatchOuts(c) : Owns(c, iu) /\ iu \notin LookupOuts(c)
         /\ ToSet(MadeIUs(c)) \subseteq MatchOuts(c)
<1> DEFINE left == c.outLeft
           right == c.outRight
           all == left \o right
<1>1. MadeIUs(c) = all
  BY DEF MadeIUs
<1>2. IsSeq(all) /\ ToSet(all) = ToSet(left) \cup ToSet(right)
  BY SeqConcat
<1>3. c.type = "LeftSemi" => right = << >>
  BY DEF ColumnsOK
<1> HIDE DEF left, right, all
<1>4. Distinct(all) /\ \A iu \in ToSet(all) : iu.op = c.op /\ iu.part \notin OwnParts
  BY <1>1, <1>2, MadeDistinct
<1> DEFINE build == Pointer(c.op, "filtered_build")
           probe == Pointer(c.op, "filtered_probe")
           pseudo == FilterPseudo(c.op)
<1>5. /\ build.op = c.op /\ build.part = "filtered_build"
      /\ probe.op = c.op /\ probe.part = "filtered_probe"
      /\ pseudo.op = c.op /\ pseudo.part = "filter_pseudo"
  BY ONLY OwnIUs DEF FilterPseudo
<1>6. /\ MatchOuts(c) \subseteq {pseudo, build, probe} \cup ToSet(all)
      /\ ToSet(all) \subseteq MatchOuts(c)
  BY <1>2 DEF MatchOuts, left, right
<1> HIDE DEF build, probe, pseudo
<1>7. {"scratch_pad_right", "pseudo", "hash_right", "lookup_right", "lookup_left"} \subseteq OwnParts
  BY DEF OwnParts
<1>8. ASSUME NEW iu \in MatchOuts(c) PROVE Owns(c, iu) /\ iu \notin LookupOuts(c)
  <2>1. /\ iu.op = c.op
        /\ iu.part \notin {"scratch_pad_right", "pseudo", "hash_right", "lookup_right", "lookup_left"}
    BY <1>4, <1>5, <1>6, <1>7
  <2>2. Owns(c, iu)
    BY <2>1 DEF Owns
  <2>3. iu \notin LookupOuts(c)
    BY <2>1, LookupOwned
  <2> QED BY <2>2, <2>3
<1> QED BY <1>1, <1>2, <1>3, <1>4, <1>6, <1>8 DEF left, right, all

LEMMA ProbeAdds ==
  ASSUME NEW c, c.call = "JoinProbe", IsSeq(c.row), IsSeq(c.outLeft), IsSeq(c.outRight),
         ColumnsOK(c), NEW ius, NoneOwned(c, ius), ReadsOnly(c, ius)
  PROVE  Adds(ius, c, LookupSubops(c) \o MatchSubops(c))
<1> DEFINE x == LookupOuts(c)
           y == MatchOuts(c)
           a == LookupSubops(c)
           b == MatchSubops(c)
<1>1. \A iu \in x : Owns(c, iu)
  <2>1. \A iu \in x : iu.op = c.op /\ iu.part # "lookup_left"
    BY LookupOwned
  <2> HIDE DEF x
  <2> QED BY <2>1 DEF Owns
<1>2. /\ Distinct(c.outLeft \o c.outRight)
      /\ \A iu \in ToSet(c.outLeft) \cup ToSet(c.outRight) : iu.part \notin OwnParts
      /\ c.type = "LeftSemi" => c.outRight = << >>
      /\ \A iu \in y : Owns(c, iu) /\ iu \notin x
      /\ ToSet(MadeIUs(c)) \subseteq y
  BY MatchOwned
<1>3. ToSet(c.row) \subseteq ius
  BY DEF ReadsOnly
<1>4. LookupResult(c) \in x /\ ScratchPad(c) \in x
  BY DEF LookupOuts
<1>5. x \cap ius = {} /\ y \cap (ius \cup x) = {}
  BY <1>1, <1>2 DEF NoneOwned
<1>6. Gives(ius, a, x)
  <2>1. LookupOuts(c) \cap ius = {}
    BY <1>5
  <2> QED BY <1>3, <2>1, LookupGives
<1>7. Gives(ius \cup x, b, y)
  <2> DEFINE more == ius \cup x
  <2>1. {LookupResult(c), ScratchPad(c)} \subseteq more /\ MatchOuts(c) \cap more = {}
    BY <1>4, <1>5
  <2> HIDE DEF more
  <2>2. Gives(more, b, y)
    BY <1>2, <2>1, MatchGives
  <2> QED BY <2>2 DEF more
<1> HIDE DEF x, y, a, b
<1>8. Gives(ius, a \o b, x \cup y)
  BY ONLY <1>6, <1>7, GivesThen
<1>9. Adds(ius, c, a \o b)
  BY <1>1, <1>2, <1>8 DEF Adds, Gives
<1> QED BY <1>9 DEF a, b

(* The continuation of an outer join provides, for its rows, what the      *)
(* lookup does, before they are filtered.                                  *)
LEMMA UnmatchedAdds ==
  ASSUME NEW c, c.call = "JoinProbe", IsSeq(c.row), IsSeq(c.outLeft), IsSeq(c.outRight),
         ColumnsOK(c)
  PROVE  /\ Adds({}, c, <<UnmatchedSource(c)>> \o MatchSubops(c))
         /\ UnmatchedSource(c).ins = << >>
<1> DEFINE outs == <<LookupResult(c), ScratchPad(c)>>
           s == UnmatchedSource(c)
           x == {LookupResult(c), ScratchPad(c)}
           y == MatchOuts(c)
           b == MatchSubops(c)
<1>1. s.ins = << >> /\ s.outs = outs
  <2>1. s = Calling("at_sk", "", Subop("AtomicHashTableSource", c.op, << >>, outs, << >>))
    BY DEF UnmatchedSource
  <2> HIDE DEF s, outs
  <2> QED BY <2>1 DEF Subop, Calling
<1>2. ToSet(outs) = x
  BY SeqTwo
<1>3. /\ Distinct(c.outLeft \o c.outRight)
      /\ \A iu \in ToSet(c.outLeft) \cup ToSet(c.outRight) : iu.part \notin OwnParts
      /\ c.type = "LeftSemi" => c.outRight = << >>
      /\ \A iu \in y : Owns(c, iu) /\ iu \notin LookupOuts(c)
      /\ ToSet(MadeIUs(c)) \subseteq y
  BY MatchOwned
<1>4. x \subseteq LookupOuts(c)
  BY DEF LookupOuts
<1>5. \A iu \in x : Owns(c, iu)
  <2>1. \A iu \in LookupOuts(c) : iu.op = c.op /\ iu.part # "lookup_left"
    BY LookupOwned
  <2> HIDE DEF x
  <2> QED BY <1>4, <2>1 DEF Owns
<1>6. Gives({}, <<s>>, x)
  <2>1. ToSet(s.ins) \subseteq {} /\ ToSet(s.outs) = x /\ x \cap {} = {}
    BY <1>1, <1>2, SeqNone
  <2> HIDE DEF s, x
  <2> QED BY ONLY <2>1, GivesOne
<1>7. Gives({} \cup x, b, y)
  <2> DEFINE more == {} \cup x
  <2>1. {LookupResult(c), ScratchPad(c)} \subseteq more /\ MatchOuts(c) \cap more = {}
    BY <1>3, <1>4
  <2> HIDE DEF more, b, y
  <2>2. Gives(more, b, y)
    BY <1>3, <2>1, MatchGives DEF b, y
  <2> QED BY <2>2 DEF more
<1> HIDE DEF s, x, y, b
<1>8. Gives({}, <<s>> \o b, x \cup y)
  BY ONLY <1>6, <1>7, GivesThen
<1>9. Adds({}, c, <<s>> \o b)
  BY <1>3, <1>5, <1>8 DEF Adds, Gives
<1> QED BY <1>1, <1>9 DEF s, b

(* The pipeline that aggregates ends in an aggregation state.              *)
AggregateOuts(c) ==
  {Pointer(c.op, "agg_pointer_result"), ByteArray(c.op, "packed_ht_key", c.groupBy)}
    \cup ToSet(PseudoIUs(c.op, c.groupBy))
LEMMA AggregateOwned ==
  ASSUME NEW c, c.call = "Aggregation", IsSeq(c.groupBy), NEW iu \in AggregateOuts(c)
  PROVE  Owns(c, iu)
<1> DEFINE group == Pointer(c.op, "agg_pointer_result")
           packed == ByteArray(c.op, "packed_ht_key", c.groupBy)
<1>1. /\ group.op = c.op /\ group.part = "agg_pointer_result"
      /\ packed.op = c.op /\ packed.part = "packed_ht_key"
  BY ONLY OwnIUs
<1>2. \A i \in ToSet(PseudoIUs(c.op, c.groupBy)) : i.op = c.op /\ i.part = "pseudo"
  BY PseudoDistinct
<1>3. iu \in {group, packed} \cup ToSet(PseudoIUs(c.op, c.groupBy))
  BY DEF AggregateOuts
<1> HIDE DEF group, packed
<1>4. iu.op = c.op /\ iu.part \in {"agg_pointer_result", "packed_ht_key", "pseudo"}
  BY <1>1, <1>2, <1>3
<1> QED BY <1>4 DEF Owns

LEMMA AggregateEnds ==
  ASSUME NEW c, c.call = "Aggregation", IsSeq(c.groupBy), IsSeq(c.granules), ColumnsOK(c),
         NEW ius, NoneOwned(c, ius), ReadsOnly(c, ius)
  PROVE  \E outs : Gives(ius, AggregateSubops(c), outs) /\ SinkLast(AggregateSubops(c))
<1> DEFINE row == c.groupBy
           granules == c.granules
           group == Pointer(c.op, "agg_pointer_result")
           packed == ByteArray(c.op, "packed_ht_key", row)
           pseudo == PseudoIUs(c.op, row)
           fct == CASE row = << >> -> "ht_nk_lookup"
                    [] ComplexKey(row) -> "ht_ck_lookup_or_insert"
                    [] OTHER -> "ht_sk_lookup_or_insert"
           one == <<group>>
           Lookup(ins, bytes) ==
             Calling(fct, "", Subop("lookup_or_insert", c.op, ins, one, bytes))
           outs1 == <<packed>>
           s1 == Subop("ScratchPad", c.op, << >>, outs1, << >>)
           f == Pack(c.op, row, packed, PseudoFor(c.op, row))
           ins2 == IF row = << >> THEN <<granules[1].iu>> ELSE <<packed>> \o pseudo
           l1 == Lookup(row, BytesOf(0, row, 1))
           l2 == Lookup(ins2, << >>)
           Aggregator(i) ==
             Calling(granules[i].state, "", Subop("Aggregator", c.op,
               <<group, granules[i].iu>>, << >>, BytesOf(c.first, granules, i)))
           g == [i \in DOMAIN granules |-> Aggregator(i)]
<1>1. AggregateSubops(c) =
        (IF Len(row) = 1 THEN <<l1>> ELSE (<<s1>> \o f) \o <<l2>>) \o g
  BY DEF AggregateSubops
<1>2. \A ins, bytes : Lookup(ins, bytes).ins = ins /\ Lookup(ins, bytes).outs = one
  <2> HIDE DEF fct, one
  <2> QED BY DEF Subop, Calling
<1>3. s1.ins = << >> /\ s1.outs = outs1
  <2> HIDE DEF outs1
  <2> QED BY DEF Subop
<1>4. /\ g = [i \in DOMAIN granules |-> g[i]] /\ DOMAIN g = DOMAIN granules
      /\ \A i \in DOMAIN granules :
           g[i].ins = <<group, granules[i].iu>> /\ g[i].outs = << >>
  <2>1. g = [i \in DOMAIN granules |-> g[i]] /\ DOMAIN g = DOMAIN granules
    <3> HIDE DEF Aggregator
    <3> QED OBVIOUS
  <2>2. ASSUME NEW i \in DOMAIN granules
        PROVE  g[i].ins = <<group, granules[i].iu>> /\ g[i].outs = << >>
    <3> DEFINE ins == <<group, granules[i].iu>>
               bytes == BytesOf(c.first, granules, i)
               state == granules[i].state
    <3>1. g[i] = Calling(state, "", Subop("Aggregator", c.op, ins, << >>, bytes))
      BY Zenon
    <3> HIDE DEF g, ins, bytes, state
    <3>2. /\ Calling(state, "", Subop("Aggregator", c.op, ins, << >>, bytes)).ins = ins
          /\ Calling(state, "", Subop("Aggregator", c.op, ins, << >>, bytes)).outs = << >>
      BY DEF Subop, Calling
    <3>3. g[i].ins = ins /\ g[i].outs = << >>
      BY <3>1, <3>2, Zenon
    <3> QED BY <3>3 DEF ins
  <2> HIDE DEF g
  <2> QED BY <2>1, <2>2
<1>5. /\ group.part = "agg_pointer_result" /\ packed.part = "packed_ht_key"
      /\ group \in AggregateOuts(c) /\ packed \in AggregateOuts(c)
      /\ ToSet(pseudo) \subseteq AggregateOuts(c)
  <2>1. group.part = "agg_pointer_result" /\ packed.part = "packed_ht_key"
    BY ONLY OwnIUs
  <2> HIDE DEF pseudo
  <2>2. /\ group \in AggregateOuts(c) /\ packed \in AggregateOuts(c)
        /\ ToSet(pseudo) \subseteq AggregateOuts(c)
    BY DEF AggregateOuts, pseudo
  <2> QED BY <2>1, <2>2
<1>6. \A iu \in AggregateOuts(c) : iu \notin ius
  BY AggregateOwned DEF NoneOwned
<1>7. /\ ToSet(row) \subseteq ius /\ \A i \in DOMAIN granules : granules[i].iu \in ius
      /\ IsSeq(row) /\ IsSeq(granules)
  BY DEF ReadsOnly
<1>8. Len(granules) > 0 /\ 1 \in DOMAIN granules
  <2>1. granules # << >>
    BY DEF ColumnsOK
  <2> HIDE DEF granules
  <2> QED BY <1>7, <2>1, SeqNotEmpty
<1>9. IsSeq(pseudo) /\ \A iu \in ToSet(pseudo) : iu.part = "pseudo"
  BY PseudoDistinct
<1>10. ToSet(one) = {group} /\ ToSet(outs1) = {packed} /\ IsSeq(outs1)
  BY SeqOne
<1>11. ToSet(ins2) \subseteq ius \cup ({packed} \cup ToSet(pseudo))
  <2>1. CASE row = << >>
    <3>1. ToSet(ins2) = {granules[1].iu}
      BY <2>1, SeqOne
    <3> HIDE DEF ins2
    <3> QED BY <1>7, <1>8, <3>1
  <2>2. CASE row # << >>
    <3>1. ins2 = outs1 \o pseudo
      BY <2>2
    <3> HIDE DEF ins2, outs1
    <3>2. ToSet(ins2) = {packed} \cup ToSet(pseudo)
      BY <1>9, <1>10, <3>1, SeqConcat
    <3> QED BY <3>2
  <2> QED BY <2>1, <2>2
<1>12. l1.ins = row /\ l1.outs = one /\ l2.ins = ins2 /\ l2.outs = one
  <2> HIDE DEF Lookup, ins2, row, one
  <2> QED BY <1>2
<1> HIDE DEF group, packed, pseudo, row, granules, Lookup, one, outs1, ins2, l1, l2, s1
<1>13. ASSUME NEW x, group \in x, \A i \in DOMAIN granules : granules[i].iu \in x
       PROVE  Gives(x, g, {}) /\ SinkLast(g)
  <2> HIDE DEF g
  <2>1. ForEach(granules, g) /\ SinkOnly(granules, g)
    BY <1>4, <1>7 DEF ForEach, SinkOnly
  <2>2. ReadOnly(x, granules, g)
    <3>1. ASSUME NEW i \in DOMAIN granules PROVE ToSet(g[i].ins) \subseteq x
      <4>1. g[i].ins = <<group, granules[i].iu>>
            /\ ToSet(<<group, granules[i].iu>>) = {group, granules[i].iu}
        BY <1>4, SeqTwo
      <4> QED BY <1>13, <4>1
    <3> QED BY <3>1 DEF ReadOnly
  <2>3. /\ IsSeq(g) /\ Len(g) = Len(granules) /\ Extends(x, g) /\ Outs(g) = {}
        /\ Len(g) > 0 => g[Len(g)].outs = << >>
    BY ONLY <2>1, <2>2, ProvidesNone
  <2> QED BY <1>8, <2>3 DEF Gives, SinkLast
<1>14. CASE Len(row) = 1
  <2>1. Gives(ius, <<l1>>, {group})
    <3>1. ToSet(l1.ins) \subseteq ius /\ ToSet(l1.outs) = {group} /\ {group} \cap ius = {}
      BY <1>5, <1>6, <1>7, <1>10, <1>12
    <3> QED BY ONLY <3>1, GivesOne
  <2>2. Gives(ius \cup {group}, g, {}) /\ SinkLast(g)
    <3> DEFINE x == ius \cup {group}
    <3>1. group \in x /\ \A i \in DOMAIN granules : granules[i].iu \in x
      BY <1>7
    <3> HIDE DEF x, g
    <3>2. Gives(x, g, {}) /\ SinkLast(g)
      BY <1>13, <3>1
    <3> QED BY <3>2 DEF x
  <2> HIDE DEF g
  <2>3. Gives(ius, <<l1>> \o g, {group} \cup {}) /\ SinkLast(<<l1>> \o g)
    BY ONLY <2>1, <2>2, GivesThen
  <2> QED BY <1>1, <1>14, <2>3
<1>15. CASE Len(row) # 1
  <2> DEFINE y == {packed} \cup ToSet(pseudo)
             some == ius \cup y
  <2>1. Gives(ius, <<s1>>, {packed})
    <3>1. ToSet(s1.ins) \subseteq ius /\ ToSet(s1.outs) = {packed} /\ {packed} \cap ius = {}
      BY <1>3, <1>5, <1>6, <1>10, SeqNone
    <3> QED BY ONLY <3>1, GivesOne
  <2>2. Gives(ius \cup {packed}, f, ToSet(pseudo))
    <3>1. /\ packed \in ius \cup {packed} /\ ToSet(row) \subseteq ius \cup {packed}
          /\ ToSet(PseudoIUs(c.op, row)) \cap (ius \cup {packed}) = {}
      BY <1>5, <1>6, <1>7, <1>9 DEF pseudo
    <3> QED BY <1>7, <3>1, PackGives DEF pseudo
  <2> HIDE DEF f, g
  <2>3. Gives(ius, <<s1>> \o f, y)
    BY ONLY <2>1, <2>2, GivesThen
  <2>4. Gives(some, <<l2>>, {group})
    <3>1. ToSet(l2.ins) \subseteq some /\ ToSet(l2.outs) = {group} /\ {group} \cap some = {}
      BY <1>5, <1>6, <1>9, <1>10, <1>11, <1>12
    <3> HIDE DEF some
    <3> QED BY ONLY <3>1, GivesOne
  <2>5. Gives(ius, (<<s1>> \o f) \o <<l2>>, y \cup {group})
    <3> HIDE DEF y
    <3> QED BY ONLY <2>3, <2>4, GivesThen DEF some
  <2> DEFINE x == ius \cup (y \cup {group})
  <2>6. Gives(x, g, {}) /\ SinkLast(g)
    <3>1. group \in x /\ \A i \in DOMAIN granules : granules[i].iu \in x
      BY <1>7
    <3> HIDE DEF x
    <3> QED BY <1>13, <3>1
  <2> DEFINE a == (<<s1>> \o f) \o <<l2>>
             z == y \cup {group}
  <2>7. Gives(ius, a, z) /\ Gives(ius \cup z, g, {}) /\ SinkLast(g)
    BY <2>5, <2>6
  <2> HIDE DEF a, z
  <2>8. Gives(ius, a \o g, z \cup {}) /\ SinkLast(a \o g)
    BY ONLY <2>7, GivesThen
  <2> QED BY <1>1, <1>15, <2>8 DEF a
<1> QED BY <1>14, <1>15

(* The pipeline that follows reads the groups.                             *)
LEMMA ReadGroupsAdds ==
  ASSUME NEW c, c.call = "Aggregation", IsSeq(c.keys), IsSeq(c.results), ColumnsOK(c)
  PROVE  /\ Adds({}, c, ReadGroupsSubops(c))
         /\ Len(ReadGroupsSubops(c)) > 0 /\ ReadGroupsSubops(c)[1].ins = << >>
<1> DEFINE keys == c.keys
           results == c.results
           all == keys \o results
           group == Pointer(c.op, "ht_scan_result")
           one == <<group>>
           s == Calling(IF ComplexKey(keys) THEN "ck" ELSE "sk", "",
                  Subop("HashTableSource", c.op, << >>, one, << >>))
           a == Unpack(c.op, group, keys)
           Reader(i) ==
             Calling(IF Len(c.reads[i]) = 1 THEN "unpack" ELSE "avg", c.types[i],
               Subop("AggReader", c.op, one, <<results[i]>>, c.reads[i]))
           g == [i \in DOMAIN results |-> Reader(i)]
<1>1. ReadGroupsSubops(c) = (<<s>> \o a) \o g
  BY DEF ReadGroupsSubops
<1>2. s.ins = << >> /\ s.outs = one
  <2> DEFINE fct == IF ComplexKey(keys) THEN "ck" ELSE "sk"
  <2> HIDE DEF one, fct
  <2> QED BY DEF Subop, Calling
<1>3. /\ g = [i \in DOMAIN results |-> g[i]] /\ DOMAIN g = DOMAIN results
      /\ \A i \in DOMAIN results : g[i].ins = one /\ g[i].outs = <<results[i]>>
  <2>1. g = [i \in DOMAIN results |-> g[i]] /\ DOMAIN g = DOMAIN results
    <3> HIDE DEF Reader
    <3> QED OBVIOUS
  <2>2. ASSUME NEW i \in DOMAIN results PROVE g[i].ins = one /\ g[i].outs = <<results[i]>>
    <3> DEFINE outs == <<results[i]>>
               bytes == c.reads[i]
               fct == IF Len(bytes) = 1 THEN "unpack" ELSE "avg"
               ty == c.types[i]
    <3>1. g[i] = Calling(fct, ty, Subop("AggReader", c.op, one, outs, bytes))
      BY Zenon
    <3> HIDE DEF g, one, outs, bytes, fct, ty
    <3>2. /\ Calling(fct, ty, Subop("AggReader", c.op, one, outs, bytes)).ins = one
          /\ Calling(fct, ty, Subop("AggReader", c.op, one, outs, bytes)).outs = outs
      BY DEF Subop, Calling
    <3>3. g[i].ins = one /\ g[i].outs = outs
      BY <3>1, <3>2, Zenon
    <3> QED BY <3>3 DEF outs
  <2> HIDE DEF g
  <2> QED BY <2>1, <2>2
<1>4. group.op = c.op /\ group.part = "ht_scan_result"
  BY ONLY OwnIUs
<1>5. /\ MadeIUs(c) = all /\ IsSeq(keys) /\ IsSeq(results)
      /\ IsSeq(all) /\ ToSet(all) = ToSet(keys) \cup ToSet(results)
  <2>1. MadeIUs(c) = all
    BY DEF MadeIUs
  <2> QED BY <2>1, SeqConcat
<1>6. Distinct(all) /\ \A iu \in ToSet(all) : iu.op = c.op /\ iu.part \notin OwnParts
  <2> HIDE DEF all
  <2> QED BY <1>5, MadeDistinct
<1>7. Distinct(keys) /\ Distinct(results) /\ ToSet(keys) \cap ToSet(results) = {}
  BY <1>5, <1>6, DistinctConcat
<1>8. ToSet(one) = {group}
  BY SeqOne
<1>9. "ht_scan_result" \in OwnParts /\ "lookup_left" \in OwnParts
  BY DEF OwnParts
<1> HIDE DEF keys, results, all, group, one, s, g
<1>10. group \notin ToSet(all)
  BY <1>4, <1>6, <1>9
<1>11. Gives({}, <<s>>, {group})
  <2>1. ToSet(s.ins) \subseteq {} /\ ToSet(s.outs) = {group} /\ {group} \cap {} = {}
    BY <1>2, <1>8, SeqNone
  <2> QED BY ONLY <2>1, GivesOne
<1>12. Gives({} \cup {group}, a, ToSet(keys))
  <2> DEFINE x == {} \cup {group}
  <2>1. group \in x /\ ToSet(keys) \cap x = {}
    BY <1>5, <1>10
  <2> HIDE DEF x
  <2>2. Gives(x, Unpack(c.op, group, keys), ToSet(keys))
    BY <1>7, <2>1, UnpackGives
  <2> QED BY <2>2 DEF x
<1> HIDE DEF a
<1>13. Gives({}, <<s>> \o a, {group} \cup ToSet(keys)) /\ Len(<<s>> \o a) > 0
       /\ (<<s>> \o a)[1] = s
  <2>1. Len(<<s>>) > 0 /\ <<s>>[1] = s
    OBVIOUS
  <2> DEFINE p == <<s>>
             y == ToSet(keys)
  <2>2. Gives({}, p, {group}) /\ Gives({} \cup {group}, a, y) /\ Len(p) > 0
    BY <1>11, <1>12, <2>1
  <2> HIDE DEF p, y
  <2>3. Gives({}, p \o a, {group} \cup y) /\ Len(p \o a) > 0 /\ (p \o a)[1] = p[1]
    BY ONLY <2>2, GivesThen
  <2> QED BY <2>1, <2>3 DEF p, y
<1> DEFINE x == {group} \cup ToSet(keys)
           z == ToSet(results)
           b == <<s>> \o a
<1>14. Gives({} \cup x, g, z)
  <2> DEFINE some == {} \cup x
  <2>1. ForEach(results, g) /\ ProvideOnly(results, g)
    BY <1>3, <1>5 DEF ForEach, ProvideOnly
  <2>2. ReadOnly(some, results, g)
    BY <1>3, <1>8 DEF ReadOnly
  <2>3. ToSet(results) \cap some = {} /\ Distinct(results)
    BY <1>5, <1>7, <1>10
  <2> HIDE DEF some
  <2>4. IsSeq(g) /\ Extends(some, g) /\ Outs(g) = ToSet(results)
    BY ONLY <2>1, <2>2, <2>3, ProvidesEach
  <2> QED BY <2>4 DEF Gives, some
<1>15. Gives({}, b, x) /\ Gives({} \cup x, g, z) /\ Len(b) > 0
  BY <1>13, <1>14
<1>16. \A iu \in x \cup z : Owns(c, iu)
  <2>1. \A iu \in x \cup z : iu = group \/ iu \in ToSet(all)
    BY <1>5
  <2> HIDE DEF x, z
  <2> QED BY <1>4, <1>6, <1>9, <2>1 DEF Owns
<1>17. ToSet(MadeIUs(c)) \subseteq x \cup z
  BY <1>5
<1> HIDE DEF x, z, b
<1>18. Gives({}, b \o g, x \cup z) /\ Len(b \o g) > 0 /\ (b \o g)[1] = b[1]
  BY ONLY <1>15, GivesThen
<1>19. Adds({}, c, b \o g)
  BY <1>16, <1>17, <1>18 DEF Adds, Gives
<1> QED BY <1>1, <1>2, <1>13, <1>18, <1>19 DEF b

-----------------------------------------------------------------------------
(* What continuations get of the last pipeline.                            *)

(* Sequences with the same elements.                                       *)
LEMMA SeqSame ==
  ASSUME NEW a, NEW b, IsSeq(a), IsSeq(b), Len(a) = Len(b),
         \A k \in 1 .. Len(a) : a[k] = b[k]
  PROVE  a = b
<1>1. ASSUME NEW q, IsSeq(q) PROVE q = [k \in 1 .. Len(q) |-> q[k]]
  <2> DEFINE S == ToSet(q)
  <2>1. q \in Seq(S)
    BY <1>1 DEF IsSeq
  <2> HIDE DEF S
  <2> QED BY <2>1
<1>2. a = [k \in 1 .. Len(a) |-> a[k]] /\ b = [k \in 1 .. Len(b) |-> b[k]]
  BY <1>1
<1> QED BY <1>2

(* How many suboperators follow the first m.                               *)
LEMMA SeqDroppedLen ==
  ASSUME NEW a, IsSeq(a), NEW m \in Nat, m <= Len(a)
  PROVE  Len(SubSeq(a, m + 1, Len(a))) = Len(a) - m
<1> DEFINE c == SubSeq(a, m + 1, Len(a))
           n == Len(a)
           l == n - m
<1>1. n \in Nat /\ DOMAIN a = 1 .. n
  BY SeqElements
<1>2. c = [k \in 1 .. (n - (m + 1)) + 1 |-> a[k + (m + 1) - 1]]
  BY <1>1
<1>3. IsSeq(c)
  BY SeqDropped
<1> HIDE DEF c, n
<1>4. (n - (m + 1)) + 1 = l /\ l \in Nat
  BY <1>1 DEF n
<1>5. DOMAIN c = 1 .. l
  BY <1>2, <1>4
<1>6. Len(c) \in Nat /\ DOMAIN c = 1 .. Len(c)
  BY <1>3, SeqElements
<1> HIDE DEF l
<1>7. Len(c) = l
  BY <1>4, <1>5, <1>6
<1> QED BY <1>7 DEF c, n, l

(* Concatenation is associative.                                           *)
Regroups(a, b, c) == (a \o b) \o c = a \o (b \o c)
LEMMA ConcatThree ==
  ASSUME NEW a, NEW b, NEW c, IsSeq(a), IsSeq(b), IsSeq(c)
  PROVE  Regroups(a, b, c)
<1> DEFINE l == Len(a)
           m == Len(b)
           n == Len(c)
           ab == a \o b
           bc == b \o c
           x == ab \o c
           y == a \o bc
<1>1. /\ l \in Nat /\ m \in Nat /\ n \in Nat
      /\ IsSeq(ab) /\ Len(ab) = l + m /\ IsSeq(bc) /\ Len(bc) = m + n
      /\ \A k \in 1 .. l : ab[k] = a[k]
      /\ \A k \in l + 1 .. l + m : ab[k] = b[k - l]
      /\ \A k \in 1 .. m : bc[k] = b[k]
      /\ \A k \in m + 1 .. m + n : bc[k] = c[k - m]
  BY SeqConcat, SeqElements
<1> HIDE DEF ab, bc
<1>7. IsSeq(ab) /\ IsSeq(bc) /\ IsSeq(a) /\ IsSeq(c) /\ Len(ab) = l + m /\ Len(bc) = m + n
  BY <1>1
<1>2. /\ IsSeq(x) /\ Len(x) = (l + m) + n
      /\ \A k \in 1 .. l + m : x[k] = ab[k]
      /\ \A k \in (l + m) + 1 .. (l + m) + n : x[k] = c[k - (l + m)]
  <2>1. /\ IsSeq(x) /\ Len(x) = Len(ab) + Len(c)
        /\ \A k \in 1 .. Len(ab) : x[k] = ab[k]
        /\ \A k \in Len(ab) + 1 .. Len(ab) + Len(c) : x[k] = c[k - Len(ab)]
    BY ONLY <1>7, SeqConcat
  <2> HIDE DEF x, l, m
  <2> QED BY ONLY <1>7, <2>1 DEF n
<1>3. /\ IsSeq(y) /\ Len(y) = l + (m + n)
      /\ \A k \in 1 .. l : y[k] = a[k]
      /\ \A k \in l + 1 .. l + (m + n) : y[k] = bc[k - l]
  <2>1. /\ IsSeq(y) /\ Len(y) = Len(a) + Len(bc)
        /\ \A k \in 1 .. Len(a) : y[k] = a[k]
        /\ \A k \in Len(a) + 1 .. Len(a) + Len(bc) : y[k] = bc[k - Len(a)]
    BY ONLY <1>7, SeqConcat
  <2> HIDE DEF y, m, n
  <2> QED BY ONLY <1>7, <2>1 DEF l
<1> HIDE DEF l, m, n
<1> HIDE DEF x, y
<1>4. ASSUME NEW k \in 1 .. Len(x) PROVE x[k] = y[k]
  <2>1. CASE k \in 1 .. l
    <3>1. k \in 1 .. l + m
      BY <1>1, <2>1
    <3> QED BY <1>1, <1>2, <1>3, <2>1, <3>1
  <2>2. CASE k \in l + 1 .. l + m
    <3>1. k \in 1 .. l + m /\ k - l \in 1 .. m /\ k \in l + 1 .. l + (m + n)
      BY <1>1, <2>2
    <3> QED BY <1>1, <1>2, <1>3, <2>2, <3>1
  <2>3. CASE k \notin 1 .. l + m
    <3>1. /\ k \in (l + m) + 1 .. (l + m) + n /\ k - l \in m + 1 .. m + n
          /\ k \in l + 1 .. l + (m + n) /\ (k - l) - m = k - (l + m)
      BY <1>1, <1>2, <2>3
    <3> QED BY <1>1, <1>2, <1>3, <3>1
  <2> QED BY <1>1, <1>2, <2>1, <2>2, <2>3
<1>5. Len(x) = Len(y)
  BY <1>1, <1>2, <1>3
<1>6. x = y
  BY <1>2, <1>3, <1>4, <1>5, SeqSame
<1> QED BY <1>6 DEF x, y, ab, bc, Regroups

(* What is attached to the last pipeline is attached to what follows an    *)
(* index, too.                                                             *)
LEMMA RestGrows ==
  ASSUME NEW a, NEW b, IsSeq(a), IsSeq(b), NEW i \in Nat, i <= Len(a)
  PROVE  SubSeq(a \o b, i + 1, Len(a \o b)) = SubSeq(a, i + 1, Len(a)) \o b
<1> DEFINE c == a \o b
           x == SubSeq(c, i + 1, Len(c))
           r == SubSeq(a, i + 1, Len(a))
           y == r \o b
           n == Len(a)
           m == Len(b)
<1>1. /\ n \in Nat /\ m \in Nat /\ IsSeq(c) /\ Len(c) = n + m
      /\ \A k \in 1 .. n : c[k] = a[k]
      /\ \A k \in n + 1 .. n + m : c[k] = b[k - n]
  BY SeqConcat, SeqElements
<1>2. /\ IsSeq(r) /\ Len(r) = n - i
      /\ \A k \in 1 .. Len(r) : i + k \in 1 .. n /\ r[k] = a[i + k]
  BY SeqDropped, SeqDroppedLen
<1>3. /\ IsSeq(x) /\ Len(x) = (n + m) - i
      /\ \A k \in 1 .. Len(x) : i + k \in 1 .. n + m /\ x[k] = c[i + k]
  <2> HIDE DEF c, n, m
  <2>1. i <= Len(c)
    BY <1>1 DEF n
  <2> QED BY <1>1, <2>1, SeqDropped, SeqDroppedLen
<1>4. /\ IsSeq(y) /\ Len(y) = Len(r) + m
      /\ \A k \in 1 .. Len(r) : y[k] = r[k]
      /\ \A k \in Len(r) + 1 .. Len(r) + m : y[k] = b[k - Len(r)]
  <2> HIDE DEF r
  <2> QED BY <1>2, SeqConcat
<1>5. i <= n
  OBVIOUS
<1> HIDE DEF c, x, r, y, n, m
<1>6. ASSUME NEW k \in 1 .. Len(x) PROVE x[k] = y[k]
  <2>1. x[k] = c[i + k] /\ k \in 1 .. (n + m) - i
    BY <1>3
  <2>2. CASE k <= n - i
    <3>1. k \in 1 .. Len(r) /\ i + k \in 1 .. n
      BY <1>1, <1>2, <2>1, <2>2
    <3> QED BY <1>1, <1>2, <1>4, <2>1, <3>1
  <2>3. CASE k > n - i
    <3>1. /\ k \in Len(r) + 1 .. Len(r) + m /\ i + k \in n + 1 .. n + m
          /\ (i + k) - n = k - Len(r)
      BY <1>1, <1>2, <1>5, <2>1, <2>3
    <3> QED BY <1>1, <1>4, <2>1, <3>1
  <2> QED BY <1>1, <1>5, <2>1, <2>2, <2>3
<1>7. Len(x) = Len(y)
  BY <1>1, <1>2, <1>3, <1>4, <1>5
<1>8. x = y
  BY <1>3, <1>4, <1>6, <1>7, SeqSame
<1> QED BY <1>8 DEF x, y, c, r

(* At the end of the last pipeline, it is all there is.                    *)
LEMMA RestBegins ==
  ASSUME NEW a, NEW b, IsSeq(a), IsSeq(b)
  PROVE  SubSeq(a \o b, Len(a) + 1, Len(a \o b)) = b
<1> DEFINE c == a \o b
           n == Len(a)
           m == Len(b)
           x == SubSeq(c, n + 1, Len(c))
<1>1. /\ n \in Nat /\ m \in Nat /\ IsSeq(c) /\ Len(c) = n + m
      /\ \A k \in n + 1 .. n + m : c[k] = b[k - n]
  BY SeqConcat, SeqElements
<1> HIDE DEF c, n
<1>2. /\ IsSeq(x) /\ Len(x) = (n + m) - n
      /\ \A k \in 1 .. Len(x) : n + k \in 1 .. n + m /\ x[k] = c[n + k]
  <2> HIDE DEF m
  <2>1. n <= Len(c)
    BY <1>1
  <2> QED BY <1>1, <2>1, SeqDropped, SeqDroppedLen
<1> HIDE DEF x
<1>3. Len(x) = m
  BY <1>1, <1>2
<1>4. \A k \in 1 .. m : n + k \in n + 1 .. n + m /\ (n + k) - n = k
  BY <1>1
<1>5. \A k \in 1 .. Len(x) : x[k] = b[k]
  BY <1>1, <1>2, <1>3, <1>4
<1>6. x = b
  BY <1>2, <1>3, <1>5, SeqSame DEF m
<1> QED BY <1>6 DEF x, c, n

-----------------------------------------------------------------------------
(* Pipelines that a call extends or begins.                                *)

(* What a call reads of these IUs is there if there are more.              *)
LEMMA ReadsMore ==
  ASSUME NEW c, NEW ius, NEW more, ius \subseteq more, ReadsOnly(c, ius)
  PROVE  ReadsOnly(c, more)
<1>1. CASE c.call = "ExpressionOp"
  <2>1. \A i \in DOMAIN c.nodes :
          ToSet(c.nodes[i].ins) \subseteq ius \cup {c.nodes[j].out : j \in 1 .. i - 1}
    BY <1>1 DEF ReadsOnly
  <2>2. \A i \in DOMAIN c.nodes :
          ToSet(c.nodes[i].ins) \subseteq more \cup {c.nodes[j].out : j \in 1 .. i - 1}
    BY <2>1, Zenon
  <2> QED BY <1>1, <2>2 DEF ReadsOnly
<1>2. CASE c.call = "Filter"
  BY <1>2 DEF ReadsOnly
<1>3. CASE c.call \in {"JoinBuild", "JoinProbe"}
  BY <1>3 DEF ReadsOnly
<1>4. CASE c.call = "Aggregation"
  BY <1>4 DEF ReadsOnly
<1>5. CASE c.call = "Print"
  BY <1>5 DEF ReadsOnly
<1>6. CASE c.call \notin {"ExpressionOp", "Filter", "JoinBuild", "JoinProbe", "Aggregation", "Print"}
  BY <1>6 DEF ReadsOnly
<1> QED BY <1>1, <1>2, <1>3, <1>4, <1>5, <1>6

(* What is visible after a call, it made; or it was visible before, if the *)
(* operator is one that passes on what it reads.                           *)
PassesOn(c) == c.call \in {"ExpressionOp", "Filter"}
LEMMA VisibleNext ==
  ASSUME NEW cs, NEW d \in Nat, NEW iu \in Visible(cs, d + 1)
  PROVE  \/ iu \in ToSet(MadeIUs(cs[d + 1]))
         \/ PassesOn(cs[d + 1]) /\ iu \in Visible(cs, d)
<1>1. PICK i \in 1 .. d + 1 : /\ \A k \in i + 1 .. d + 1 : PassesOn(cs[k])
                              /\ iu \in ToSet(MadeIUs(cs[i]))
  BY DEF Visible, PassesOn
<1>2. CASE i = d + 1
  BY <1>1, <1>2
<1>3. CASE i # d + 1
  <2>1. i \in 1 .. d /\ d + 1 \in i + 1 .. d + 1 /\ \A k \in i + 1 .. d : k \in i + 1 .. d + 1
    BY <1>3
  <2>2. i \in {j \in 1 .. d : \A k \in j + 1 .. d : PassesOn(cs[k])}
    BY <1>1, <2>1
  <2>3. iu \in Visible(cs, d)
    BY <1>1, <2>2 DEF Visible, PassesOn
  <2> QED BY <1>1, <2>1, <2>3
<1> QED BY <1>2, <1>3

(* A pipeline has no IU of the next call.                                  *)
LEMMA Fresh ==
  ASSUME PlanInv, NEW d \in Nat, d + 1 <= Len(calls), NEW a, Open(a, d)
  PROVE  NoneOwned(calls[d + 1], Outs(a))
<1> SUFFICES ASSUME NEW iu \in Outs(a), Owns(calls[d + 1], iu) PROVE FALSE
  BY DEF NoneOwned
<1>1. PICK i \in 1 .. d : Owns(calls[i], iu)
  BY DEF Open
<1> DEFINE e == d + 1
<1>2. e \in 1 .. Len(calls) /\ i \in 1 .. e - 1
  <2>1. Len(calls) \in Nat
    BY SeqElements DEF PlanInv
  <2> QED BY <2>1
<1> HIDE DEF e
<1>3. Owns(calls[e], iu)
  BY DEF e
<1>4. calls[i].op = calls[e].op
  BY <1>1, <1>3 DEF Owns
<1>5. calls[i].call = "JoinBuild" /\ calls[e].call = "JoinProbe"
  BY <1>2, <1>4 DEF PlanInv
<1> QED BY <1>1, <1>3, <1>5 DEF Owns

(* The next call finds there what it reads.                                *)
LEMMA ReadsThere ==
  ASSUME PlanInv, ColumnsInv, NEW d \in Nat, d + 1 <= Len(calls), NEW a, Open(a, d)
  PROVE  NoneOwned(calls[d + 1], Outs(a)) /\ ReadsOnly(calls[d + 1], Outs(a))
<1> DEFINE e == d + 1
<1>1. e \in 1 .. Len(calls) /\ e - 1 = d
  <2>1. Len(calls) \in Nat
    BY SeqElements DEF PlanInv
  <2> QED BY <2>1
<1>2. NoneOwned(calls[e], Outs(a))
  BY Fresh
<1> HIDE DEF e
<1>3. ReadsOnly(calls[e], Visible(calls, e - 1))
  BY <1>1 DEF ColumnsInv
<1>4. ReadsOnly(calls[e], Visible(calls, d))
  BY <1>1, <1>3
<1>5. Visible(calls, d) \subseteq Outs(a)
  BY DEF Open
<1>6. ReadsOnly(calls[e], Outs(a))
  BY ONLY <1>4, <1>5, ReadsMore
<1> QED BY <1>2, <1>6 DEF e

(* What a call appends to any pipeline in which it finds what it reads.    *)
Appends(c, b) ==
  /\ IsSeq(b)
  /\ \A ius : NoneOwned(c, ius) /\ ReadsOnly(c, ius) =>
       /\ Adds(ius, c, b)
       /\ c.call \in {"JoinBuild", "Print"} => SinkLast(b)

(* The last suboperator of a pipeline that gets these.                     *)
LEMMA SinkAppended ==
  ASSUME NEW a, NEW b, IsSeq(a), IsSeq(b), SinkLast(b)
  PROVE  (a \o b)[Len(a \o b)].outs = << >>
<1> DEFINE n == Len(a)
           m == Len(b)
           c == a \o b
<1>1. /\ n \in Nat /\ m \in Nat /\ Len(c) = n + m
      /\ \A k \in n + 1 .. n + m : c[k] = b[k - n]
  BY SeqConcat, SeqElements
<1>2. m > 0 /\ b[m].outs = << >>
  BY DEF SinkLast
<1> HIDE DEF n, m, c
<1>3. n + m \in n + 1 .. n + m /\ (n + m) - n = m
  BY <1>1, <1>2
<1>4. c[Len(c)].outs = << >>
  BY <1>1, <1>2, <1>3
<1> QED BY <1>4 DEF c

(* A pipeline to which the call attaches.                                  *)
LEMMA OpenAttached ==
  ASSUME PlanInv, ColumnsInv, NEW d \in Nat, d + 1 <= Len(calls), NEW a, Open(a, d),
         NEW b, Appends(calls[d + 1], b)
  PROVE  Open(a \o b, d + 1)
<1> DEFINE c == calls[d + 1]
<1>1. NoneOwned(c, Outs(a)) /\ ReadsOnly(c, Outs(a))
  BY ReadsThere
<1>3. /\ Adds(Outs(a), c, b)
      /\ c.call \in {"JoinBuild", "Print"} => SinkLast(b)
  BY <1>1 DEF Appends
<1>4. /\ IsSeq(a) /\ Len(a) > 0 /\ a[1].ins = << >> /\ Extends({}, a)
      /\ \A iu \in Outs(a) : \E i \in 1 .. d : Owns(calls[i], iu)
      /\ Visible(calls, d) \subseteq Outs(a)
  BY DEF Open, Sound
<1>5. /\ IsSeq(b) /\ Extends(Outs(a), b) /\ \A iu \in Outs(b) : Owns(c, iu)
      /\ ToSet(MadeIUs(c)) \subseteq Outs(b)
  BY <1>3 DEF Adds
<1>6. Gives({}, a, Outs(a)) /\ Gives({} \cup Outs(a), b, Outs(b))
  BY <1>4, <1>5 DEF Gives
<1>7. Gives({}, a \o b, Outs(a) \cup Outs(b)) /\ Len(a \o b) > 0 /\ (a \o b)[1] = a[1]
  BY ONLY <1>4, <1>6, GivesThen
<1>8. Sound(a \o b) /\ Outs(a \o b) = Outs(a) \cup Outs(b)
  BY <1>4, <1>7 DEF Sound, Gives
<1>9. \A iu \in Outs(a) \cup Outs(b) : \E i \in 1 .. d + 1 : Owns(calls[i], iu)
  <2>1. \A i \in 1 .. d : i \in 1 .. d + 1
    OBVIOUS
  <2>2. d + 1 \in 1 .. d + 1
    OBVIOUS
  <2> QED BY <1>4, <1>5, <2>1, <2>2
<1>10. Visible(calls, d + 1) \subseteq Outs(a) \cup Outs(b)
  BY <1>4, <1>5, VisibleNext
<1>11. c.call \in {"JoinBuild", "Print"} => (a \o b)[Len(a \o b)].outs = << >>
  BY <1>3, <1>4, <1>5, SinkAppended
<1> DEFINE ab == a \o b
<1> HIDE DEF ab
<1>12. /\ Sound(ab) /\ Outs(ab) = Outs(a) \cup Outs(b)
       /\ c.call \in {"JoinBuild", "Print"} => ab[Len(ab)].outs = << >>
  BY <1>8, <1>11 DEF ab
<1>13. Open(ab, d + 1)
  BY <1>9, <1>10, <1>12 DEF Open
<1> QED BY <1>13 DEF ab

(* A pipeline that the call begins.                                        *)
LEMMA OpenBegun ==
  ASSUME NEW d \in Nat, NEW b, Adds({}, calls[d + 1], b), Len(b) > 0, b[1].ins = << >>,
         calls[d + 1].call \in {"TableScan", "JoinProbe", "Aggregation"}
  PROVE  Open(b, d + 1)
<1>1. Sound(b)
  BY DEF Sound, Adds
<1>2. \A iu \in Outs(b) : \E i \in 1 .. d + 1 : Owns(calls[i], iu)
  <2>1. d + 1 \in 1 .. d + 1
    OBVIOUS
  <2> QED BY <2>1 DEF Adds
<1>3. Visible(calls, d + 1) \subseteq Outs(b)
  BY VisibleNext DEF Adds, PassesOn
<1> QED BY <1>1, <1>2, <1>3 DEF Open

-----------------------------------------------------------------------------
(* The pipelines after a call.                                             *)

(* The last pipeline gets what is attached, the others stay as they are.   *)
LEMMA PipeAttached ==
  ASSUME NEW pipes, PipesOK(pipes), Len(pipes) > 0, NEW b, IsSeq(b)
  PROVE  /\ Len(Attach(pipes, b)) = Len(pipes)
         /\ Attach(pipes, b)[Len(pipes)].subops = pipes[Len(pipes)].subops \o b
         /\ \A p \in 1 .. Len(pipes) : p # Len(pipes) => Attach(pipes, b)[p] = pipes[p]
         /\ PipesOK(Attach(pipes, b))
<1> DEFINE to == Attach(pipes, b)
           n == Len(pipes)
           all == pipes[n].subops \o b
<1>1. PICK pipe : LastReplaced(pipes, pipe, to) /\ IsPipe(pipe) /\ pipe.subops = all
  BY AttachResult
<1> HIDE DEF to, all
<1>2. /\ IsSeq(to) /\ Len(to) = n /\ to[n] = pipe
      /\ \A p \in 1 .. n : p # n => to[p] = pipes[p]
  BY <1>1 DEF LastReplaced
<1>3. PipesOK(to)
  BY <1>1, <1>2 DEF PipesOK
<1>4. to[n].subops = all
  BY <1>1, <1>2
<1> QED BY <1>2, <1>3, <1>4 DEF to, all

(* A continuation gets it, too.                                            *)
Follows(to, last, b, c) == IfClosed(to, c) = IfClosed(last, c) \o b
LEMMA IfClosedAttached ==
  ASSUME NEW last, NEW to, NEW b, NEW c, IsSeq(last.subops), IsSeq(b), IsSeq(c.pipe.subops),
         to.subops = last.subops \o b, c.index \in Nat, c.index <= Len(last.subops)
  PROVE  Follows(to, last, b, c)
<1> DEFINE a == last.subops
           i == c.index
           rest == SubSeq(a, i + 1, Len(a))
           from == c.pipe.subops
<1>1. Rest(to, c) = SubSeq(a \o b, i + 1, Len(a \o b)) /\ Rest(last, c) = rest
  BY DEF Rest
<1>2. SubSeq(a \o b, i + 1, Len(a \o b)) = rest \o b /\ IsSeq(rest) /\ IsSeq(from)
  <2> HIDE DEF a, i, from
  <2>1. IsSeq(a) /\ i \in Nat /\ i <= Len(a) /\ IsSeq(from)
    BY DEF a, i, from
  <2> QED BY <2>1, RestGrows, SeqDropped
<1> HIDE DEF rest, from
<1>3. (from \o rest) \o b = from \o (rest \o b)
  <2>1. IsSeq(from) /\ IsSeq(rest) /\ IsSeq(b)
    BY <1>2
  <2>2. Regroups(from, rest, b)
    BY ONLY <2>1, ConcatThree, Zenon
  <2> QED BY <2>2, Zenon DEF Regroups
<1>4. Rest(to, c) = rest \o b /\ Rest(last, c) = rest
  BY <1>1, <1>2
<1> QED BY <1>3, <1>4, Zenon DEF Follows, IfClosed, from

(* Continuations of the last pipeline.                                     *)
LEMMA ContinuationBegun ==
  ASSUME NEW pipes, NEW cs, NEW d, DagOK(pipes, cs, d)
  PROVE  /\ IsSeq(cs) /\ Len(cs) \in Nat
         /\ Len(cs) > 0 => Len(pipes) > 0
         /\ \A x \in 1 .. Len(cs) :
              /\ cs[x].index \in Nat /\ cs[x].index <= Len(pipes[Len(pipes)].subops)
              /\ cs[x].pipe = [subops |-> cs[x].pipe.subops, parallel |-> FALSE]
              /\ IsSeq(cs[x].pipe.subops)
<1>1. /\ IsSeq(cs) /\ Len(cs) \in Nat
      /\ Len(cs) > 0 => Len(pipes) > 0
  BY SeqElements DEF DagOK, ContinuationsOK
<1>2. ASSUME NEW x \in 1 .. Len(cs)
      PROVE  /\ cs[x].index \in Nat /\ cs[x].index <= Len(pipes[Len(pipes)].subops)
             /\ cs[x].pipe = [subops |-> cs[x].pipe.subops, parallel |-> FALSE]
             /\ IsSeq(cs[x].pipe.subops)
  <2> DEFINE c == cs[x]
             src == c.pipe.subops[1]
             last == pipes[Len(pipes)]
             one == <<src>>
  <2>1. ContinuationOK(last, c, d)
    BY DEF DagOK, ContinuationsOK
  <2>2. PipesOK(pipes) /\ Len(pipes) > 0
    BY <1>1 DEF DagOK, ContinuationsOK
  <2>3. Len(last.subops) \in Nat
    BY <2>2, PipeAt
  <2> HIDE DEF last, c
  <2>4. c.index \in 1 .. Len(last.subops) /\ c.pipe = [subops |-> one, parallel |-> FALSE]
    BY <2>1 DEF ContinuationOK
  <2>5. IsSeq(one)
    BY SeqOne
  <2> HIDE DEF one
  <2>6. c.pipe.subops = one
    BY <2>4
  <2>7. c.pipe = [subops |-> c.pipe.subops, parallel |-> FALSE] /\ IsSeq(c.pipe.subops)
    BY <2>4, <2>5, <2>6, Zenon
  <2>8. c.index \in Nat /\ c.index <= Len(last.subops)
    BY <2>3, <2>4
  <2> QED BY <2>7, <2>8 DEF c, last
<1> QED BY <1>1, <1>2

(* A plan begins with a table scan.                                        *)
LEMMA ScanFirst ==
  ASSUME PlanInv, NEW d \in Nat, d + 1 <= Len(calls), calls[d + 1].call # "TableScan"
  PROVE  d > 0
  BY DEF PlanInv

(* A call that attaches to the last pipeline extends it, and every         *)
(* continuation as it would be.                                            *)
LEMMA CurrentClosed ==
  ASSUME PlanInv, ColumnsInv, NEW d \in Nat, d + 1 <= Len(calls), NEW pipes, NEW cs,
         StageOK(pipes, cs, d), ClosedSoFar(pipes, cs, d), ~BeginsPipeline(calls[d + 1]),
         NEW b, Appends(calls[d + 1], b)
  PROVE  ClosedSoFar(Attach(pipes, b), cs, d + 1)
<1> DEFINE n == Len(pipes)
           last == pipes[n]
           to == Attach(pipes, b)
           e == d + 1
<1>1. d > 0 /\ d # 0
  BY ScanFirst DEF BeginsPipeline
<1>2. n > 0 /\ DagOK(pipes, cs, d) /\ PipesOK(pipes) /\ IsSeq(b)
  BY <1>1 DEF StageOK, DagOK, Appends
<1>3. n \in 1 .. n /\ IsSeq(last.subops)
  BY <1>2, PipeAt
<1>4. /\ Len(to) = n /\ to[n].subops = last.subops \o b
      /\ \A p \in 1 .. n : p # n => to[p] = pipes[p]
  BY <1>2, PipeAttached
<1> HIDE DEF to
<1>5. Open(to[n].subops, e)
  <2>1. Open(last.subops, d)
    BY <1>1 DEF ClosedSoFar
  <2>2. Open(last.subops \o b, d + 1)
    BY <2>1, OpenAttached
  <2> QED BY <1>4, <2>2
<1>6. ASSUME NEW x \in 1 .. Len(cs) PROVE Open(IfClosed(to[n], cs[x]), e)
  <2> DEFINE c == cs[x]
             now == IfClosed(last, c)
  <2>1. Open(now, d)
    BY DEF ClosedSoFar
  <2>2. c.index \in Nat /\ c.index <= Len(last.subops) /\ IsSeq(c.pipe.subops)
    BY <1>2, ContinuationBegun
  <2>3. IfClosed(to[n], c) = now \o b
    <3> DEFINE end == to[n]
    <3>1. end.subops = last.subops \o b
      BY <1>4
    <3>2. IsSeq(last.subops) /\ IsSeq(b)
      BY <1>2, <1>3
    <3> HIDE DEF c, last, end
    <3>3. Follows(end, last, b, c)
      BY ONLY <2>2, <3>1, <3>2, IfClosedAttached
    <3> QED BY <3>3, Zenon DEF Follows, end, now
  <2> HIDE DEF now
  <2>4. Open(now \o b, d + 1)
    BY <2>1, OpenAttached
  <2> QED BY <2>3, <2>4
<1>7. \A p \in 1 .. n - 1 : Whole(to[p].subops)
  <2>1. \A p \in 1 .. n - 1 : p \in 1 .. n /\ p # n
    BY <1>3
  <2> QED BY <1>4, <2>1 DEF ClosedSoFar
<1>8. Len(cs) > 0 =>
        /\ Len(cs) = 1
        /\ \E i \in 1 .. e : /\ OuterProbe(calls[i])
                             /\ \A k \in i + 1 .. e : ~BeginsPipeline(calls[k])
  <2> SUFFICES ASSUME Len(cs) > 0
               PROVE  \E i \in 1 .. e : /\ OuterProbe(calls[i])
                                        /\ \A k \in i + 1 .. e : ~BeginsPipeline(calls[k])
    BY DEF ClosedSoFar
  <2>1. PICK i \in 1 .. d : /\ OuterProbe(calls[i])
                            /\ \A k \in i + 1 .. d : ~BeginsPipeline(calls[k])
    BY DEF ClosedSoFar
  <2>2. i \in 1 .. e /\ \A k \in i + 1 .. e : k \in i + 1 .. d \/ k = e
    OBVIOUS
  <2> QED BY <2>1, <2>2
<1>9. e # 0
  OBVIOUS
<1> HIDE DEF e, n
<1>10. ClosedSoFar(to, cs, e)
  BY <1>4, <1>5, <1>6, <1>7, <1>8, <1>9 DEF ClosedSoFar
<1> QED BY <1>10 DEF to, e

(* What is known of the next call.                                         *)
LEMMA CallFacts ==
  ASSUME PlanInv, ColumnsInv, NEW d \in Nat, d + 1 <= Len(calls)
  PROVE  ListsOK(calls[d + 1]) /\ ColumnsOK(calls[d + 1]) /\ d + 1 \in 1 .. Len(calls)
<1> DEFINE e == d + 1
<1>1. e \in 1 .. Len(calls)
  <2>1. Len(calls) \in Nat
    BY SeqElements DEF PlanInv
  <2> QED BY <2>1
<1> HIDE DEF e
<1>2. ListsOK(calls[e]) /\ ColumnsOK(calls[e])
  BY <1>1 DEF PlanInv, ColumnsInv
<1> QED BY <1>1, <1>2 DEF e

(* There is no continuation yet if the next call attaches one.             *)
LEMMA NoneBefore ==
  ASSUME PlanInv, OneOuterJoin, NEW d \in Nat, d + 1 <= Len(calls), NEW pipes, NEW cs,
         ClosedSoFar(pipes, cs, d), IsSeq(cs), OuterProbe(calls[d + 1])
  PROVE  Len(cs) = 0
<1>1. Len(cs) \in Nat
  BY SeqElements
<1>2. ASSUME Len(cs) > 0 PROVE FALSE
  <2> DEFINE e == d + 1
  <2>1. PICK i \in 1 .. d : /\ OuterProbe(calls[i])
                            /\ \A k \in i + 1 .. d : ~BeginsPipeline(calls[k])
    BY <1>2 DEF ClosedSoFar
  <2>2. Len(calls) \in Nat /\ DOMAIN calls = 1 .. Len(calls)
    BY SeqElements DEF PlanInv
  <2>3. i \in DOMAIN calls /\ e \in DOMAIN calls /\ i < e /\ e - 1 = d
    BY <2>2
  <2>4. OuterProbe(calls[e])
    OBVIOUS
  <2> HIDE DEF e
  <2>5. PICK k \in i + 1 .. e - 1 : BeginsPipeline(calls[k])
    BY <2>1, <2>3, <2>4 DEF OneOuterJoin
  <2> QED BY <2>1, <2>3, <2>5
<1> QED BY <1>1, <1>2

(* A left outer join opens a continuation, which gets what follows the     *)
(* lookup.                                                                 *)
LEMMA OuterClosed ==
  ASSUME PlanInv, ColumnsInv, OneOuterJoin, NEW d \in Nat, d + 1 <= Len(calls),
         StageOK(pipelines, continuations, d), ClosedSoFar(pipelines, continuations, d),
         OuterProbe(calls[d + 1])
  PROVE  LET c == calls[d + 1]
             upToLookup == Attach(pipelines, LookupSubops(c))
             at == Len(Last(upToLookup).subops)
             to == Attach(StopParallelCodegen(upToLookup), MatchSubops(c))
         IN ClosedSoFar(to, AttachContinuation(at, UnmatchedSource(c)), d + 1)
<1> DEFINE c == calls[d + 1]
           cs == continuations
           n == Len(pipelines)
           old == pipelines[n].subops
           first == LookupSubops(c)
           second == MatchSubops(c)
           up == Attach(pipelines, first)
           at == Len(Last(up).subops)
           src == UnmatchedSource(c)
           stopped == StopParallelCodegen(up)
           more == AttachContinuation(at, src)
           to == Attach(stopped, second)
           e == d + 1
<1>1. /\ IsSeq(c.row) /\ IsSeq(c.outLeft) /\ IsSeq(c.outRight)
      /\ ColumnsOK(c) /\ c.call = "JoinProbe"
  BY CallFacts DEF ListsOK, OuterProbe
<1>2. /\ MadeBy(first, c.op,
                {"ScratchPad", "KeyPacker", "hash_and_prefetch", "lookup_with_hash"},
                "scratch_pad_right")
      /\ IsSeq(first) /\ IsSeq(second)
  <2> HIDE DEF c
  <2>1. /\ MadeBy(first, c.op,
                  {"ScratchPad", "KeyPacker", "hash_and_prefetch", "lookup_with_hash"},
                  "scratch_pad_right")
        /\ MadeBy(second, c.op, {"ColumnFilterScope", "ColumnFilterLogic", "KeyUnpacker"}, "none")
    BY <1>1, LookupMade, MatchMade
  <2> HIDE DEF first, second
  <2> QED BY <2>1 DEF MadeBy
<1>3. /\ Appends(c, first \o second)
      /\ Adds({}, c, <<src>> \o second) /\ src.ins = << >>
  <2>1. ASSUME NEW ius, NoneOwned(c, ius), ReadsOnly(c, ius)
        PROVE  Adds(ius, c, first \o second)
    <3> HIDE DEF c
    <3> QED BY <1>1, <2>1, ProbeAdds
  <2>2. Adds({}, c, <<src>> \o second) /\ src.ins = << >>
    <3> HIDE DEF c
    <3> QED BY <1>1, UnmatchedAdds
  <2>3. IsSeq(first \o second)
    <3> HIDE DEF first, second
    <3> QED BY <1>2, SeqConcat
  <2> HIDE DEF c, first, second, src
  <2> QED BY <1>1, <2>1, <2>2, <2>3 DEF Appends
<1> HIDE DEF first, second, src
<1>4. /\ n > 0 /\ StageOK(up, cs, e) /\ Len(up) = n
  <2> DEFINE sorts == {"ScratchPad", "KeyPacker", "hash_and_prefetch", "lookup_with_hash"}
             part == "scratch_pad_right"
  <2>1. n > 0
    BY <1>1, CurrentStage
  <2>2. sorts \subseteq {"ScratchPad", "KeyPacker", "hash_and_prefetch", "lookup_with_hash",
                         "ColumnFilterScope", "ColumnFilterLogic", "KeyUnpacker"}
    OBVIOUS
  <2>3. MadeBy(first, c.op, sorts, part)
    BY <1>2
  <2> QED BY <1>1, <2>1, <2>2, <2>3, CurrentStage
<1>5. PipesOK(pipelines) /\ n \in Nat /\ n \in 1 .. n /\ IsSeq(old) /\ IsSeq(cs)
  <2>1. PipesOK(pipelines) /\ DagOK(pipelines, cs, d)
    BY DEF StageOK, DagOK
  <2> QED BY <1>4, <2>1, PipeAt, ContinuationBegun
<1>6. /\ up[n].subops = old \o first
      /\ \A p \in 1 .. n : p # n => up[p] = pipelines[p]
  BY <1>2, <1>4, <1>5, PipeAttached
<1>7. at = Len(up[n].subops)
  BY <1>4 DEF Last
<1> HIDE DEF up, at
<1>8. /\ DagOK(stopped, cs, e) /\ Len(stopped) = n
      /\ \A p \in 1 .. n : stopped[p].subops = up[p].subops
  <2>1. DagOK(up, cs, e) /\ e \in Nat /\ Len(up) > 0
    BY <1>4 DEF StageOK
  <2> HIDE DEF e, n
  <2> QED BY <1>4, <2>1, StopOK
<1> HIDE DEF stopped
<1>9. /\ Len(to) = n /\ to[n].subops = stopped[n].subops \o second
      /\ \A p \in 1 .. n : p # n => to[p] = stopped[p]
  <2>1. PipesOK(stopped) /\ Len(stopped) > 0
    BY <1>4, <1>8 DEF DagOK
  <2> HIDE DEF n, to
  <2>2. /\ Len(to) = Len(stopped)
        /\ to[Len(stopped)].subops = stopped[Len(stopped)].subops \o second
        /\ \A p \in 1 .. Len(stopped) : p # Len(stopped) => to[p] = stopped[p]
    BY <1>2, <2>1, PipeAttached DEF to
  <2> QED BY <1>8, <2>2
<1> HIDE DEF to
<1> DEFINE x == old \o first
<1>10. /\ to[n].subops = x \o second /\ at = Len(x) /\ IsSeq(x)
       /\ \A p \in 1 .. n : p # n => to[p].subops = pipelines[p].subops
  <2>1. IsSeq(x)
    <3> HIDE DEF old
    <3> QED BY <1>2, <1>5, SeqConcat
  <2> HIDE DEF old, x
  <2>2. up[n].subops = x /\ stopped[n].subops = up[n].subops
    BY <1>5, <1>6, <1>8 DEF x
  <2> QED BY <1>6, <1>7, <1>8, <1>9, <2>1, <2>2
<1>11. Open(to[n].subops, e)
  <2>1. Regroups(old, first, second)
    <3> HIDE DEF old
    <3> QED BY ONLY <1>2, <1>5, ConcatThree
  <2>2. Open(old, d)
    BY <1>1, ScanFirst DEF ClosedSoFar
  <2>3. Open(old \o (first \o second), d + 1)
    <3> HIDE DEF old
    <3> QED BY <1>3, <2>2, OpenAttached
  <2> HIDE DEF old
  <2>4. to[n].subops = old \o (first \o second)
    BY <1>10, <2>1, Zenon DEF Regroups, x
  <2> QED BY <2>3, <2>4
<1>12. Len(cs) = 0
  BY <1>5, NoneBefore
<1> DEFINE begun == [index |-> at, pipe |-> [subops |-> <<src>>, parallel |-> FALSE]]
<1>13. Len(more) = 1 /\ more[1] = begun
  <2>1. more = Append(cs, begun)
    BY DEF AttachContinuation
  <2> HIDE DEF more, begun, cs
  <2> QED BY <1>5, <1>12, <2>1, SeqAppended
<1> HIDE DEF more, x, old
<1>14. IfClosed(to[n], begun) = <<src>> \o second
  <2>1. begun.index = Len(x) /\ begun.pipe.subops = <<src>>
    BY <1>10
  <2>2. SubSeq(x \o second, Len(x) + 1, Len(x \o second)) = second
    BY ONLY <1>2, <1>10, RestBegins
  <2> HIDE DEF begun
  <2>3. Rest(to[n], begun) = second
    BY <1>10, <2>1, <2>2 DEF Rest
  <2> QED BY <2>1, <2>3 DEF IfClosed
<1> HIDE DEF begun
<1>15. Open(IfClosed(to[n], begun), e)
  <2> DEFINE b == <<src>> \o second
  <2>1. Len(b) = 1 + Len(second) /\ b[1] = src /\ Len(second) \in Nat
    BY <1>2, SeqFirst, SeqElements
  <2> HIDE DEF b
  <2>2. Len(b) > 0 /\ b[1].ins = << >> /\ Adds({}, c, b)
    BY <1>3, <2>1 DEF b
  <2>3. Open(b, d + 1)
    BY <1>1, <2>2, OpenBegun
  <2> QED BY <1>14, <2>3 DEF b
<1>16. \A p \in 1 .. n - 1 : Whole(to[p].subops)
  <2>1. \A p \in 1 .. n - 1 : p \in 1 .. n /\ p # n
    BY <1>5
  <2>2. \A p \in 1 .. n - 1 : Whole(pipelines[p].subops)
    BY DEF ClosedSoFar
  <2> QED BY <1>10, <2>1, <2>2
<1>17. /\ \E i \in 1 .. e : /\ OuterProbe(calls[i])
                            /\ \A k \in i + 1 .. e : ~BeginsPipeline(calls[k])
       /\ e # 0
  <2>1. e \in 1 .. e /\ e # 0 /\ \A k \in e + 1 .. e : FALSE
    OBVIOUS
  <2> QED BY <2>1
<1>18. \A k \in 1 .. Len(more) : k = 1
  BY <1>13
<1> HIDE DEF e, n
<1>19. ClosedSoFar(to, more, e)
  BY <1>9, <1>11, <1>13, <1>15, <1>16, <1>17, <1>18 DEF ClosedSoFar
<1> QED BY <1>19 DEF to, more, stopped, up, at, first, second, src, e

(* Pipelines, and the continuations of the last of them, that are as they  *)
(* should be in the end.                                                   *)
AllWhole(pipes, cs) ==
  /\ PipesOK(pipes) /\ IsSeq(cs) /\ Len(cs) \in 0 .. 1
  /\ Len(cs) > 0 => Len(pipes) > 0
  /\ \A p \in 1 .. Len(pipes) : Whole(pipes[p].subops)
  /\ \A x \in 1 .. Len(cs) :
       /\ cs[x].pipe = [subops |-> cs[x].pipe.subops, parallel |-> FALSE]
       /\ IsSeq(cs[x].pipe.subops) /\ cs[x].index \in Nat
       /\ Whole(IfClosed(pipes[Len(pipes)], cs[x]))

(* Pushing back a pipeline.                                                *)
LEMMA PipePushed ==
  ASSUME NEW pipes, PipesOK(pipes), NEW pipe, IsPipe(pipe)
  PROVE  /\ PipesOK(Append(pipes, pipe)) /\ Len(Append(pipes, pipe)) = Len(pipes) + 1
         /\ \A p \in 1 .. Len(pipes) : Append(pipes, pipe)[p] = pipes[p]
         /\ Append(pipes, pipe)[Len(pipes) + 1] = pipe
<1> DEFINE n == Len(pipes)
           to == Append(pipes, pipe)
<1>1. IsSeq(pipes) /\ n \in Nat /\ \A p \in 1 .. n : IsPipe(pipes[p])
  BY PipeAt
<1>2. /\ IsSeq(to) /\ Len(to) = n + 1 /\ to[n + 1] = pipe
      /\ \A p \in 1 .. n : to[p] = pipes[p]
  BY <1>1, SeqAppended
<1> HIDE DEF to, n
<1>3. \A p \in 1 .. n + 1 : p \in 1 .. n \/ p = n + 1
  BY <1>1
<1>4. PipesOK(to)
  BY <1>1, <1>2, <1>3 DEF PipesOK
<1> QED BY <1>2, <1>4 DEF to, n

(* The continuation, if there is one, is closed to what it would be.       *)
LEMMA WholeClosed ==
  ASSUME NEW pipes, AllWhole(pipes, continuations)
  PROVE  LET r == FoldLeft(CloseContinuation, pipes, continuations)
         IN PipesOK(r) /\ \A p \in 1 .. Len(r) : Whole(r[p].subops)
<1> DEFINE cs == continuations
           n == Len(pipes)
           r == FoldLeft(CloseContinuation, pipes, cs)
<1>1. PICK e : /\ e[0] = pipes
               /\ \A k \in 1 .. Len(cs) : e[k] = CloseContinuation(e[k - 1], cs[k])
               /\ r = e[Len(cs)]
  <2>1. IsSeq(cs)
    BY DEF AllWhole
  <2> HIDE DEF cs
  <2> QED BY ONLY <2>1, ContinuationsClosed, ZenonT(60)
<1> HIDE DEF r
<1>2. CASE Len(cs) = 0
  <2>1. r = pipes
    BY <1>1, <1>2
  <2> QED BY <2>1 DEF AllWhole, r
<1>3. CASE Len(cs) = 1
  <2> DEFINE c == cs[1]
             last == pipes[n]
             more == IfClosed(last, c)
             from == c.pipe
             front == from.subops
             no == FALSE
             rest == SubSeq(last.subops, c.index + 1, Len(last.subops))
             pipe == AppendTo(from, rest)
  <2>1. /\ PipesOK(pipes) /\ n > 0 /\ \A p \in 1 .. n : Whole(pipes[p].subops)
        /\ from = [subops |-> front, parallel |-> no] /\ IsSeq(front)
        /\ c.index \in Nat /\ Whole(more)
    BY <1>3 DEF AllWhole
  <2>2. n \in Nat /\ n \in 1 .. n /\ IsSeq(last.subops)
    BY <2>1, PipeAt
  <2>3. IsSeq(rest)
    <3> DEFINE a == last.subops
               i == c.index
    <3> HIDE DEF a, i
    <3>1. IsSeq(a) /\ i \in Nat
      BY <2>1, <2>2 DEF a, i
    <3>2. IsSeq(SubSeq(a, i + 1, Len(a)))
      BY <3>1, SeqDropped
    <3> QED BY <3>2 DEF a, i
  <2>4. r = Append(pipes, pipe)
    <3>1. r = CloseContinuation(pipes, c)
      <4>1. r = e[1] /\ e[1] = CloseContinuation(e[1 - 1], cs[1]) /\ 1 - 1 = 0
        BY <1>1, <1>3
      <4> QED BY <1>1, <4>1
    <3> HIDE DEF c
    <3> QED BY <3>1 DEF CloseContinuation, Last
  <2> HIDE DEF rest, front, from, no
  <2>5. pipe = [subops |-> front \o rest, parallel |-> no]
    BY ONLY <2>1, SubopsAppended
  <2>6. IsSeq(front \o rest)
    BY <2>1, <2>3, SeqConcat
  <2>7. more = front \o rest
    BY DEF IfClosed, Rest, rest, front, from
  <2> HIDE DEF pipe, more, c, last
  <2> DEFINE all == front \o rest
  <2>8. IsSeq(all) /\ Whole(all) /\ pipe = [subops |-> all, parallel |-> no] /\ no \in BOOLEAN
    BY <2>1, <2>5, <2>6, <2>7 DEF no
  <2> HIDE DEF all
  <2>9. pipe.subops = all /\ pipe.parallel = no
    BY <2>8
  <2>10. IsPipe(pipe)
    BY <2>8, <2>9, Zenon DEF IsPipe
  <2>11. /\ PipesOK(r) /\ Len(r) = n + 1 /\ r[n + 1] = pipe
         /\ \A p \in 1 .. n : r[p] = pipes[p]
    BY <2>1, <2>4, <2>10, PipePushed
  <2>12. \A p \in 1 .. n + 1 : p \in 1 .. n \/ p = n + 1
    BY <2>2
  <2>13. \A p \in 1 .. Len(r) : Whole(r[p].subops)
    BY <2>1, <2>8, <2>9, <2>11, <2>12
  <2> QED BY <2>11, <2>13 DEF r
<1> QED BY <1>2, <1>3 DEF AllWhole

(* An empty pipeline gets these suboperators.                              *)
LEMMA SeqEmpty ==
  ASSUME NEW a, NEW b, a = << >>, IsSeq(b)
  PROVE  a \o b = b
<1>1. IsSeq(a) /\ Len(a) = 0
  BY SeqNone
<1> DEFINE c == a \o b
           m == Len(b)
<1>2. /\ m \in Nat /\ IsSeq(c) /\ Len(c) = 0 + m
      /\ \A k \in 0 + 1 .. 0 + m : c[k] = b[k - 0]
  BY <1>1, SeqConcat, SeqElements
<1> HIDE DEF c
<1>3. Len(c) = Len(b) /\ \A k \in 1 .. Len(c) : c[k] = b[k]
  BY <1>2
<1>4. c = b
  BY <1>2, <1>3, SeqSame
<1> QED BY <1>4 DEF c

(* The next pipeline begins when those before it are done.                 *)
LEMMA BegunClosed ==
  ASSUME NEW pipes, AllWhole(pipes, continuations), NEW d \in Nat,
         NEW b, Adds({}, calls[d + 1], b), Len(b) > 0, b[1].ins = << >>,
         calls[d + 1].call \in {"TableScan", "Aggregation"}
  PROVE  ClosedSoFar(Attach(BuildNewPipeline(pipes), b), << >>, d + 1)
<1> DEFINE r == FoldLeft(CloseContinuation, pipes, continuations)
           new == Append(r, EmptyPipeline)
           m == Len(r)
           to == Attach(new, b)
           none == << >>
<1>1. PipesOK(r) /\ \A p \in 1 .. m : Whole(r[p].subops)
  BY WholeClosed
<1>2. BuildNewPipeline(pipes) = new
  BY DEF BuildNewPipeline
<1> HIDE DEF r
<1>3. IsPipe(EmptyPipeline) /\ EmptyPipeline.subops = none
  BY SeqNone DEF EmptyPipeline, IsPipe
<1> HIDE DEF none
<1>4. /\ PipesOK(new) /\ Len(new) = m + 1 /\ new[m + 1] = EmptyPipeline
      /\ \A p \in 1 .. m : new[p] = r[p]
  BY <1>1, <1>3, PipePushed
<1>5. m \in Nat
  BY <1>1, PipeAt
<1> HIDE DEF new
<1>6. IsSeq(b)
  BY DEF Adds
<1>7. /\ Len(to) = m + 1 /\ to[m + 1].subops = new[m + 1].subops \o b
      /\ \A p \in 1 .. m + 1 : p # m + 1 => to[p] = new[p]
  <2>1. Len(new) > 0
    BY <1>4, <1>5
  <2>2. /\ Len(to) = Len(new) /\ to[Len(new)].subops = new[Len(new)].subops \o b
        /\ \A p \in 1 .. Len(new) : p # Len(new) => to[p] = new[p]
    BY <1>4, <1>6, <2>1, PipeAttached
  <2> HIDE DEF to, m
  <2> QED BY <1>4, <2>2
<1> HIDE DEF to, m
<1>8. to[m + 1].subops = b
  <2>1. none \o b = b
    BY <1>6, SeqEmpty DEF none
  <2> QED BY <1>3, <1>4, <1>7, <2>1
<1>9. Open(b, d + 1)
  BY OpenBegun
<1>10. \A p \in 1 .. (m + 1) - 1 : Whole(to[p].subops)
  <2>1. \A p \in 1 .. (m + 1) - 1 : p \in 1 .. m /\ p \in 1 .. m + 1 /\ p # m + 1
    BY <1>5
  <2> QED BY <1>1, <1>4, <1>7, <2>1 DEF m
<1>11. Len(none) = 0 /\ d + 1 # 0 /\ \A x \in 1 .. Len(none) : FALSE
  BY DEF none
<1> DEFINE e == d + 1
<1> HIDE DEF e
<1>12. ClosedSoFar(to, none, e)
  <2>1. Len(to) = m + 1 /\ Open(to[Len(to)].subops, e) /\ e # 0
    BY <1>7, <1>8, <1>9, <1>11 DEF e
  <2>2. \A p \in 1 .. Len(to) - 1 : Whole(to[p].subops)
    BY <1>10, <2>1
  <2> QED BY <1>11, <2>1, <2>2 DEF ClosedSoFar
<1> QED BY <1>2, <1>12 DEF to, none, e

(* All pipelines are done after a call that ends them.                     *)
LEMMA EndedWhole ==
  ASSUME NEW d \in Nat, d # 0, NEW pipes, NEW cs, StageOK(pipes, cs, d), ClosedSoFar(pipes, cs, d),
         calls[d].call \in {"JoinBuild", "Print"}
  PROVE  AllWhole(pipes, cs)
<1> DEFINE n == Len(pipes)
<1>1. DagOK(pipes, cs, d) /\ PipesOK(pipes) /\ n > 0
  BY DEF StageOK, DagOK
<1>2. n \in Nat /\ \A p \in 1 .. n : p \in 1 .. n - 1 \/ p = n
  BY <1>1, PipeAt
<1>3. ASSUME NEW a, Open(a, d) PROVE Whole(a)
  BY <1>3 DEF Open, Whole
<1>4. \A p \in 1 .. n : Whole(pipes[p].subops)
  <2>1. Whole(pipes[n].subops)
    BY <1>3 DEF ClosedSoFar
  <2> QED BY <1>2, <2>1 DEF ClosedSoFar
<1>5. IsSeq(cs) /\ Len(cs) \in 0 .. 1
  BY <1>1, ContinuationBegun DEF ClosedSoFar
<1>6. ASSUME NEW x \in 1 .. Len(cs)
      PROVE  /\ cs[x].pipe = [subops |-> cs[x].pipe.subops, parallel |-> FALSE]
             /\ IsSeq(cs[x].pipe.subops) /\ cs[x].index \in Nat
             /\ Whole(IfClosed(pipes[n], cs[x]))
  <2>1. /\ cs[x].pipe = [subops |-> cs[x].pipe.subops, parallel |-> FALSE]
        /\ IsSeq(cs[x].pipe.subops) /\ cs[x].index \in Nat
    BY <1>1, ContinuationBegun, Zenon
  <2>2. Whole(IfClosed(pipes[n], cs[x]))
    BY <1>3 DEF ClosedSoFar
  <2> QED BY <2>1, <2>2
<1> QED BY <1>1, <1>4, <1>5, <1>6, Zenon DEF AllWhole

(* A table scan begins a plan, or follows the build side of a join.        *)
LEMMA ScanClosed ==
  ASSUME PlanInv, ColumnsInv, NEW d \in Nat, d + 1 <= Len(calls),
         StageOK(pipelines, continuations, d), ClosedSoFar(pipelines, continuations, d),
         calls[d + 1].call = "TableScan"
  PROVE  ClosedSoFar(Attach(BuildNewPipeline(pipelines), ScanSubops(calls[d + 1])), << >>, d + 1)
<1> DEFINE c == calls[d + 1]
           b == ScanSubops(c)
           cs == continuations
<1>1. Adds({}, c, b) /\ Len(b) > 0 /\ b[1].ins = << >>
  <2>1. IsSeq(c.ius) /\ ColumnsOK(c) /\ c.call = "TableScan"
    BY CallFacts DEF ListsOK
  <2> HIDE DEF c
  <2> QED BY <2>1, ScanAdds
<1>2. AllWhole(pipelines, cs)
  <2>1. CASE d = 0
    <3>1. pipelines = << >> /\ DagOK(pipelines, cs, d) /\ PipesOK(pipelines)
      BY <2>1 DEF ClosedSoFar, StageOK, DagOK
    <3>2. Len(pipelines) = 0 /\ ~(Len(pipelines) > 0)
      BY <3>1, SeqNone
    <3>3. IsSeq(cs) /\ Len(cs) = 0
      BY <3>1, <3>2, ContinuationBegun
    <3>4. 1 .. Len(pipelines) = {} /\ 1 .. Len(cs) = {} /\ Len(cs) \in 0 .. 1
      BY <3>2, <3>3
    <3> QED BY <3>1, <3>2, <3>3, <3>4 DEF AllWhole
  <2>2. CASE d # 0
    <3> DEFINE e == d + 1
    <3>1. e \in 1 .. Len(calls) /\ e > 1 /\ e - 1 = d
      BY <2>2, CallFacts
    <3> HIDE DEF e
    <3>2. calls[e].call = "TableScan"
      BY DEF e
    <3>3. calls[e - 1].call = "JoinBuild"
      BY <3>1, <3>2 DEF ColumnsInv
    <3>4. calls[d].call = "JoinBuild"
      BY <3>1, <3>3
    <3> QED BY <2>2, <3>4, EndedWhole
  <2> QED BY <2>1, <2>2
<1> HIDE DEF b
<1>3. ClosedSoFar(Attach(BuildNewPipeline(pipelines), b), << >>, d + 1)
  BY <1>1, <1>2, BegunClosed
<1> QED BY <1>3 DEF b

(* A pipeline to which an aggregation attaches.                            *)
LEMMA AggregationEnds ==
  ASSUME PlanInv, ColumnsInv, NEW d \in Nat, d + 1 <= Len(calls), NEW a, Open(a, d),
         calls[d + 1].call = "Aggregation"
  PROVE  Whole(a \o AggregateSubops(calls[d + 1]))
<1> DEFINE c == calls[d + 1]
           b == AggregateSubops(c)
           ius == Outs(a)
<1>1. NoneOwned(c, ius) /\ ReadsOnly(c, ius)
  BY ReadsThere
<1>2. PICK outs : Gives(ius, b, outs) /\ SinkLast(b)
  <2>1. IsSeq(c.groupBy) /\ IsSeq(c.granules) /\ ColumnsOK(c) /\ c.call = "Aggregation"
    BY CallFacts DEF ListsOK
  <2> HIDE DEF c, ius
  <2> QED BY <1>1, <2>1, AggregateEnds
<1> HIDE DEF b, ius
<1>3. IsSeq(a) /\ Len(a) > 0 /\ a[1].ins = << >> /\ Extends({}, a)
  BY DEF Open, Sound
<1>4. Gives({}, a, ius) /\ Gives({} \cup ius, b, outs)
  BY <1>2, <1>3 DEF Gives, ius
<1>5. Gives({}, a \o b, ius \cup outs) /\ Len(a \o b) > 0 /\ (a \o b)[1] = a[1]
  BY ONLY <1>3, <1>4, GivesThen
<1>6. (a \o b)[Len(a \o b)].outs = << >>
  BY <1>2, <1>3, SinkAppended DEF Gives
<1> DEFINE ab == a \o b
<1> HIDE DEF ab
<1>7. /\ IsSeq(ab) /\ Extends({}, ab) /\ Len(ab) > 0 /\ ab[1].ins = << >>
      /\ ab[Len(ab)].outs = << >>
  BY <1>3, <1>5, <1>6 DEF Gives, ab
<1>8. Whole(ab)
  BY <1>7 DEF Whole, Sound
<1> QED BY <1>8 DEF ab, b

(* An aggregation ends the last pipeline, and begins another.              *)
LEMMA AggregationClosed ==
  ASSUME PlanInv, ColumnsInv, NEW d \in Nat, d + 1 <= Len(calls),
         StageOK(pipelines, continuations, d), ClosedSoFar(pipelines, continuations, d),
         calls[d + 1].call = "Aggregation"
  PROVE  LET c == calls[d + 1]
             aggregating == Attach(pipelines, AggregateSubops(c))
         IN ClosedSoFar(Attach(BuildNewPipeline(aggregating), ReadGroupsSubops(c)), << >>, d + 1)
<1> DEFINE c == calls[d + 1]
           n == Len(pipelines)
           last == pipelines[n]
           cs == continuations
           first == AggregateSubops(c)
           second == ReadGroupsSubops(c)
           to == Attach(pipelines, first)
<1>1. /\ IsSeq(c.groupBy) /\ IsSeq(c.granules) /\ IsSeq(c.keys) /\ IsSeq(c.results)
      /\ ColumnsOK(c) /\ c.call = "Aggregation"
  BY CallFacts DEF ListsOK
<1>2. Adds({}, c, second) /\ Len(second) > 0 /\ second[1].ins = << >>
  <2> HIDE DEF c
  <2> QED BY <1>1, ReadGroupsAdds
<1>3. IsSeq(first)
  <2> HIDE DEF c
  <2>1. MadeBy(first, c.op, {"ScratchPad", "KeyPacker", "lookup_or_insert", "Aggregator"},
               "packed_ht_key")
    BY <1>1, AggregateMade
  <2> HIDE DEF first
  <2> QED BY <2>1 DEF MadeBy
<1>4. ASSUME NEW a, Open(a, d) PROVE Whole(a \o first)
  BY <1>4, AggregationEnds
<1> HIDE DEF first, second
<1>5. d > 0 /\ d # 0
  BY <1>1, ScanFirst
<1>6. /\ n > 0 /\ PipesOK(pipelines) /\ DagOK(pipelines, cs, d)
  BY <1>5 DEF StageOK, DagOK
<1>7. n \in Nat /\ n \in 1 .. n /\ IsSeq(last.subops)
  BY <1>6, PipeAt
<1>8. /\ Len(to) = n /\ to[n].subops = last.subops \o first /\ PipesOK(to)
      /\ \A p \in 1 .. n : p # n => to[p] = pipelines[p]
  BY <1>3, <1>6, PipeAttached
<1> HIDE DEF to
<1>9. \A p \in 1 .. n : Whole(to[p].subops)
  <2>1. Open(last.subops, d) /\ \A p \in 1 .. n - 1 : Whole(pipelines[p].subops)
    BY <1>5 DEF ClosedSoFar
  <2>2. Whole(to[n].subops)
    BY <1>4, <1>8, <2>1
  <2>3. \A p \in 1 .. n : p = n \/ (p \in 1 .. n - 1 /\ p # n)
    BY <1>7
  <2> QED BY <1>8, <2>1, <2>2, <2>3
<1>10. IsSeq(cs) /\ Len(cs) \in 0 .. 1
  BY <1>6, ContinuationBegun DEF ClosedSoFar
<1>11. ASSUME NEW x \in 1 .. Len(cs)
       PROVE  /\ cs[x].pipe = [subops |-> cs[x].pipe.subops, parallel |-> FALSE]
              /\ IsSeq(cs[x].pipe.subops) /\ cs[x].index \in Nat
              /\ Whole(IfClosed(to[n], cs[x]))
  <2> DEFINE con == cs[x]
             now == IfClosed(last, con)
             end == to[n]
  <2>1. /\ con.pipe = [subops |-> con.pipe.subops, parallel |-> FALSE]
        /\ con.index \in Nat /\ con.index <= Len(last.subops) /\ IsSeq(con.pipe.subops)
    BY <1>6, ContinuationBegun, Zenon
  <2>2. Open(now, d)
    BY DEF ClosedSoFar
  <2>3. end.subops = last.subops \o first /\ IsSeq(last.subops)
    BY <1>7, <1>8
  <2> HIDE DEF con, last, end
  <2>4. Follows(end, last, first, con)
    BY ONLY <1>3, <2>1, <2>3, IfClosedAttached
  <2>5. IfClosed(end, con) = now \o first
    BY <2>4, Zenon DEF Follows
  <2> HIDE DEF now
  <2>6. Whole(IfClosed(end, con))
    BY <1>4, <2>2, <2>5
  <2> QED BY <2>1, <2>6, Zenon DEF con, end
<1>12. AllWhole(to, cs)
  <2>1. Len(to) = n /\ Len(to) > 0
    BY <1>6, <1>8
  <2> HIDE DEF n, cs
  <2> QED BY <1>8, <1>9, <1>10, <1>11, <2>1 DEF AllWhole
<1>13. ClosedSoFar(Attach(BuildNewPipeline(to), second), << >>, d + 1)
  BY <1>1, <1>2, <1>12, BegunClosed
<1> QED BY <1>13 DEF to, first, second

-----------------------------------------------------------------------------
(* The inductive invariant.                                                *)

(* A query begins with a plan of ColumnsAssumption.                        *)
LEMMA InitColumns ==
  ASSUME PlanInv, NEW r \in Runs, plan = Plans[r[1]]
  PROVE  ColumnsInv
<1> DEFINE cs == Plans[r[1]].calls
<1>1. calls = cs /\ DOMAIN calls = 1 .. Len(calls)
  BY SeqElements DEF calls, PlanInv
<1>2. \A i \in DOMAIN cs :
        /\ \A j \in DOMAIN MadeIUs(cs[i]) :
             /\ MadeIUs(cs[i])[j].op = cs[i].op /\ MadeIUs(cs[i])[j].part \notin OwnParts
             /\ \A k \in 1 .. j - 1 : MadeIUs(cs[i])[k] # MadeIUs(cs[i])[j]
        /\ ReadsOnly(cs[i], Visible(cs, i - 1))
        /\ i > 1 => (cs[i].call = "TableScan" <=> cs[i - 1].call = "JoinBuild")
        /\ cs[i].call = "Print" <=> i = Len(cs)
        /\ cs[i].call = "JoinBuild" => cs[i].row # << >>
        /\ cs[i].call = "JoinProbe" /\ cs[i].type = "LeftSemi" => cs[i].outRight = << >>
        /\ cs[i].call = "Aggregation" => cs[i].granules # << >>
        /\ cs[i].call = "Print" => cs[i].ius # << >>
  BY ColumnsAssumption, Zenon
<1> HIDE DEF cs
<1>3. DOMAIN cs = 1 .. Len(cs)
  BY <1>1
<1>4. \A i \in 1 .. Len(cs) :
        /\ ColumnsOK(cs[i]) /\ ReadsOnly(cs[i], Visible(cs, i - 1))
        /\ i > 1 => (cs[i].call = "TableScan" <=> cs[i - 1].call = "JoinBuild")
        /\ cs[i].call = "Print" <=> i = Len(cs)
  BY <1>2, <1>3, ZenonT(60) DEF ColumnsOK
<1> QED BY <1>1, <1>4, Zenon DEF ColumnsInv

(* A query keeps the columns of its plan.                                  *)
LEMMA ColumnsKept ==
  ASSUME ColumnsInv, plan' = plan
  PROVE  ColumnsInv' /\ calls' = calls /\ (OneOuterJoin' => OneOuterJoin)
<1>1. calls' = calls
  BY DEF calls
<1>2. ColumnsInv'
  BY <1>1 DEF ColumnsInv
<1>3. OneOuterJoin' => OneOuterJoin
  BY <1>1 DEF OneOuterJoin
<1> QED BY <1>1, <1>2, <1>3

(* What a step leaves.                                                     *)
LEMMA ClosedLeft ==
  ASSUME calls' = calls, ClosedSoFar(pipelines', continuations', decayed')
  PROVE  ClosedSoFar(pipelines, continuations, decayed)'
  BY DEF ClosedSoFar, Open

(* Every call of decay keeps pipelines closed.                             *)
LEMMA CallsClosed ==
  ASSUME DagInv, ColumnsInv, OneOuterJoin, ClosedSoFar(pipelines, continuations, decayed), Decay
  PROVE  ClosedSoFar(pipelines', continuations', decayed')
<1> DEFINE d == decayed
           c == calls[d + 1]
           pipes == pipelines
           cs == continuations
           Facts(call) ==
             /\ PlanInv /\ d \in Nat /\ d + 1 <= Len(calls) /\ StageOK(pipes, cs, d)
             /\ NextCall = c /\ c.call = call /\ ListsOK(c) /\ ColumnsOK(c) /\ decayed' = d + 1
<1>1. ASSUME NEW call, Decaying(call) PROVE Facts(call)
  <2>1. /\ PlanInv /\ d \in Nat /\ d + 1 <= Len(calls) /\ StageOK(pipes, cs, d)
        /\ NextCall = c /\ c.call = call /\ ListsOK(NextCall)
    BY <1>1, DecayFacts
  <2>2. ColumnsOK(c)
    BY <2>1, CallFacts
  <2>3. decayed' = d + 1
    BY <1>1 DEF Decaying
  <2> QED BY <2>1, <2>2, <2>3
<1>2. ASSUME NEW call, Facts(call), NEW b, Appends(c, b), pipelines' = Attach(pipes, b),
             continuations' = cs, call \in {"ExpressionOp", "Filter", "JoinBuild", "JoinProbe", "Print"}
      PROVE  ClosedSoFar(pipelines', continuations', decayed')
  <2>1. ~BeginsPipeline(c)
    BY <1>2 DEF BeginsPipeline
  <2>2. ClosedSoFar(Attach(pipes, b), cs, d + 1)
    BY <1>2, <2>1, CurrentClosed
  <2> QED BY <1>2, <2>2
<1>3. CASE DecayTableScan
  <2>1. Facts("TableScan")
    BY <1>1, <1>3 DEF DecayTableScan
  <2>2. pipelines' = Attach(BuildNewPipeline(pipelines), ScanSubops(c)) /\ continuations' = << >>
    BY <1>3, <2>1 DEF DecayTableScan
  <2>3. ClosedSoFar(Attach(BuildNewPipeline(pipelines), ScanSubops(c)), << >>, d + 1)
    BY <2>1, ScanClosed
  <2> QED BY <2>1, <2>2, <2>3
<1>4. CASE DecayExpressionOp
  <2> DEFINE b == ExpressionSubops(c)
  <2>1. Facts("ExpressionOp")
    BY <1>1, <1>4 DEF DecayExpressionOp
  <2>2. pipelines' = Attach(pipes, b) /\ continuations' = cs
    BY <1>4, <2>1 DEF DecayExpressionOp, AttachToCurrent
  <2>3. Appends(c, b)
    <3>1. c.call = "ExpressionOp" /\ IsSeq(c.nodes) /\ ColumnsOK(c)
      BY <2>1 DEF ListsOK
    <3> HIDE DEF c
    <3>2. MadeBy(b, c.op, {"RuntimeExpression", "Expression"}, "none")
      BY <3>1, ExpressionMade
    <3>3. \A ius : NoneOwned(c, ius) /\ ReadsOnly(c, ius) => Adds(ius, c, b)
      BY <3>1, ExpressionAdds
    <3> QED BY <3>1, <3>2, <3>3 DEF Appends, MadeBy
  <2> HIDE DEF b
  <2> QED BY <1>2, <2>1, <2>2, <2>3
<1>5. CASE DecayFilter
  <2> DEFINE b == FilterSubops(c.op, "bool", c.cond, FilterPseudo(c.op), c.old, c.new)
  <2>1. Facts("Filter")
    BY <1>1, <1>5 DEF DecayFilter
  <2>2. pipelines' = Attach(pipes, b) /\ continuations' = cs
    BY <1>5, <2>1 DEF DecayFilter, AttachToCurrent
  <2>3. Appends(c, b)
    <3>1. c.call = "Filter" /\ IsSeq(c.old) /\ ColumnsOK(c)
      BY <2>1 DEF ListsOK
    <3> HIDE DEF c
    <3>2. MadeBy(b, c.op, {"ColumnFilterScope", "ColumnFilterLogic"}, "none")
      BY <3>1, FilterMade
    <3>3. \A ius : NoneOwned(c, ius) /\ ReadsOnly(c, ius) => Adds(ius, c, b)
      BY <3>1, FilterAdds
    <3> HIDE DEF b
    <3> QED BY <3>1, <3>2, <3>3 DEF Appends, MadeBy
  <2> HIDE DEF b
  <2> QED BY <1>2, <2>1, <2>2, <2>3
<1>6. CASE DecayBuildSide
  <2> DEFINE b == BuildSubops(c)
  <2>1. Facts("JoinBuild")
    BY <1>1, <1>6 DEF DecayBuildSide
  <2>2. pipelines' = Attach(pipes, b) /\ continuations' = cs
    BY <1>6, <2>1 DEF DecayBuildSide
  <2>3. Appends(c, b)
    <3>1. c.call = "JoinBuild" /\ IsSeq(c.row) /\ ColumnsOK(c)
      BY <2>1 DEF ListsOK
    <3> HIDE DEF c
    <3>2. MadeBy(b, c.op, {"materialize_tuple", "KeyPacker"}, "lookup_left")
      BY <3>1, BuildMade
    <3>3. \A ius : NoneOwned(c, ius) /\ ReadsOnly(c, ius) => Adds(ius, c, b) /\ SinkLast(b)
      BY <3>1, BuildAdds
    <3> QED BY <3>1, <3>2, <3>3 DEF Appends, MadeBy
  <2> HIDE DEF b
  <2> QED BY <1>2, <2>1, <2>2, <2>3
<1>7. CASE DecayProbeSide
  <2> DEFINE b == LookupSubops(c) \o MatchSubops(c)
  <2>1. Facts("JoinProbe")
    BY <1>1, <1>7 DEF DecayProbeSide
  <2>2. pipelines' = Attach(pipes, b) /\ continuations' = cs
    BY <1>7, <2>1 DEF DecayProbeSide, AttachToCurrent
  <2>3. Appends(c, b)
    <3>1. /\ c.call = "JoinProbe" /\ IsSeq(c.row) /\ IsSeq(c.outLeft) /\ IsSeq(c.outRight)
          /\ ColumnsOK(c)
      BY <2>1 DEF ListsOK
    <3> HIDE DEF c
    <3>2. \A ius : NoneOwned(c, ius) /\ ReadsOnly(c, ius) => Adds(ius, c, b)
      BY <3>1, ProbeAdds
    <3>3. IsSeq(b)
      <4>1. /\ MadeBy(LookupSubops(c), c.op,
                      {"ScratchPad", "KeyPacker", "hash_and_prefetch", "lookup_with_hash"},
                      "scratch_pad_right")
            /\ MadeBy(MatchSubops(c), c.op,
                      {"ColumnFilterScope", "ColumnFilterLogic", "KeyUnpacker"}, "none")
        BY <3>1, LookupMade, MatchMade
      <4>2. IsSeq(LookupSubops(c)) /\ IsSeq(MatchSubops(c))
        BY <4>1 DEF MadeBy
      <4> QED BY <4>2, SeqConcat
    <3> HIDE DEF b
    <3> QED BY <3>1, <3>2, <3>3 DEF Appends
  <2> HIDE DEF b
  <2> QED BY <1>2, <2>1, <2>2, <2>3
<1>8. CASE DecayOuterProbeSide
  <2> DEFINE upToLookup == Attach(pipelines, LookupSubops(c))
             at == Len(Last(upToLookup).subops)
  <2>1. Facts("JoinProbe")
    BY <1>1, <1>8 DEF DecayOuterProbeSide
  <2>2. /\ pipelines' = Attach(StopParallelCodegen(upToLookup), MatchSubops(c))
        /\ continuations' = AttachContinuation(at, UnmatchedSource(c))
        /\ OuterProbe(c)
    BY <1>8, <2>1, Zenon DEF DecayOuterProbeSide, OuterProbe
  <2>3. ClosedSoFar(Attach(StopParallelCodegen(upToLookup), MatchSubops(c)),
                    AttachContinuation(at, UnmatchedSource(c)), d + 1)
    BY <2>1, <2>2, OuterClosed
  <2> QED BY <2>1, <2>2, <2>3
<1>9. CASE DecayAggregation
  <2> DEFINE aggregating == Attach(pipelines, AggregateSubops(c))
             to == Attach(BuildNewPipeline(aggregating), ReadGroupsSubops(c))
  <2>1. Facts("Aggregation")
    BY <1>1, <1>9 DEF DecayAggregation
  <2>2. pipelines' = to /\ continuations' = << >>
    BY <1>9, <2>1, Zenon DEF DecayAggregation
  <2>3. ClosedSoFar(to, << >>, d + 1)
    BY <2>1, AggregationClosed
  <2> QED BY <2>1, <2>2, <2>3
<1>10. CASE DecayPrint
  <2> DEFINE b == PrintSubops(c)
  <2>1. Facts("Print")
    BY <1>1, <1>10 DEF DecayPrint
  <2>2. pipelines' = Attach(pipes, b) /\ continuations' = cs
    BY <1>10, <2>1 DEF DecayPrint, AttachToCurrent
  <2>3. Appends(c, b)
    <3>1. c.call = "Print" /\ IsSeq(c.ius) /\ ColumnsOK(c)
      BY <2>1 DEF ListsOK
    <3> HIDE DEF c
    <3>2. MadeBy(b, c.op, {"FuseChunkSink"}, "none")
      BY <3>1, PrintMade
    <3>3. \A ius : ReadsOnly(c, ius) => Adds(ius, c, b) /\ SinkLast(b)
      BY <3>1, PrintAdds
    <3> QED BY <3>1, <3>2, <3>3 DEF Appends, MadeBy
  <2> HIDE DEF b
  <2> QED BY <1>2, <2>1, <2>2, <2>3
<1> QED BY <1>3, <1>4, <1>5, <1>6, <1>7, <1>8, <1>9, <1>10 DEF Decay

(* Nothing is there before the first call.                                 *)
LEMMA InitClosed == Init => ClosedInv
<1> SUFFICES ASSUME Init PROVE ClosedInv
  OBVIOUS
<1>1. DagInv /\ PlanInv
  BY InitInv DEF DagInv, DecayInv
<1>2. ColumnsInv
  BY <1>1, InitColumns DEF Init
<1>3. pipelines = << >> /\ continuations = << >> /\ decayed = 0
  BY DEF Init
<1>4. Len(pipelines) = 0 /\ Len(continuations) = 0
  BY <1>3
<1>5. ClosedSoFar(pipelines, continuations, decayed)
  <2>1. 1 .. Len(pipelines) - 1 = {} /\ 1 .. Len(continuations) = {}
    BY <1>4
  <2> QED BY <1>3, <1>4, <2>1 DEF ClosedSoFar
<1> QED BY <1>1, <1>2, <1>5 DEF ClosedInv

(* The steps of the run leave the pipelines as they are.                   *)
LEMMA NextClosed == ClosedInv /\ [Next]_vars => ClosedInv'
<1> SUFFICES ASSUME ClosedInv, [Next]_vars PROVE ClosedInv'
  OBVIOUS
<1>1. DagInv /\ ColumnsInv /\ DagInv'
  BY NextInv DEF ClosedInv
<1>2. /\ plan' = plan
      /\ Decay \/ UNCHANGED <<decayed, pipelines, continuations>>
  <2>1. CASE Decay
    BY <2>1 DEF Decay, Decaying, DecayTableScan, DecayExpressionOp, DecayFilter, DecayBuildSide,
                DecayProbeSide, DecayOuterProbeSide, DecayAggregation, DecayPrint
  <2>2. CASE PrepareQuery \/ RunPipeline \/ RunRuntimeTask \/ NextPipeline
    BY <2>2 DEF PrepareQuery, RunPipeline, RunRuntimeTask, NextPipeline, dagVars
  <2>3. CASE UNCHANGED vars
    BY <2>3 DEF vars, dagVars
  <2> QED BY <2>1, <2>2, <2>3 DEF Next
<1>3. ColumnsInv' /\ calls' = calls /\ (OneOuterJoin' => OneOuterJoin)
  BY <1>1, <1>2, ColumnsKept
<1>4. ASSUME OneOuterJoin' PROVE ClosedSoFar(pipelines, continuations, decayed)'
  <2>1. ClosedSoFar(pipelines, continuations, decayed) /\ OneOuterJoin
    BY <1>3, <1>4 DEF ClosedInv
  <2>2. ClosedSoFar(pipelines', continuations', decayed')
    <3>1. CASE Decay
      BY <1>1, <2>1, <3>1, CallsClosed
    <3>2. CASE UNCHANGED <<decayed, pipelines, continuations>>
      BY <2>1, <3>2
    <3> QED BY <1>2, <3>1, <3>2
  <2> QED BY <1>3, <2>2, ClosedLeft
<1> QED BY <1>1, <1>3, <1>4 DEF ClosedInv

(* All pipelines provide what they read, and no IU twice, whatever the     *)
(* plan: those that decay has built so far, and the continuations as they  *)
(* would be if they were closed now (Pipeline.cpp).                        *)
THEOREM ColumnsCorrect == Spec => []ClosedInv
<1>1. Init => ClosedInv
  BY InitClosed
<1>2. ClosedInv /\ [Next]_vars => ClosedInv'
  BY NextClosed
<1> QED BY <1>1, <1>2, PTL DEF Spec

(* A pipeline that is whole can be compiled.                               *)
LEMMA WholePipeline ==
  ASSUME NEW a, Whole(a)
  PROVE  /\ a # << >> /\ IsSource(Head(a)) /\ IsSink(Last(a))
         /\ \A i \in DOMAIN a :
              /\ ToSet(a[i].ins) \subseteq Provided(a, i)
              /\ ToSet(a[i].outs) \cap Provided(a, i) = {}
<1>1. IsSeq(a) /\ Len(a) > 0 /\ a[1].ins = << >> /\ Extends({}, a) /\ a[Len(a)].outs = << >>
  BY DEF Whole, Sound
<1>2. Len(a) \in Nat /\ DOMAIN a = 1 .. Len(a)
  BY <1>1, SeqElements
<1>3. a # << >>
  <2>1. Len(<< >>) = 0
    OBVIOUS
  <2> QED BY <1>1, <1>2, <2>1
<1>4. Head(a) = a[1]
  <2> DEFINE S == ToSet(a)
  <2>1. a \in Seq(S)
    BY <1>1 DEF IsSeq
  <2> HIDE DEF S
  <2> QED BY <1>3, <2>1
<1>5. IsSource(Head(a)) /\ IsSink(Last(a))
  BY <1>1, <1>4 DEF IsSource, IsSink, Last
<1>6. ASSUME NEW i \in DOMAIN a
      PROVE  /\ ToSet(a[i].ins) \subseteq Provided(a, i)
             /\ ToSet(a[i].outs) \cap Provided(a, i) = {}
  BY <1>1, <1>2 DEF Extends
<1> QED BY <1>3, <1>5, <1>6

(* Every pipeline can be compiled on its own (PipelineExecutor's assertion *)
(* on source and sink, the order in Pipeline::repipe), if no pipeline      *)
(* probes for a second left outer join before the next one begins.         *)
THEOREM ClosedCorrect == Spec => [](OneOuterJoin => Closed)
<1>1. ASSUME ClosedInv PROVE OneOuterJoin => Closed
  <2> SUFFICES ASSUME OneOuterJoin, Decayed, NEW p \in DOMAIN pipelines
               PROVE  /\ pipelines[p].subops # << >>
                      /\ IsSource(Head(pipelines[p].subops)) /\ IsSink(Last(pipelines[p].subops))
                      /\ \A i \in DOMAIN pipelines[p].subops :
                           /\ ToSet(pipelines[p].subops[i].ins) \subseteq Provided(pipelines[p].subops, i)
                           /\ ToSet(pipelines[p].subops[i].outs) \cap Provided(pipelines[p].subops, i) = {}
    BY DEF Closed
  <2>1. /\ PlanInv /\ ColumnsInv /\ StageOK(pipelines, continuations, decayed)
        /\ ClosedSoFar(pipelines, continuations, decayed) /\ decayed = Len(calls)
    BY <1>1 DEF ClosedInv, DagInv, DecayInv, Decayed
  <2>2. decayed \in Nat /\ decayed # 0 /\ decayed \in 1 .. Len(calls)
    BY <2>1, SeqElements DEF PlanInv
  <2>3. calls[decayed].call = "Print"
    BY <2>1, <2>2 DEF ColumnsInv
  <2>4. AllWhole(pipelines, continuations)
    BY <2>1, <2>2, <2>3, EndedWhole
  <2>5. p \in 1 .. Len(pipelines)
    BY <2>4, PipeAt, SeqElements DEF AllWhole
  <2>6. Whole(pipelines[p].subops)
    BY <2>4, <2>5 DEF AllWhole
  <2> QED BY <2>6, WholePipeline
<1> QED BY <1>1, ColumnsCorrect, PTL

=============================================================================
