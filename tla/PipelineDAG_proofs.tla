-------------------------- MODULE PipelineDAG_proofs --------------------------
(***************************************************************************)
(* Proofs about PipelineDAG, for every plan that is a tree and decays its  *)
(* children first (PlanAssumption), on any number of threads: types, that  *)
(* pipelines with the same suboperators do not generate code in parallel,  *)
(* that the order of the pipelines is topological, and that runtime tasks  *)
(* run right after the pipeline they were noted for.                       *)
(*                                                                         *)
(* The argument follows suboperators from the call of decay that made them *)
(* (Stems) to the pipelines that hold them: the one they were attached to, *)
(* and continuations of it, which copy what comes after their index.       *)
(***************************************************************************)
EXTENDS PipelineDAG, FiniteLemmas, SequenceTheorems

-----------------------------------------------------------------------------
(* Sequences.                                                              *)

(* A sequence is a function on 1 .. Len(q); ToSet gives what it holds.     *)
LEMMA SeqElements ==
  ASSUME NEW q, IsSeq(q)
  PROVE  /\ Len(q) \in Nat /\ DOMAIN q = 1 .. Len(q)
         /\ \A s : s \in ToSet(q) <=> \E k \in 1 .. Len(q) : s = q[k]
<1>1. ToSet(q) = {q[k] : k \in DOMAIN q}
  BY DEF ToSet
<1> DEFINE S == ToSet(q)
<1>2. q \in Seq(S)
  BY DEF IsSeq
<1>3. Len(q) \in Nat /\ DOMAIN q = 1 .. Len(q)
  <2> HIDE DEF S
  <2> QED BY <1>2
<1> QED BY <1>1, <1>3

(* Sequences of one suboperator.                                           *)
LEMMA SeqOne ==
  ASSUME NEW s
  PROVE  IsSeq(<<s>>) /\ ToSet(<<s>>) = {s}
<1>1. ToSet(<<s>>) = {s}
  BY DEF ToSet
<1> QED BY <1>1 DEF IsSeq

(* The empty sequence.                                                     *)
LEMMA SeqNone == IsSeq(<< >>) /\ ToSet(<< >>) = {}
  BY DEF IsSeq, ToSet

(* A function on 1 .. n is a sequence.                                     *)
LEMMA SeqMade ==
  ASSUME NEW n \in Nat, NEW f, DOMAIN f = 1 .. n, f = [k \in 1 .. n |-> f[k]]
  PROVE  IsSeq(f) /\ Len(f) = n
<1> DEFINE S == ToSet(f)
<1>1. \A k \in 1 .. n : f[k] \in S
  BY DEF ToSet
<1>2. f \in Seq(S)
  <2> HIDE DEF S
  <2> QED BY <1>1
<1>3. Len(f) = n
  <2> HIDE DEF S
  <2> QED BY <1>2
<1> QED BY <1>2, <1>3 DEF IsSeq

(* Concatenation: suboperators attached one after the other.               *)
LEMMA SeqConcat ==
  ASSUME NEW a, NEW b, IsSeq(a), IsSeq(b)
  PROVE  /\ IsSeq(a \o b) /\ Len(a \o b) = Len(a) + Len(b)
         /\ \A k \in 1 .. Len(a) : (a \o b)[k] = a[k]
         /\ \A k \in Len(a) + 1 .. Len(a) + Len(b) : (a \o b)[k] = b[k - Len(a)]
         /\ ToSet(a \o b) = ToSet(a) \cup ToSet(b)
<1>1. /\ Len(a) \in Nat /\ DOMAIN a = 1 .. Len(a)
      /\ Len(b) \in Nat /\ DOMAIN b = 1 .. Len(b)
  BY SeqElements
<1> DEFINE S == ToSet(a) \cup ToSet(b)
<1>2. a \in Seq(S) /\ b \in Seq(S)
  <2>1. a \in Seq(ToSet(a)) /\ b \in Seq(ToSet(b))
    BY DEF IsSeq
  <2> QED BY <2>1, SeqDef
<1>3. /\ a \o b \in Seq(S) /\ Len(a \o b) = Len(a) + Len(b)
      /\ \A k \in 1 .. Len(a) : (a \o b)[k] = a[k]
      /\ \A k \in Len(a) + 1 .. Len(a) + Len(b) : (a \o b)[k] = b[k - Len(a)]
  <2> HIDE DEF S
  <2> QED BY <1>1, <1>2
<1>4. DOMAIN (a \o b) = 1 .. Len(a) + Len(b)
  <2> HIDE DEF S
  <2> QED BY <1>1, <1>2
<1> DEFINE c == a \o b
           n == Len(a)
           m == Len(b)
<1>5. ToSet(c) = S
  <2> HIDE DEF c, n, m
  <2>1. /\ n \in Nat /\ m \in Nat /\ DOMAIN c = 1 .. n + m
        /\ DOMAIN a = 1 .. n /\ DOMAIN b = 1 .. m
        /\ \A k \in 1 .. n : c[k] = a[k]
        /\ \A k \in n + 1 .. n + m : c[k] = b[k - n]
    BY <1>1, <1>3, <1>4 DEF c, n, m
  <2>2. \A k \in DOMAIN c : c[k] \in S
    BY <2>1 DEF ToSet
  <2>3. \A k \in DOMAIN a : k \in DOMAIN c /\ c[k] = a[k]
    BY <2>1
  <2>4. \A k \in DOMAIN b : k + n \in DOMAIN c /\ c[k + n] = b[k]
    BY <2>1
  <2>5. ToSet(c) \subseteq S
    BY <2>2 DEF ToSet
  <2>6. ToSet(a) \subseteq ToSet(c)
    BY <2>3 DEF ToSet
  <2>7. ToSet(b) \subseteq ToSet(c)
    BY <2>4 DEF ToSet
  <2> QED BY <2>5, <2>6, <2>7
<1>6. IsSeq(c)
  <2> HIDE DEF S
  <2> QED BY <1>3, <1>5 DEF IsSeq
<1> QED BY <1>3, <1>5, <1>6

(* Append, as push_back of pipelines, continuations and runtime tasks.     *)
LEMMA SeqAppended ==
  ASSUME NEW a, NEW x, IsSeq(a)
  PROVE  /\ IsSeq(Append(a, x)) /\ Len(Append(a, x)) = Len(a) + 1
         /\ \A k \in 1 .. Len(a) : Append(a, x)[k] = a[k]
         /\ Append(a, x)[Len(a) + 1] = x
<1>1. Len(a) \in Nat /\ DOMAIN a = 1 .. Len(a)
  BY SeqElements
<1> DEFINE S == ToSet(a) \cup {x}
           c == Append(a, x)
<1>2. a \in Seq(S)
  <2>1. a \in Seq(ToSet(a))
    BY DEF IsSeq
  <2> QED BY <2>1, SeqDef
<1>3. /\ c \in Seq(S) /\ Len(c) = Len(a) + 1 /\ DOMAIN c = 1 .. Len(a) + 1
      /\ \A k \in 1 .. Len(a) : c[k] = a[k]
      /\ c[Len(a) + 1] = x
  <2>1. x \in S
    OBVIOUS
  <2> HIDE DEF S
  <2> QED BY <1>1, <1>2, <2>1, AppendProperties
<1>4. c = [k \in 1 .. Len(a) + 1 |-> c[k]]
  <2> HIDE DEF c, S
  <2> QED BY <1>3
<1>5. IsSeq(c)
  <2> HIDE DEF c
  <2> QED BY <1>1, <1>3, <1>4, SeqMade
<1> QED BY <1>3, <1>5

(* What follows the first m elements, if there are that many.              *)
LEMMA SeqDropped ==
  ASSUME NEW a, IsSeq(a), NEW m \in Nat
  PROVE  /\ IsSeq(SubSeq(a, m + 1, Len(a)))
         /\ \A k \in 1 .. Len(SubSeq(a, m + 1, Len(a))) :
              m + k \in 1 .. Len(a) /\ SubSeq(a, m + 1, Len(a))[k] = a[m + k]
<1>1. Len(a) \in Nat /\ DOMAIN a = 1 .. Len(a)
  BY SeqElements
<1> DEFINE c == SubSeq(a, m + 1, Len(a))
           n == Len(a)
           l == IF m <= n THEN n - m ELSE 0
<1>2. c = [k \in 1 .. l |-> a[m + k]]
  <2>1. c = [k \in 1 .. (n - (m + 1)) + 1 |-> a[k + (m + 1) - 1]]
    BY <1>1
  <2> HIDE DEF c, n
  <2>2. n \in Nat
    BY <1>1 DEF n
  <2>3. (n - (m + 1)) + 1 = n - m /\ \A k \in 1 .. l : k + (m + 1) - 1 = m + k
    BY <2>2
  <2>4. 1 .. n - m = 1 .. l
    BY <2>2
  <2> HIDE DEF l
  <2> QED BY <2>1, <2>3, <2>4
<1>3. l \in Nat
  BY <1>1
<1>4. DOMAIN c = 1 .. l /\ c = [k \in 1 .. l |-> c[k]]
      /\ \A k \in 1 .. l : c[k] = a[m + k]
  <2> HIDE DEF c, n, l
  <2> QED BY <1>2
<1>5. IsSeq(c) /\ Len(c) = l
  <2> HIDE DEF c, n, l
  <2> QED BY <1>3, <1>4, SeqMade
<1>6. \A k \in 1 .. l : m + k \in 1 .. n
  BY <1>1
<1> QED BY <1>4, <1>5, <1>6

-----------------------------------------------------------------------------
(* Folds.                                                                  *)

(* buildNewPipeline closes the continuations one by one, in their order:   *)
(* the fold is a recursion over their number.                              *)
LEMMA ContinuationsClosed ==
  ASSUME NEW pipes, NEW cs, IsSeq(cs)
  PROVE  \E e : /\ e[0] = pipes
                /\ \A k \in 1 .. Len(cs) : e[k] = CloseContinuation(e[k - 1], cs[k])
                /\ FoldLeft(CloseContinuation, pipes, cs) = e[Len(cs)]
<1> DEFINE IsFold(f, m) ==
             f = [s \in SUBSET (1 .. m) |->
                    IF s = {} THEN pipes
                    ELSE CloseContinuation(f[s \ {Max(s)}], cs[Max(s)])]
           A == {m \in Nat : \E f : IsFold(f, m)}
<1>1. Len(cs) \in Nat /\ DOMAIN cs = 1 .. Len(cs)
  BY SeqElements
<1>2. FoldLeft(CloseContinuation, pipes, cs) = (CHOOSE f : IsFold(f, Len(cs)))[1 .. Len(cs)]
  BY <1>1 DEF FoldLeft, MapThenFoldSet
<1>3. 0 \in A
  <2>1. IsFold([s \in {{}} |-> pipes], 0)
    OBVIOUS
  <2> HIDE DEF IsFold
  <2> QED BY <2>1
<1>4. ASSUME NEW m \in A PROVE m + 1 \in A
  <2>1. PICK f : IsFold(f, m)
    OBVIOUS
  <2> DEFINE g == [s \in SUBSET (1 .. m + 1) |->
                     IF m + 1 \in s THEN CloseContinuation(f[s \ {m + 1}], cs[m + 1]) ELSE f[s]]
  <2>2. \A s \in SUBSET (1 .. m + 1) : m + 1 \notin s <=> s \in SUBSET (1 .. m)
    OBVIOUS
  <2>3. \A s \in SUBSET (1 .. m) : g[s] = f[s]
    BY <2>2
  <2>4. ASSUME NEW s \in SUBSET (1 .. m + 1), m + 1 \in s
        PROVE  /\ Max(s) = m + 1 /\ s # {}
               /\ g[s] = CloseContinuation(g[s \ {Max(s)}], cs[Max(s)])
    <3>1. \A y \in s : y \in Nat /\ y <= m + 1
      OBVIOUS
    <3>2. \A x \in s : (\A y \in s : x >= y) => x = m + 1
      BY <2>4, <3>1
    <3>3. Max(s) = m + 1
      BY <2>4, <3>1, <3>2 DEF Max
    <3>4. s \ {m + 1} \in SUBSET (1 .. m)
      BY <3>1
    <3>5. g[s] = CloseContinuation(f[s \ {m + 1}], cs[m + 1])
      BY <2>4
    <3>6. g[s \ {m + 1}] = f[s \ {m + 1}]
      BY <2>3, <3>4
    <3> QED BY <2>4, <3>3, <3>5, <3>6
  <2>5. ASSUME NEW s \in SUBSET (1 .. m), s # {}
        PROVE  g[s] = CloseContinuation(g[s \ {Max(s)}], cs[Max(s)])
    <3>1. g[s] = CloseContinuation(f[s \ {Max(s)}], cs[Max(s)])
      BY <2>1, <2>3, <2>5
    <3>2. g[s \ {Max(s)}] = f[s \ {Max(s)}]
      BY <2>3
    <3> QED BY <3>1, <3>2
  <2>6. g[{}] = pipes
    BY <2>1, <2>3
  <2>7. g = [s \in SUBSET (1 .. m + 1) |-> g[s]]
    OBVIOUS
  <2>8. IsFold(g, m + 1)
    <3> HIDE DEF g
    <3>1. \A s \in SUBSET (1 .. m + 1) :
            g[s] = IF s = {} THEN pipes ELSE CloseContinuation(g[s \ {Max(s)}], cs[Max(s)])
      BY <2>2, <2>4, <2>5, <2>6
    <3> QED BY <2>7, <3>1
  <2> HIDE DEF IsFold, g
  <2> QED BY <2>8
<1>5. Len(cs) \in A
  <2> HIDE DEF A
  <2>1. Nat \subseteq A
    BY <1>3, <1>4, NaturalInduction
  <2> QED BY <1>1, <2>1
<1>6. PICK f : IsFold(f, Len(cs)) /\ FoldLeft(CloseContinuation, pipes, cs) = f[1 .. Len(cs)]
  <2>1. \E f : IsFold(f, Len(cs))
    BY <1>5
  <2> HIDE DEF IsFold
  <2> QED BY <1>2, <2>1
<1> DEFINE n == Len(cs)
           e == [k \in 0 .. n |-> f[1 .. k]]
<1>7. e[0] = pipes
  BY <1>1, <1>6
<1>8. ASSUME NEW k \in 1 .. n PROVE e[k] = CloseContinuation(e[k - 1], cs[k])
  <2>1. k \in Nat /\ 1 .. k \in SUBSET (1 .. n) /\ 1 .. k # {} /\ k \in 0 .. n /\ k - 1 \in 0 .. n
    BY <1>1, SMTT(60)
  <2>2. Max(1 .. k) = k
    <3>1. \A x \in 1 .. k : (\A y \in 1 .. k : x >= y) => x = k
      OBVIOUS
    <3>2. k \in 1 .. k /\ \A y \in 1 .. k : k >= y
      OBVIOUS
    <3> QED BY <3>1, <3>2 DEF Max
  <2>3. (1 .. k) \ {k} = 1 .. k - 1
    BY <2>1
  <2>4. f[1 .. k] = CloseContinuation(f[1 .. k - 1], cs[k])
    BY <1>6, <2>1, <2>2, <2>3
  <2> QED BY <2>1, <2>4
<1> HIDE DEF IsFold
<1>9. e[n] = FoldLeft(CloseContinuation, pipes, cs)
  BY <1>1, <1>6
<1> HIDE DEF e
<1> QED BY <1>7, <1>8, <1>9

-----------------------------------------------------------------------------
(* The invariant of the pipelines.                                         *)

Readers == {"lookup_with_hash", "HashTableSource", "AtomicHashTableSource"}
Fillers == {"materialize_tuple", "lookup_or_insert"}

(* The suboperators that decay makes of a call. Those of the two sides of  *)
(* a join pack keys into different buffers.                                *)
Stems(s, c) ==
  /\ s.op = c.op
  /\ \/ c.call = "TableScan" /\ s.sort \in {"TScanDriver", "TScanIUProvider"}
     \/ c.call = "ExpressionOp" /\ s.sort \in {"RuntimeExpression", "Expression"}
     \/ c.call = "Filter" /\ s.sort \in {"ColumnFilterScope", "ColumnFilterLogic"}
     \/ /\ c.call = "JoinBuild" /\ s.sort \in {"materialize_tuple", "KeyPacker"}
        /\ s.sort = "KeyPacker" => s.ins[2].part = "lookup_left"
     \/ /\ c.call = "JoinProbe"
        /\ s.sort \in {"ScratchPad", "KeyPacker", "hash_and_prefetch", "lookup_with_hash",
                       "ColumnFilterScope", "ColumnFilterLogic", "KeyUnpacker",
                       "AtomicHashTableSource"}
        /\ s.sort = "KeyPacker" => s.ins[2].part = "scratch_pad_right"
     \/ /\ c.call = "Aggregation"
        /\ s.sort \in {"ScratchPad", "KeyPacker", "lookup_or_insert", "Aggregator",
                       "HashTableSource", "KeyUnpacker", "AggReader"}
     \/ c.call = "Print" /\ s.sort = "FuseChunkSink"

(* Pipelines, made by the first d calls of decay.                          *)
IsPipe(pipe) ==
  /\ pipe = [subops |-> pipe.subops, parallel |-> pipe.parallel]
  /\ IsSeq(pipe.subops) /\ pipe.parallel \in BOOLEAN
PipesOK(pipes) == IsSeq(pipes) /\ \A p \in 1 .. Len(pipes) : IsPipe(pipes[p])
StemsOK(pipes, d) ==
  \A p \in 1 .. Len(pipes) : \A s \in ToSet(pipes[p].subops) :
    \E i \in 1 .. d : Stems(s, calls[i])
OrderOK(pipes) ==
  \A p, q \in 1 .. Len(pipes) :
    \A s \in ToSet(pipes[p].subops), t \in ToSet(pipes[q].subops) :
      /\ s.op = t.op
      /\ \/ s.sort \in Readers /\ t.sort \in Fillers
         \/ s.sort = "AtomicHashTableSource" /\ t.sort = "lookup_with_hash"
      => q < p
SharedOK(pipes) ==
  \A p, q \in 1 .. Len(pipes) : \A s \in ToSet(pipes[p].subops) :
    p # q /\ s \in ToSet(pipes[q].subops) => ~pipes[p].parallel /\ ~pipes[q].parallel

(* Continuations, of the last pipeline. Its lookups in the table that a    *)
(* continuation reads are before the continuation's index.                 *)
ContinuationOK(last, c, d) ==
  /\ c.index \in 1 .. Len(last.subops) /\ ~last.parallel
  /\ c.pipe = [subops |-> <<c.pipe.subops[1]>>, parallel |-> FALSE]
  /\ c.pipe.subops[1].sort = "AtomicHashTableSource"
  /\ \E i \in 1 .. d : Stems(c.pipe.subops[1], calls[i])
  /\ \E k \in 1 .. Len(last.subops) :
       last.subops[k].sort = "lookup_with_hash" /\ last.subops[k].op = c.pipe.subops[1].op
  /\ \A k \in 1 .. Len(last.subops) :
       last.subops[k].sort = "lookup_with_hash" /\ last.subops[k].op = c.pipe.subops[1].op
         => k <= c.index
ContinuationsOK(pipes, cs, d) ==
  /\ IsSeq(cs)
  /\ Len(cs) > 0 => Len(pipes) > 0
  /\ \A x \in 1 .. Len(cs) :
       /\ ContinuationOK(pipes[Len(pipes)], cs[x], d)
       /\ \A y \in 1 .. x : cs[y].index <= cs[x].index
NoneUnmatched(pipes) ==
  Len(pipes) > 0 =>
    \A s \in ToSet(pipes[Len(pipes)].subops) : s.sort # "AtomicHashTableSource"
DagOK(pipes, cs, d) ==
  /\ PipesOK(pipes) /\ StemsOK(pipes, d) /\ OrderOK(pipes) /\ SharedOK(pipes)
  /\ ContinuationsOK(pipes, cs, d) /\ NoneUnmatched(pipes)

-----------------------------------------------------------------------------
(* Pipelines and what is appended to them.                                 *)

(* Pipelines are sequences of suboperators, with the flag of parallel      *)
(* code generation.                                                        *)
LEMMA PipeAt ==
  ASSUME NEW pipes, PipesOK(pipes)
  PROVE  /\ IsSeq(pipes) /\ Len(pipes) \in Nat
         /\ \A p \in 1 .. Len(pipes) :
              /\ IsPipe(pipes[p]) /\ IsSeq(pipes[p].subops) /\ Len(pipes[p].subops) \in Nat
              /\ pipes[p].parallel \in BOOLEAN
         /\ Len(pipes) > 0 => Len(pipes) \in 1 .. Len(pipes)
<1>1. IsSeq(pipes)
  BY DEF PipesOK
<1>2. Len(pipes) \in Nat
  BY <1>1, SeqElements
<1>3. ASSUME NEW p \in 1 .. Len(pipes)
      PROVE  /\ IsPipe(pipes[p]) /\ IsSeq(pipes[p].subops) /\ Len(pipes[p].subops) \in Nat
             /\ pipes[p].parallel \in BOOLEAN
  <2>1. IsPipe(pipes[p])
    BY DEF PipesOK
  <2>2. IsSeq(pipes[p].subops) /\ pipes[p].parallel \in BOOLEAN
    BY <2>1, Zenon DEF IsPipe
  <2> QED BY <2>1, <2>2, SeqElements
<1> QED BY <1>1, <1>2, <1>3

(* AppendTo changes the suboperators of a pipeline, and nothing else.      *)
LEMMA SubopsAppended ==
  ASSUME NEW a, NEW b, NEW pipe, pipe = [subops |-> a, parallel |-> b], NEW subops
  PROVE  AppendTo(pipe, subops) = [subops |-> a \o subops, parallel |-> b]
<1>1. pipe.subops = a
  OBVIOUS
<1>2. AppendTo(pipe, subops) = [pipe EXCEPT !.subops = pipe.subops \o subops]
  BY Zenon DEF AppendTo
<1> DEFINE all == a \o subops
<1> HIDE DEF all
<1>3. AppendTo(pipe, subops) = [pipe EXCEPT !.subops = all]
  BY <1>1, <1>2 DEF all
<1>4. AppendTo(pipe, subops) = [subops |-> all, parallel |-> b]
  BY <1>3
<1> QED BY <1>4 DEF all

-----------------------------------------------------------------------------
(* Closing continuations.                                                  *)

(* What a closed continuation shares with the pipeline it continues comes  *)
(* after the continuation's index, even if another was closed in between.  *)
CopyOf(pipe, last, c) ==
  /\ IsPipe(pipe) /\ ~pipe.parallel
  /\ Len(pipe.subops) > 0 /\ pipe.subops[1] = c.pipe.subops[1]
  /\ \A k \in 2 .. Len(pipe.subops) :
       \E m \in 1 .. Len(last.subops) :
         m > c.index /\ m >= k /\ pipe.subops[k] = last.subops[m]

(* Closing a continuation pushes back a pipeline that begins with its      *)
(* source and goes on with what the last pipeline did from its index on.   *)
(* Only the first of them is closed from the pipeline that probed: the     *)
(* next from what is then the last pipeline, a continuation, whose         *)
(* suboperators come from that pipeline, none of them from an earlier      *)
(* position than its own.                                                  *)
LEMMA ContinuationClosed ==
  ASSUME NEW pipes, PipesOK(pipes), Len(pipes) > 0, NEW last, NEW c, NEW d,
         ContinuationOK(last, c, d),
         \A k \in 2 .. Len(pipes[Len(pipes)].subops) :
           \E m \in 1 .. Len(last.subops) :
             m >= k /\ pipes[Len(pipes)].subops[k] = last.subops[m]
  PROVE  \E pipe : /\ CloseContinuation(pipes, c) = Append(pipes, pipe)
                   /\ CopyOf(pipe, last, c)
<1> DEFINE cur == pipes[Len(pipes)].subops
           rest == SubSeq(cur, c.index + 1, Len(cur))
           src == c.pipe.subops[1]
           pipe == AppendTo(c.pipe, rest)
<1>1. IsSeq(cur) /\ Len(cur) \in Nat /\ Len(pipes) \in Nat
  BY PipeAt
<1>2. c.index \in Nat /\ c.index >= 1
  BY DEF ContinuationOK
<1>3. /\ IsSeq(rest)
      /\ \A k \in 1 .. Len(rest) : c.index + k \in 1 .. Len(cur) /\ rest[k] = cur[c.index + k]
  <2> HIDE DEF cur
  <2> QED BY <1>1, <1>2, SeqDropped
<1>4. pipe = [subops |-> <<src>> \o rest, parallel |-> FALSE]
  <2>1. c.pipe = [subops |-> <<src>>, parallel |-> FALSE]
    BY DEF ContinuationOK
  <2> DEFINE one == <<src>>
  <2> HIDE DEF src, rest, one
  <2>2. c.pipe = [subops |-> one, parallel |-> FALSE]
    BY <2>1 DEF one
  <2>3. AppendTo(c.pipe, rest) = [subops |-> one \o rest, parallel |-> FALSE]
    <3> DEFINE no == FALSE
               from == c.pipe
    <3>1. from = [subops |-> one, parallel |-> no]
      BY <2>2
    <3> HIDE DEF no, from
    <3>2. AppendTo(from, rest) = [subops |-> one \o rest, parallel |-> no]
      BY ONLY <3>1, SubopsAppended
    <3> QED BY <3>2 DEF no, from
  <2> QED BY <2>3 DEF one
<1>5. IsSeq(<<src>>) /\ Len(<<src>>) = 1
  <2> HIDE DEF src
  <2> QED BY DEF IsSeq, ToSet
<1> DEFINE all == <<src>> \o rest
<1>6. /\ IsSeq(all) /\ Len(all) = 1 + Len(rest) /\ all[1] = src /\ Len(rest) \in Nat
      /\ \A k \in 2 .. 1 + Len(rest) : all[k] = rest[k - 1]
  <2> HIDE DEF rest, src
  <2>1. Len(rest) \in Nat
    BY <1>3, SeqElements
  <2>2. all[1] = <<src>>[1] /\ Len(all) = 1 + Len(rest) /\ IsSeq(all)
        /\ \A k \in 1 + 1 .. 1 + Len(rest) : all[k] = rest[k - 1]
    BY <1>3, <1>5, <2>1, SeqConcat
  <2> QED BY <2>1, <2>2
<1>7. ASSUME NEW k \in 2 .. Len(all)
      PROVE  \E m \in 1 .. Len(last.subops) :
               m > c.index /\ m >= k /\ all[k] = last.subops[m]
  <2> HIDE DEF rest, all, cur
  <2> DEFINE j == c.index + (k - 1)
  <2>1. k - 1 \in 1 .. Len(rest) /\ all[k] = rest[k - 1]
    BY <1>6
  <2>2. j \in 1 .. Len(cur) /\ all[k] = cur[j]
    BY <1>3, <2>1
  <2>3. j \in 2 .. Len(cur) /\ j >= k /\ j > c.index
    BY <1>1, <1>2, <2>2
  <2>4. PICK m \in 1 .. Len(last.subops) : m >= j /\ cur[j] = last.subops[m]
    <3> HIDE DEF j
    <3> QED BY <2>3 DEF cur
  <2> QED BY <1>2, <2>2, <2>3, <2>4
<1>8. CopyOf(pipe, last, c)
  <2> HIDE DEF rest, src, all, pipe
  <2>1. pipe.subops = all /\ pipe.parallel = FALSE /\ IsPipe(pipe)
    BY <1>4, <1>6 DEF IsPipe, all
  <2>2. all[1] = c.pipe.subops[1]
    BY <1>6 DEF src
  <2> QED BY <1>6, <1>7, <2>1, <2>2 DEF CopyOf
<1>9. CloseContinuation(pipes, c) = Append(pipes, pipe)
  BY DEF CloseContinuation, Last
<1> HIDE DEF pipe
<1> QED BY <1>8, <1>9

(* The pipelines r are the pipelines pipes and, after them, one for every  *)
(* continuation.                                                           *)
AllClosed(pipes, cs, r) ==
  /\ PipesOK(r) /\ Len(r) = Len(pipes) + Len(cs)
  /\ \A p \in 1 .. Len(pipes) : r[p] = pipes[p]
  /\ \A x \in 1 .. Len(cs) : CopyOf(r[Len(pipes) + x], pipes[Len(pipes)], cs[x])

(* All continuations of a pipeline, closed.                                *)
LEMMA ContinuationsAppended ==
  ASSUME NEW pipes, NEW cs, NEW d, PipesOK(pipes), ContinuationsOK(pipes, cs, d)
  PROVE  AllClosed(pipes, cs, FoldLeft(CloseContinuation, pipes, cs))
<1>1. IsSeq(cs) /\ Len(cs) \in Nat /\ Len(pipes) \in Nat
  BY PipeAt, SeqElements DEF ContinuationsOK
<1>2. PICK e : /\ e[0] = pipes
               /\ \A k \in 1 .. Len(cs) : e[k] = CloseContinuation(e[k - 1], cs[k])
               /\ FoldLeft(CloseContinuation, pipes, cs) = e[Len(cs)]
  BY <1>1, ContinuationsClosed, ZenonT(60)
<1> DEFINE n == Len(pipes)
           last == pipes[n]
           Good(x) == /\ PipesOK(e[x]) /\ Len(e[x]) = n + x
                      /\ \A p \in 1 .. n : e[x][p] = pipes[p]
                      /\ \A y \in 1 .. x : CopyOf(e[x][n + y], last, cs[y])
           A == {x \in Nat : x <= Len(cs) => Good(x)}
<1>3. 0 \in A
  BY <1>1, <1>2
<1>4. ASSUME NEW x \in Nat, x \in A PROVE x + 1 \in A
  <2> SUFFICES ASSUME x + 1 <= Len(cs) PROVE Good(x + 1)
    OBVIOUS
  <2>1. Good(x) /\ x + 1 \in 1 .. Len(cs) /\ n > 0 /\ n \in Nat /\ n + x > 0
    <3>1. Good(x) /\ x + 1 \in 1 .. Len(cs) /\ Len(cs) > 0
      BY <1>1, <1>4
    <3>2. n > 0
      BY <3>1, Zenon DEF ContinuationsOK
    <3> HIDE DEF Good, n
    <3>3. n \in Nat
      BY <1>1 DEF n
    <3> QED BY <3>1, <3>2, <3>3
  <2> DEFINE from == e[x]
             c == cs[x + 1]
             m == n + x
  <2>2. ContinuationOK(last, c, d)
    BY <2>1 DEF ContinuationsOK
  <2>3. \A k \in 2 .. Len(from[m].subops) :
          \E j \in 1 .. Len(last.subops) : j >= k /\ from[m].subops[k] = last.subops[j]
    <3>1. CASE x = 0
      <4>1. from[m] = last
        BY <2>1, <3>1
      <4>2. Len(last.subops) \in Nat
        BY <2>1, PipeAt
      <4> HIDE DEF from, m, last
      <4>3. \A k \in 2 .. Len(last.subops) : k \in 1 .. Len(last.subops) /\ k >= k
        BY <4>2
      <4> QED BY <4>1, <4>3
    <3>2. CASE x # 0
      <4>1. x \in 1 .. x
        BY <3>2
      <4>2. CopyOf(from[m], last, cs[x])
        BY <2>1, <4>1
      <4> HIDE DEF from, m, last
      <4> QED BY <4>2 DEF CopyOf
    <3> QED BY <3>1, <3>2
  <2>4. PICK pipe : CloseContinuation(from, c) = Append(from, pipe) /\ CopyOf(pipe, last, c)
    <3>1. PipesOK(from) /\ Len(from) = m /\ m > 0
      BY <2>1
    <3> HIDE DEF from, m, last, c
    <3>2. Len(from) > 0
      BY <3>1
    <3>3. \A k \in 2 .. Len(from[Len(from)].subops) :
            \E j \in 1 .. Len(last.subops) :
              j >= k /\ from[Len(from)].subops[k] = last.subops[j]
      BY <2>3, <3>1
    <3> QED BY <2>2, <3>1, <3>2, <3>3, ContinuationClosed
  <2> DEFINE to == e[x + 1]
  <2>5. to = Append(from, pipe)
    BY <1>2, <2>1, <2>4
  <2> HIDE DEF to
  <2>6. IsSeq(from) /\ Len(from) = m /\ PipesOK(from)
    BY <2>1 DEF PipesOK
  <2> HIDE DEF from
  <2>7. /\ IsSeq(to) /\ Len(to) = m + 1 /\ to[m + 1] = pipe
        /\ \A k \in 1 .. m : to[k] = from[k]
    BY <2>5, <2>6, SeqAppended
  <2>8. PipesOK(to)
    <3>1. \A p \in 1 .. m + 1 : p \in 1 .. m \/ p = m + 1
      <4>1. m \in Nat
        BY <2>1
      <4> HIDE DEF m
      <4> QED BY <4>1
    <3>2. IsPipe(pipe)
      BY <2>4 DEF CopyOf
    <3>3. \A p \in 1 .. m : IsPipe(to[p])
      BY <2>6, <2>7 DEF PipesOK
    <3> HIDE DEF m
    <3> QED BY <2>7, <3>1, <3>2, <3>3 DEF PipesOK
  <2>9. \A p \in 1 .. n : to[p] = pipes[p]
    <3>1. \A p \in 1 .. n : p \in 1 .. m
      BY <2>1
    <3> QED BY <2>1, <2>7, <3>1 DEF from
  <2>10. \A y \in 1 .. x + 1 : CopyOf(to[n + y], last, cs[y])
    <3>1. \A y \in 1 .. x : n + y \in 1 .. m
      BY <2>1
    <3>2. \A y \in 1 .. x : CopyOf(to[n + y], last, cs[y])
      <4> HIDE DEF last
      <4> QED BY <2>1, <2>7, <3>1 DEF from
    <3>3. n + (x + 1) = m + 1
      BY <2>1
    <3>4. CopyOf(to[n + (x + 1)], last, cs[x + 1])
      <4> HIDE DEF last, m
      <4> QED BY <2>4, <2>7, <3>3
    <3>5. \A y \in 1 .. x + 1 : y \in 1 .. x \/ y = x + 1
      OBVIOUS
    <3> HIDE DEF last
    <3> QED BY <3>2, <3>4, <3>5
  <2>11. Len(to) = n + (x + 1)
    BY <2>1, <2>7
  <2> QED BY <2>8, <2>9, <2>10, <2>11 DEF to
<1>5. Len(cs) \in A
  <2> HIDE DEF A
  <2>1. Nat \subseteq A
    BY <1>3, <1>4, NaturalInduction
  <2> QED BY <1>1, <2>1
<1>6. Good(Len(cs))
  BY <1>1, <1>5
<1> QED BY <1>2, <1>6 DEF AllClosed

(* What a new pipeline begins after: what pipelines r and the new one hold *)
(* was in a pipeline before, or is the source of a continuation, or comes  *)
(* after its index in what was the last pipeline.                          *)
Held(pipes, cs, p, s) ==
  \/ p \in 1 .. Len(pipes) /\ s \in ToSet(pipes[p].subops)
  \/ \E x \in 1 .. Len(cs) :
       /\ p = Len(pipes) + x
       /\ \/ s = cs[x].pipe.subops[1]
          \/ \E m \in 1 .. Len(pipes[Len(pipes)].subops) :
               m > cs[x].index /\ s = pipes[Len(pipes)].subops[m]

(* Where the suboperators of closed continuations and of the new pipeline  *)
(* come from.                                                              *)
LEMMA NewPipelineHolds ==
  ASSUME NEW pipes, NEW cs, NEW d, PipesOK(pipes), ContinuationsOK(pipes, cs, d),
         NEW r, AllClosed(pipes, cs, r)
  PROVE  /\ PipesOK(Append(r, EmptyPipeline))
         /\ Len(Append(r, EmptyPipeline)) = Len(pipes) + Len(cs) + 1
         /\ Append(r, EmptyPipeline)[Len(pipes) + Len(cs) + 1] = EmptyPipeline
         /\ \A p \in 1 .. Len(pipes) : Append(r, EmptyPipeline)[p] = pipes[p]
         /\ \A x \in 1 .. Len(cs) : ~Append(r, EmptyPipeline)[Len(pipes) + x].parallel
         /\ \A p \in 1 .. Len(pipes) + Len(cs) + 1 :
              \A s \in ToSet(Append(r, EmptyPipeline)[p].subops) : Held(pipes, cs, p, s)
<1>1. IsSeq(cs) /\ Len(cs) \in Nat /\ Len(pipes) \in Nat
  BY PipeAt, SeqElements DEF ContinuationsOK
<1> DEFINE n == Len(pipes)
           N == Len(pipes) + Len(cs)
           all == Append(r, EmptyPipeline)
<1>2. /\ IsSeq(all) /\ Len(all) = N + 1 /\ all[N + 1] = EmptyPipeline
      /\ \A p \in 1 .. N : all[p] = r[p]
  <2>1. IsSeq(r) /\ Len(r) = N
    BY DEF AllClosed, PipesOK
  <2> HIDE DEF all, N
  <2> QED BY <2>1, SeqAppended DEF all
<1>3. N \in Nat /\ (\A p \in 1 .. N + 1 : p \in 1 .. N \/ p = N + 1)
      /\ (\A p \in 1 .. n : p \in 1 .. N) /\ (\A x \in 1 .. Len(cs) : n + x \in 1 .. N)
      /\ (\A p \in 1 .. N : p \in 1 .. n \/ \E x \in 1 .. Len(cs) : p = n + x)
  <2>1. N \in Nat
    BY <1>1
  <2>2. \A p \in 1 .. N + 1 : p \in 1 .. N \/ p = N + 1
    <3> HIDE DEF N
    <3> QED BY <2>1
  <2>3. \A p \in 1 .. n : p \in 1 .. N
    BY <1>1
  <2>4. \A x \in 1 .. Len(cs) : n + x \in 1 .. N
    BY <1>1
  <2>5. ASSUME NEW p \in 1 .. N, p \notin 1 .. n PROVE \E x \in 1 .. Len(cs) : p = n + x
    <3>1. p - n \in 1 .. Len(cs) /\ p = n + (p - n)
      BY <1>1, <2>5
    <3> QED BY <3>1
  <2> QED BY <2>1, <2>2, <2>3, <2>4, <2>5
<1>4. EmptyPipeline.subops = << >> /\ IsSeq(<< >>) /\ ToSet(<< >>) = {}
      /\ IsPipe(EmptyPipeline)
  <2>1. IsSeq(<< >>) /\ ToSet(<< >>) = {}
    BY DEF IsSeq, ToSet
  <2>2. EmptyPipeline.subops = << >> /\ EmptyPipeline.parallel = TRUE
    BY DEF EmptyPipeline
  <2>3. EmptyPipeline = [subops |-> EmptyPipeline.subops, parallel |-> EmptyPipeline.parallel]
    BY <2>2, Zenon DEF EmptyPipeline
  <2> QED BY <2>1, <2>2, <2>3 DEF IsPipe
<1>5. PipesOK(all)
  <2>1. \A p \in 1 .. N : IsPipe(all[p])
    <3>1. PipesOK(r) /\ Len(r) = N
      BY DEF AllClosed
    <3> HIDE DEF N, all
    <3> QED BY <1>2, <3>1 DEF PipesOK
  <2> HIDE DEF N, all
  <2> QED BY <1>2, <1>3, <1>4, <2>1 DEF PipesOK
<1>6. \A p \in 1 .. n : all[p] = pipes[p]
  <2>1. \A p \in 1 .. n : r[p] = pipes[p]
    BY DEF AllClosed
  <2> HIDE DEF n, N, all
  <2> QED BY <1>2, <1>3, <2>1
<1>7. \A x \in 1 .. Len(cs) : CopyOf(all[n + x], pipes[n], cs[x])
  <2>1. \A x \in 1 .. Len(cs) : CopyOf(r[n + x], pipes[n], cs[x])
    BY DEF AllClosed
  <2> HIDE DEF n, N, all
  <2> QED BY <1>2, <1>3, <2>1
<1>8. \A x \in 1 .. Len(cs) : ~all[n + x].parallel
  BY <1>7 DEF CopyOf
<1>9. ASSUME NEW p \in 1 .. N + 1, NEW s \in ToSet(all[p].subops) PROVE Held(pipes, cs, p, s)
  <2> HIDE DEF N, all
  <2>1. CASE p \in 1 .. n
    BY <1>6, <1>9, <2>1 DEF Held
  <2>2. ASSUME NEW x \in 1 .. Len(cs), p = n + x PROVE Held(pipes, cs, p, s)
    <3> DEFINE copy == all[n + x].subops
               last == pipes[n].subops
    <3>1. CopyOf(all[n + x], pipes[n], cs[x])
      BY <1>7
    <3>2. IsSeq(copy) /\ Len(copy) \in Nat
      BY <3>1, SeqElements DEF CopyOf, IsPipe
    <3>3. PICK k \in 1 .. Len(copy) : s = copy[k]
      BY <2>2, <3>2, SeqElements
    <3>4. CASE k = 1
      <4>1. s = cs[x].pipe.subops[1]
        BY <3>1, <3>3, <3>4 DEF CopyOf
      <4> QED BY <2>2, <4>1 DEF Held
    <3>5. CASE k # 1
      <4>1. k \in 2 .. Len(copy)
        BY <3>2, <3>5
      <4>2. PICK m \in 1 .. Len(last) : m > cs[x].index /\ copy[k] = last[m]
        BY <3>1, <4>1 DEF CopyOf
      <4> HIDE DEF copy
      <4> QED BY <2>2, <3>3, <4>2 DEF Held
    <3> QED BY <3>4, <3>5
  <2>3. CASE p = N + 1
    BY <1>2, <1>4, <2>3
  <2> QED BY <1>3, <2>1, <2>2, <2>3
<1> QED BY <1>2, <1>5, <1>6, <1>8, <1>9

(* A suboperator of the last pipeline, by its position or as an element.   *)
LEMMA ContinuationFacts ==
  ASSUME NEW pipes, NEW cs, NEW d, PipesOK(pipes), ContinuationsOK(pipes, cs, d),
         NEW x \in 1 .. Len(cs)
  PROVE  /\ Len(pipes) \in 1 .. Len(pipes) /\ ~pipes[Len(pipes)].parallel
         /\ ContinuationOK(pipes[Len(pipes)], cs[x], d)
         /\ \A m \in 1 .. Len(pipes[Len(pipes)].subops) :
              pipes[Len(pipes)].subops[m] \in ToSet(pipes[Len(pipes)].subops)
         /\ \A y \in 1 .. x : cs[y].index <= cs[x].index
<1>1. Len(cs) > 0 /\ Len(cs) \in Nat
  BY SeqElements DEF ContinuationsOK
<1>2. Len(pipes) > 0
  BY <1>1, Zenon DEF ContinuationsOK
<1>3. Len(pipes) \in 1 .. Len(pipes) /\ IsSeq(pipes[Len(pipes)].subops)
  BY <1>2, PipeAt
<1>4. \A m \in 1 .. Len(pipes[Len(pipes)].subops) :
        pipes[Len(pipes)].subops[m] \in ToSet(pipes[Len(pipes)].subops)
  BY <1>3, SeqElements
<1>5. ContinuationOK(pipes[Len(pipes)], cs[x], d) /\ \A y \in 1 .. x : cs[y].index <= cs[x].index
  BY DEF ContinuationsOK
<1>6. ~pipes[Len(pipes)].parallel
  BY <1>5 DEF ContinuationOK
<1> QED BY <1>3, <1>4, <1>5, <1>6

(* buildNewPipeline keeps pipelines in order, and those that share         *)
(* suboperators from generating code in parallel: what a continuation      *)
(* copies is of pipelines marked by disallowParallelCodegen, and its       *)
(* lookups in the table it reads are not copied.                           *)
LEMMA NewPipelineOK ==
  ASSUME NEW pipes, NEW cs, NEW d, DagOK(pipes, cs, d), NEW r, AllClosed(pipes, cs, r)
  PROVE  DagOK(Append(r, EmptyPipeline), << >>, d)
<1> DEFINE n == Len(pipes)
           all == Append(r, EmptyPipeline)
           last == pipes[n].subops
           End == Len(pipes) + Len(cs) + 1
<1>1. /\ PipesOK(pipes) /\ StemsOK(pipes, d) /\ OrderOK(pipes) /\ SharedOK(pipes)
      /\ ContinuationsOK(pipes, cs, d) /\ NoneUnmatched(pipes)
  BY DEF DagOK
<1>2. IsSeq(cs) /\ Len(cs) \in Nat /\ n \in Nat
  BY <1>1, PipeAt, SeqElements DEF ContinuationsOK
<1>3. /\ PipesOK(all) /\ Len(all) = End /\ all[End] = EmptyPipeline
      /\ \A p \in 1 .. n : all[p] = pipes[p]
      /\ \A x \in 1 .. Len(cs) : ~all[n + x].parallel
      /\ \A p \in 1 .. End : \A s \in ToSet(all[p].subops) : Held(pipes, cs, p, s)
  BY <1>1, NewPipelineHolds
<1>4. ASSUME NEW x \in 1 .. Len(cs)
      PROVE  /\ n \in 1 .. n /\ ~pipes[n].parallel /\ ContinuationOK(pipes[n], cs[x], d)
             /\ \A m \in 1 .. Len(last) : last[m] \in ToSet(last)
             /\ \A y \in 1 .. x : cs[y].index <= cs[x].index
             /\ cs[x].pipe.subops[1].sort = "AtomicHashTableSource"
             /\ \E l \in ToSet(last) : l.sort = "lookup_with_hash" /\ l.op = cs[x].pipe.subops[1].op
  <2>1. /\ n \in 1 .. n /\ ~pipes[n].parallel /\ ContinuationOK(pipes[n], cs[x], d)
        /\ \A m \in 1 .. Len(last) : last[m] \in ToSet(last)
        /\ \A y \in 1 .. x : cs[y].index <= cs[x].index
    BY <1>1, ContinuationFacts
  <2> QED BY <2>1 DEF ContinuationOK
<1>5. StemsOK(all, d)
  <2> SUFFICES ASSUME NEW p \in 1 .. End, NEW s \in ToSet(all[p].subops)
               PROVE  \E i \in 1 .. d : Stems(s, calls[i])
    <3> HIDE DEF all, End
    <3> QED BY <1>3 DEF StemsOK
  <2>1. Held(pipes, cs, p, s)
    BY <1>3
  <2>2. CASE p \in 1 .. n /\ s \in ToSet(pipes[p].subops)
    BY <1>1, <2>2 DEF StemsOK
  <2>3. ASSUME NEW x \in 1 .. Len(cs), s = cs[x].pipe.subops[1]
        PROVE  \E i \in 1 .. d : Stems(s, calls[i])
    BY <1>4, <2>3 DEF ContinuationOK
  <2>4. ASSUME NEW x \in 1 .. Len(cs), NEW m \in 1 .. Len(last), s = last[m]
        PROVE  \E i \in 1 .. d : Stems(s, calls[i])
    BY <1>1, <1>4, <2>4 DEF StemsOK
  <2> QED BY <2>1, <2>2, <2>3, <2>4 DEF Held
<1>6. OrderOK(all)
  <2> SUFFICES ASSUME NEW p \in 1 .. End, NEW q \in 1 .. End,
                      NEW s \in ToSet(all[p].subops), NEW t \in ToSet(all[q].subops),
                      s.op = t.op,
                      \/ s.sort \in Readers /\ t.sort \in Fillers
                      \/ s.sort = "AtomicHashTableSource" /\ t.sort = "lookup_with_hash"
               PROVE  q < p
    <3> HIDE DEF all, End
    <3> QED BY <1>3 DEF OrderOK
  <2> HIDE DEF all, End, last
  <2>1. Held(pipes, cs, p, s) /\ Held(pipes, cs, q, t) /\ p \in Int /\ q \in Int
    BY <1>3 DEF all, End
  <2>2. t.sort # "AtomicHashTableSource"
    BY DEF Fillers
  <2>3. ASSUME p \in 1 .. n, s \in ToSet(pipes[p].subops),
               q \in 1 .. n, t \in ToSet(pipes[q].subops)
        PROVE  q < p
    BY <1>1, <2>3 DEF OrderOK
  <2>4. ASSUME NEW x \in 1 .. Len(cs), p = n + x, q \in 1 .. n PROVE q < p
    BY <1>2, <2>4
  (* What fills a table, or looks it up, is a copy then, of what is read   *)
  (* only later.                                                           *)
  <2>5. ASSUME NEW y \in 1 .. Len(cs), q = n + y,
               NEW m \in 1 .. Len(last), t = last[m], m > cs[y].index
        PROVE  q < p
    <3>1. t \in ToSet(pipes[n].subops) /\ n \in 1 .. n
      BY <1>4, <2>5 DEF last
    <3>2. CASE p \in 1 .. n /\ s \in ToSet(pipes[p].subops)
      <4>1. n < p
        BY <1>1, <3>1, <3>2 DEF OrderOK
      <4> QED BY <1>2, <3>2, <4>1
    <3>3. ASSUME NEW k \in 1 .. Len(last), s = last[k] PROVE FALSE
      <4>1. s \in ToSet(pipes[n].subops)
        BY <1>4, <3>3 DEF last
      <4>2. n < n
        BY <1>1, <3>1, <4>1 DEF OrderOK
      <4> QED BY <1>2, <4>2
    <3>4. ASSUME NEW x \in 1 .. Len(cs), p = n + x, s = cs[x].pipe.subops[1]
          PROVE  q < p
      <4>1. PICK l \in ToSet(pipes[n].subops) : l.sort = "lookup_with_hash" /\ l.op = s.op
        BY <1>4, <3>4 DEF last
      <4>2. t.sort \notin Fillers
        <5> SUFFICES ASSUME t.sort \in Fillers PROVE FALSE
          OBVIOUS
        <5>1. l.sort \in Readers
          BY <4>1 DEF Readers
        <5>2. n < n
          BY <1>1, <3>1, <4>1, <5>1 DEF OrderOK
        <5> QED BY <1>2, <5>2
      <4>3. t.sort = "lookup_with_hash"
        BY <4>2
      <4>4. m <= cs[x].index
        <5>1. ContinuationOK(pipes[n], cs[x], d)
          BY <1>4
        <5> QED BY <2>5, <3>4, <4>3, <5>1 DEF ContinuationOK, last
      <4>5. cs[x].index \in Int /\ cs[y].index \in Int
        <5>1. ContinuationOK(pipes[n], cs[x], d) /\ ContinuationOK(pipes[n], cs[y], d)
          BY <1>4
        <5> QED BY <5>1 DEF ContinuationOK
      <4>6. ~(x <= y)
        <5> SUFFICES ASSUME x <= y PROVE FALSE
          OBVIOUS
        <5>1. x \in 1 .. y
          BY <1>2
        <5>2. cs[x].index <= cs[y].index
          BY <1>4, <5>1
        <5> QED BY <2>5, <4>4, <4>5, <5>2
      <4> QED BY <1>2, <2>5, <3>4, <4>6
    <3> QED BY <2>1, <3>2, <3>3, <3>4 DEF Held, last
  <2>6. ASSUME NEW y \in 1 .. Len(cs), t = cs[y].pipe.subops[1] PROVE FALSE
    BY <1>4, <2>2, <2>6
  <2>7. CASE q \in 1 .. n /\ t \in ToSet(pipes[q].subops)
    BY <2>1, <2>3, <2>4, <2>7 DEF Held
  <2> QED BY <2>1, <2>5, <2>6, <2>7 DEF Held, last
<1>7. SharedOK(all)
  <2>1. ASSUME NEW p \in 1 .. End, NEW q \in 1 .. End, p # q,
               NEW s, s \in ToSet(all[p].subops), s \in ToSet(all[q].subops)
        PROVE  ~all[p].parallel
    <3> HIDE DEF all, End, last
    <3>1. Held(pipes, cs, p, s) /\ Held(pipes, cs, q, s)
      BY <1>3, <2>1
    <3>2. ASSUME NEW x \in 1 .. Len(cs), p = n + x PROVE ~all[p].parallel
      BY <1>3, <3>2
    <3>3. CASE p \in 1 .. n /\ s \in ToSet(pipes[p].subops)
      <4>1. all[p] = pipes[p]
        BY <1>3, <3>3
      <4>2. ASSUME q \in 1 .. n, s \in ToSet(pipes[q].subops) PROVE ~pipes[p].parallel
        BY <1>1, <2>1, <3>3, <4>2 DEF SharedOK
      <4>3. ASSUME NEW y \in 1 .. Len(cs), NEW m \in 1 .. Len(last), s = last[m]
            PROVE  ~pipes[p].parallel
        <5>1. s \in ToSet(pipes[n].subops) /\ n \in 1 .. n /\ ~pipes[n].parallel
          BY <1>4, <4>3 DEF last
        <5>2. CASE p = n
          BY <5>1, <5>2
        <5>3. CASE p # n
          BY <1>1, <3>3, <5>1, <5>3 DEF SharedOK
        <5> QED BY <5>2, <5>3
      <4>4. ASSUME NEW y \in 1 .. Len(cs), s = cs[y].pipe.subops[1] PROVE FALSE
        <5>1. PICK l \in ToSet(pipes[n].subops) : l.sort = "lookup_with_hash" /\ l.op = s.op
          BY <1>4, <4>4 DEF last
        <5>2. s.sort = "AtomicHashTableSource" /\ n \in 1 .. n
          BY <1>4, <4>4
        <5>3. n < p
          BY <1>1, <3>3, <5>1, <5>2 DEF OrderOK
        <5>4. p \in Nat /\ p <= n
          BY <1>2, <3>3
        <5> QED BY <1>2, <5>3, <5>4
      <4> QED BY <3>1, <4>1, <4>2, <4>3, <4>4 DEF Held, last
    <3> QED BY <3>1, <3>2, <3>3 DEF Held
  <2> HIDE DEF all, End
  <2> QED BY <1>3, <2>1 DEF SharedOK
<1>8. ContinuationsOK(all, << >>, d)
  <2>1. IsSeq(<< >>) /\ Len(<< >>) = 0
    BY DEF IsSeq, ToSet
  <2> HIDE DEF all
  <2> QED BY <2>1 DEF ContinuationsOK
<1>9. NoneUnmatched(all)
  <2>1. ToSet(all[Len(all)].subops) = {}
    <3>1. EmptyPipeline.subops = << >>
      BY DEF EmptyPipeline
    <3>2. ToSet(<< >>) = {}
      BY DEF ToSet
    <3> HIDE DEF all, End
    <3> QED BY <1>3, <3>1, <3>2
  <2> HIDE DEF all
  <2> QED BY <2>1 DEF NoneUnmatched
<1>10. DagOK(all, << >>, d)
  <2> HIDE DEF all
  <2> QED BY <1>3, <1>5, <1>6, <1>7, <1>8, <1>9 DEF DagOK
<1> QED BY <1>10

-----------------------------------------------------------------------------
(* Attaching suboperators to the last pipeline.                            *)

(* The last pipeline gets pipe instead.                                    *)
LastReplaced(pipes, pipe, to) ==
  /\ IsSeq(to) /\ Len(to) = Len(pipes) /\ to[Len(pipes)] = pipe
  /\ \A p \in 1 .. Len(pipes) : p # Len(pipes) => to[p] = pipes[p]

(* An update of the last element.                                          *)
LEMMA SeqReplaced ==
  ASSUME NEW pipes, IsSeq(pipes), Len(pipes) > 0, NEW pipe
  PROVE  LastReplaced(pipes, pipe, [pipes EXCEPT ![Len(pipes)] = pipe])
<1> DEFINE n == Len(pipes)
           to == [pipes EXCEPT ![n] = pipe]
<1>1. n \in Nat /\ n > 0 /\ DOMAIN pipes = 1 .. n /\ n \in 1 .. n
  BY SeqElements
<1>2. pipes = [k \in 1 .. n |-> pipes[k]]
  <2> DEFINE S == ToSet(pipes)
  <2>1. pipes \in Seq(S)
    BY DEF IsSeq
  <2> HIDE DEF S
  <2> QED BY <2>1
<1> HIDE DEF n
<1>3. /\ DOMAIN to = 1 .. n /\ to[n] = pipe
      /\ \A k \in 1 .. n : k # n => to[k] = pipes[k]
  BY <1>1, <1>2
<1>4. to = [k \in 1 .. n |-> to[k]]
  BY <1>1, <1>2
<1>5. IsSeq(to) /\ Len(to) = n
  <2> HIDE DEF to
  <2> QED BY <1>1, <1>3, <1>4, SeqMade
<1>6. LastReplaced(pipes, pipe, to)
  <2> HIDE DEF to
  <2> QED BY <1>3, <1>5 DEF LastReplaced, n
<1> QED BY <1>6 DEF n

(* attachSuboperator changes the last pipeline only.                       *)
LEMMA AttachResult ==
  ASSUME NEW pipes, PipesOK(pipes), Len(pipes) > 0, NEW subops, IsSeq(subops)
  PROVE  \E pipe : /\ LastReplaced(pipes, pipe, Attach(pipes, subops)) /\ IsPipe(pipe)
                   /\ pipe.subops = pipes[Len(pipes)].subops \o subops
                   /\ pipe.parallel = pipes[Len(pipes)].parallel
<1> DEFINE n == Len(pipes)
           old_pipe == pipes[n]
           all == pipes[n].subops \o subops
           pipe == AppendTo(pipes[n], subops)
<1>1. n \in 1 .. n /\ IsPipe(pipes[n]) /\ IsSeq(pipes[n].subops) /\ pipes[n].parallel \in BOOLEAN
      /\ IsSeq(pipes)
  BY PipeAt
<1>2. pipe = [subops |-> all, parallel |-> pipes[n].parallel]
  <2> DEFINE from == pipes[n]
             a == pipes[n].subops
             b == pipes[n].parallel
  <2>1. from = [subops |-> a, parallel |-> b]
    BY <1>1, Zenon DEF IsPipe
  <2> HIDE DEF from, a, b
  <2>2. AppendTo(from, subops) = [subops |-> a \o subops, parallel |-> b]
    BY ONLY <2>1, SubopsAppended
  <2> QED BY <2>2 DEF from, a, b
<1>3. IsSeq(all)
  BY <1>1, SeqConcat
<1>4. pipe.subops = all /\ pipe.parallel = pipes[n].parallel /\ IsPipe(pipe)
  <2> DEFINE par == pipes[n].parallel
  <2> HIDE DEF pipe, all, par
  <2>1. pipe = [subops |-> all, parallel |-> par] /\ par \in BOOLEAN
    BY <1>1, <1>2 DEF par
  <2>2. pipe.subops = all /\ pipe.parallel = par
    BY <2>1
  <2> QED BY <1>3, <2>1, <2>2, Zenon DEF IsPipe, par
<1>5. Attach(pipes, subops) = [pipes EXCEPT ![n] = pipe]
  BY DEF Attach
<1>6. LastReplaced(pipes, pipe, Attach(pipes, subops))
  <2> HIDE DEF pipe
  <2> QED BY <1>1, <1>5, SeqReplaced, ZenonT(60)
<1> HIDE DEF pipe
<1> QED BY <1>4, <1>6

(* Suboperators of call i that may be attached: their like is in no other  *)
(* pipeline, and they keep the order of pipelines.                         *)
Attachable(pipes, cs, subops, i) ==
  /\ IsSeq(subops) /\ Len(pipes) > 0
  /\ \A s \in ToSet(subops) : Stems(s, calls[i]) /\ s.sort # "AtomicHashTableSource"
  /\ \A s \in ToSet(subops) : \A p \in 1 .. Len(pipes) :
       p # Len(pipes) => s \notin ToSet(pipes[p].subops)
  /\ \A s \in ToSet(subops) : s.sort \in Readers =>
       /\ \A t \in ToSet(subops) : t.sort \notin Fillers
       /\ \A t \in ToSet(pipes[Len(pipes)].subops) : ~(t.sort \in Fillers /\ t.op = s.op)
  /\ \A t \in ToSet(subops) : t.sort \in Fillers =>
       \A p \in 1 .. Len(pipes) : \A s \in ToSet(pipes[p].subops) :
         ~(s.sort \in Readers /\ s.op = t.op)
  /\ \A t \in ToSet(subops) : t.sort = "lookup_with_hash" =>
       /\ \A p \in 1 .. Len(pipes) : \A s \in ToSet(pipes[p].subops) :
            ~(s.sort = "AtomicHashTableSource" /\ s.op = t.op)
       /\ \A x \in 1 .. Len(cs) : cs[x].pipe.subops[1].op # t.op

(* Attaching suboperators that no pipeline has yet, and that fill no       *)
(* table an earlier pipeline reads, keeps the order of the pipelines.      *)
LEMMA AttachOK ==
  ASSUME NEW pipes, NEW cs, NEW d \in Nat, DagOK(pipes, cs, d), NEW i \in 1 .. d,
         NEW subops, Attachable(pipes, cs, subops, i)
  PROVE  DagOK(Attach(pipes, subops), cs, d)
<1> DEFINE n == Len(pipes)
           old_subops == pipes[n].subops
<1>1. /\ PipesOK(pipes) /\ StemsOK(pipes, d) /\ OrderOK(pipes) /\ SharedOK(pipes)
      /\ ContinuationsOK(pipes, cs, d) /\ NoneUnmatched(pipes)
      /\ n > 0 /\ IsSeq(subops)
  BY DEF DagOK, Attachable
<1>2. PICK pipe : /\ LastReplaced(pipes, pipe, Attach(pipes, subops)) /\ IsPipe(pipe)
                  /\ pipe.subops = old_subops \o subops
                  /\ pipe.parallel = pipes[n].parallel
  BY <1>1, AttachResult
<1>3. n \in Nat /\ n \in 1 .. n /\ IsSeq(old_subops)
  BY <1>1, PipeAt
<1> DEFINE to == Attach(pipes, subops)
<1>4. /\ IsSeq(to) /\ Len(to) = n /\ to[n] = pipe
      /\ \A p \in 1 .. n : p # n => to[p] = pipes[p]
  BY <1>2 DEF LastReplaced
<1> HIDE DEF to
<1>5. /\ ToSet(pipe.subops) = ToSet(old_subops) \cup ToSet(subops)
      /\ Len(pipe.subops) = Len(old_subops) + Len(subops)
      /\ Len(old_subops) \in Nat /\ Len(subops) \in Nat
      /\ \A k \in 1 .. Len(old_subops) : pipe.subops[k] = old_subops[k]
      /\ \A k \in Len(old_subops) + 1 .. Len(old_subops) + Len(subops) :
           pipe.subops[k] = subops[k - Len(old_subops)]
  <2> HIDE DEF old_subops
  <2> QED BY <1>1, <1>2, <1>3, SeqConcat, SeqElements
(* What is new, and what was there.                                        *)
<1>6. \A p \in 1 .. n : \A s \in ToSet(to[p].subops) :
        s \in ToSet(pipes[p].subops) \/ (p = n /\ s \in ToSet(subops))
  BY <1>4, <1>5
<1>7. \A p \in 1 .. n : to[p].parallel = pipes[p].parallel
  BY <1>2, <1>4
<1>8. PipesOK(to)
  <2>1. \A p \in 1 .. n : IsPipe(to[p])
    BY <1>1, <1>2, <1>4 DEF PipesOK
  <2> QED BY <1>4, <2>1 DEF PipesOK
<1>9. StemsOK(to, d)
  <2> SUFFICES ASSUME NEW p \in 1 .. n, NEW s \in ToSet(to[p].subops)
               PROVE  \E k \in 1 .. d : Stems(s, calls[k])
    BY <1>4 DEF StemsOK
  <2>1. CASE s \in ToSet(pipes[p].subops)
    BY <1>1, <2>1 DEF StemsOK
  <2>2. CASE s \in ToSet(subops)
    BY <2>2 DEF Attachable
  <2> QED BY <1>6, <2>1, <2>2
<1>10. OrderOK(to)
  <2> SUFFICES ASSUME NEW p \in 1 .. n, NEW q \in 1 .. n,
                      NEW s \in ToSet(to[p].subops), NEW t \in ToSet(to[q].subops),
                      s.op = t.op,
                      \/ s.sort \in Readers /\ t.sort \in Fillers
                      \/ s.sort = "AtomicHashTableSource" /\ t.sort = "lookup_with_hash"
               PROVE  q < p
    BY <1>4 DEF OrderOK
  <2>1. CASE s \in ToSet(pipes[p].subops) /\ t \in ToSet(pipes[q].subops)
    BY <1>1, <2>1 DEF OrderOK
  <2>2. CASE s \in ToSet(pipes[p].subops) /\ t \in ToSet(subops)
    BY <2>2 DEF Attachable
  <2>3. CASE p = n /\ s \in ToSet(subops) /\ t \in ToSet(pipes[q].subops)
    <3>1. s.sort # "AtomicHashTableSource"
      BY <2>3 DEF Attachable
    <3>2. s.sort \in Readers /\ t.sort \in Fillers
      BY <3>1
    <3>3. q # n
      BY <2>3, <3>2 DEF Attachable
    <3> QED BY <1>3, <2>3, <3>3
  <2>4. CASE s \in ToSet(subops) /\ t \in ToSet(subops)
    BY <2>4 DEF Attachable
  <2> QED BY <1>6, <2>1, <2>2, <2>3, <2>4
<1>11. SharedOK(to)
  <2>1. \A s \in ToSet(subops) : \A p \in 1 .. n : p # n => s \notin ToSet(pipes[p].subops)
    BY DEF Attachable
  <2> SUFFICES ASSUME NEW p \in 1 .. n, NEW q \in 1 .. n, NEW s \in ToSet(to[p].subops),
                      p # q, s \in ToSet(to[q].subops)
               PROVE  ~to[p].parallel /\ ~to[q].parallel
    BY <1>4 DEF SharedOK
  <2>2. s \in ToSet(pipes[p].subops) /\ s \in ToSet(pipes[q].subops)
    BY <1>6, <2>1
  <2> QED BY <1>1, <1>7, <2>2 DEF SharedOK
<1>12. ContinuationsOK(to, cs, d)
  <2>1. ASSUME NEW x \in 1 .. Len(cs) PROVE ContinuationOK(pipe, cs[x], d)
    <3> DEFINE c == cs[x]
    <3>1. ContinuationOK(pipes[n], c, d)
      BY <1>1 DEF ContinuationsOK
    <3> HIDE DEF c
    <3>2. /\ c.index \in 1 .. Len(old_subops) /\ ~pipes[n].parallel
          /\ c.pipe = [subops |-> <<c.pipe.subops[1]>>, parallel |-> FALSE]
          /\ c.pipe.subops[1].sort = "AtomicHashTableSource"
          /\ \E k \in 1 .. d : Stems(c.pipe.subops[1], calls[k])
      BY <3>1 DEF ContinuationOK
    <3>3. c.index \in 1 .. Len(pipe.subops) /\ ~pipe.parallel
      <4> HIDE DEF old_subops
      <4> QED BY <1>2, <1>5, <3>2
    <3>4. \E k \in 1 .. Len(pipe.subops) :
            pipe.subops[k].sort = "lookup_with_hash" /\ pipe.subops[k].op = c.pipe.subops[1].op
      <4>1. PICK k \in 1 .. Len(old_subops) :
              old_subops[k].sort = "lookup_with_hash" /\ old_subops[k].op = c.pipe.subops[1].op
        BY <3>1 DEF ContinuationOK
      <4> HIDE DEF old_subops
      <4>2. k \in 1 .. Len(pipe.subops) /\ pipe.subops[k] = old_subops[k]
        BY <1>5
      <4> QED BY <4>1, <4>2
    <3>5. ASSUME NEW k \in 1 .. Len(pipe.subops),
                 pipe.subops[k].sort = "lookup_with_hash",
                 pipe.subops[k].op = c.pipe.subops[1].op
          PROVE  k <= c.index
      <4>1. CASE k \in 1 .. Len(old_subops)
        BY <1>5, <3>1, <3>5, <4>1 DEF ContinuationOK
      <4>2. CASE k \notin 1 .. Len(old_subops)
        <5> HIDE DEF old_subops
        <5>1. k \in Len(old_subops) + 1 .. Len(old_subops) + Len(subops)
              /\ k - Len(old_subops) \in 1 .. Len(subops)
          BY <1>5, <4>2
        <5>2. pipe.subops[k] \in ToSet(subops)
          BY <1>1, <1>5, <5>1, SeqElements
        <5>3. c.pipe.subops[1].op # pipe.subops[k].op
          BY <3>5, <5>2 DEF Attachable, c
        <5> QED BY <3>5, <5>3
      <4> QED BY <4>1, <4>2
    <3>6. ContinuationOK(pipe, c, d)
      BY <3>2, <3>3, <3>4, <3>5 DEF ContinuationOK
    <3> QED BY <3>6 DEF c
  <2> QED BY <1>1, <1>4, <2>1 DEF ContinuationsOK
<1>13. NoneUnmatched(to)
  <2>1. \A s \in ToSet(old_subops) : s.sort # "AtomicHashTableSource"
    BY <1>1 DEF NoneUnmatched
  <2>2. \A s \in ToSet(subops) : s.sort # "AtomicHashTableSource"
    BY DEF Attachable
  <2> HIDE DEF old_subops
  <2> QED BY <1>4, <1>5, <2>1, <2>2 DEF NoneUnmatched
<1>14. DagOK(to, cs, d)
  BY <1>8, <1>9, <1>10, <1>11, <1>12, <1>13 DEF DagOK
<1> QED BY <1>14 DEF to

(* What holds of the first d calls holds of the first d + 1.               *)
LEMMA LaterOK ==
  ASSUME NEW pipes, NEW cs, NEW d \in Nat, DagOK(pipes, cs, d)
  PROVE  DagOK(pipes, cs, d + 1)
<1>1. \A i \in 1 .. d : i \in 1 .. d + 1
  OBVIOUS
<1>2. StemsOK(pipes, d + 1)
  BY <1>1 DEF DagOK, StemsOK
<1>3. \A x \in 1 .. Len(cs) : ContinuationOK(pipes[Len(pipes)], cs[x], d + 1)
  BY <1>1 DEF DagOK, ContinuationsOK, ContinuationOK
<1>4. ContinuationsOK(pipes, cs, d + 1)
  BY <1>3 DEF DagOK, ContinuationsOK
<1> QED BY <1>2, <1>4 DEF DagOK

(* A continuation of the last pipeline, that begins with src, after a      *)
(* lookup in the table that src reads.                                     *)
LEMMA ContinuationOpened ==
  ASSUME NEW pipes, NEW d \in Nat, DagOK(pipes, continuations, d), NEW src, NEW at,
         Len(pipes) > 0, at = Len(pipes[Len(pipes)].subops), ~pipes[Len(pipes)].parallel,
         src.sort = "AtomicHashTableSource", \E i \in 1 .. d : Stems(src, calls[i]),
         \E l \in ToSet(pipes[Len(pipes)].subops) :
           l.sort = "lookup_with_hash" /\ l.op = src.op
  PROVE  DagOK(pipes, AttachContinuation(at, src), d)
<1> DEFINE n == Len(pipes)
           last == pipes[n]
           c == [index |-> at, pipe |-> [subops |-> <<src>>, parallel |-> FALSE]]
           cs == continuations
           to == Append(cs, c)
<1>1. /\ PipesOK(pipes) /\ StemsOK(pipes, d) /\ OrderOK(pipes) /\ SharedOK(pipes)
      /\ ContinuationsOK(pipes, cs, d) /\ NoneUnmatched(pipes)
  BY DEF DagOK
<1>2. n \in 1 .. n /\ IsSeq(last.subops) /\ Len(last.subops) \in Nat
  BY <1>1, PipeAt
<1>3. IsSeq(cs) /\ Len(cs) \in Nat
  BY <1>1, SeqElements DEF ContinuationsOK
<1>4. /\ IsSeq(to) /\ Len(to) = Len(cs) + 1 /\ to[Len(cs) + 1] = c
      /\ \A k \in 1 .. Len(cs) : to[k] = cs[k]
  <2> HIDE DEF c, cs
  <2> QED BY <1>3, SeqAppended
<1>5. c.index = at /\ c.pipe = [subops |-> <<src>>, parallel |-> FALSE] /\ c.pipe.subops[1] = src
  OBVIOUS
<1>6. PICK k \in 1 .. Len(last.subops) :
        last.subops[k].sort = "lookup_with_hash" /\ last.subops[k].op = src.op
  <2> HIDE DEF last
  <2>1. PICK l \in ToSet(last.subops) : l.sort = "lookup_with_hash" /\ l.op = src.op
    BY DEF last
  <2>2. PICK k \in 1 .. Len(last.subops) : l = last.subops[k]
    BY <1>2, SeqElements
  <2> QED BY <2>1, <2>2
<1>7. ContinuationOK(last, c, d)
  <2> HIDE DEF last, c
  <2>1. at \in 1 .. Len(last.subops)
    BY <1>2, <1>6 DEF last
  <2>2. \A j \in 1 .. Len(last.subops) : j <= at
    BY <1>2 DEF last
  <2>3. c.pipe = [subops |-> <<c.pipe.subops[1]>>, parallel |-> FALSE]
    BY <1>5, Zenon
  <2>4. ~last.parallel
    BY DEF last
  <2> QED BY <1>5, <1>6, <2>1, <2>2, <2>3, <2>4 DEF ContinuationOK
<1>8. \A x \in 1 .. Len(cs) : ContinuationOK(last, cs[x], d) /\ cs[x].index <= at
  <2>1. ASSUME NEW x \in 1 .. Len(cs) PROVE ContinuationOK(last, cs[x], d)
    BY <1>1, <2>1 DEF ContinuationsOK
  <2>2. ASSUME NEW x \in 1 .. Len(cs) PROVE cs[x].index <= at
    <3>1. cs[x].index \in 1 .. Len(last.subops)
      BY <2>1 DEF ContinuationOK
    <3> QED BY <1>2, <3>1
  <2> QED BY <2>1, <2>2
<1>9. \A x \in 1 .. Len(to) :
        ContinuationOK(last, to[x], d) /\ \A y \in 1 .. x : to[y].index <= to[x].index
  <2> HIDE DEF to, cs, c, last
  <2>1. ASSUME NEW x \in 1 .. Len(cs)
        PROVE  ContinuationOK(last, to[x], d) /\ \A y \in 1 .. x : to[y].index <= to[x].index
    <3>1. \A y \in 1 .. x : y \in 1 .. Len(cs)
      BY <1>3
    <3>2. \A y \in 1 .. x : cs[y].index <= cs[x].index
      BY <1>1 DEF ContinuationsOK
    <3> QED BY <1>4, <1>8, <3>1, <3>2
  <2>2. ASSUME NEW x, x = Len(cs) + 1
        PROVE  ContinuationOK(last, to[x], d) /\ \A y \in 1 .. x : to[y].index <= to[x].index
    <3>1. to[x] = c /\ to[x].index = at
      BY <1>4, <1>5, <2>2
    <3>2. \A y \in 1 .. x : y \in 1 .. Len(cs) \/ y = x
      BY <1>3, <2>2
    <3>3. \A y \in 1 .. Len(cs) : to[y].index <= at
      BY <1>4, <1>8
    <3>4. at <= at
      BY <1>2 DEF last
    <3> QED BY <1>7, <3>1, <3>2, <3>3, <3>4
  <2>3. \A x \in 1 .. Len(to) : x \in 1 .. Len(cs) \/ x = Len(cs) + 1
    BY <1>3, <1>4
  <2> QED BY <2>1, <2>2, <2>3
<1>10. ContinuationsOK(pipes, to, d)
  <2> HIDE DEF to
  <2> QED BY <1>4, <1>9 DEF ContinuationsOK
<1>11. AttachContinuation(at, src) = to
  BY DEF AttachContinuation
<1> HIDE DEF to
<1> QED BY <1>1, <1>10, <1>11 DEF DagOK

(* The pipelines that share suboperators need not generate in parallel.    *)
LEMMA StopOK ==
  ASSUME NEW pipes, NEW cs, NEW d \in Nat, DagOK(pipes, cs, d), Len(pipes) > 0
  PROVE  /\ DagOK(StopParallelCodegen(pipes), cs, d)
         /\ Len(StopParallelCodegen(pipes)) = Len(pipes)
         /\ ~StopParallelCodegen(pipes)[Len(pipes)].parallel
         /\ \A p \in 1 .. Len(pipes) : StopParallelCodegen(pipes)[p].subops = pipes[p].subops
<1> DEFINE n == Len(pipes)
           to == StopParallelCodegen(pipes)
           pipe == [pipes[n] EXCEPT !.parallel = FALSE]
<1>1. /\ PipesOK(pipes) /\ StemsOK(pipes, d) /\ OrderOK(pipes) /\ SharedOK(pipes)
      /\ ContinuationsOK(pipes, cs, d) /\ NoneUnmatched(pipes)
  BY DEF DagOK
<1>2. IsSeq(pipes) /\ n \in Nat /\ n \in 1 .. n /\ IsPipe(pipes[n]) /\ IsSeq(pipes[n].subops)
  BY <1>1, PipeAt
<1>3. pipe.subops = pipes[n].subops /\ pipe.parallel = FALSE /\ IsPipe(pipe)
  <2> DEFINE from == pipes[n]
             no == FALSE
             new == [from EXCEPT !.parallel = no]
  <2>1. from = [subops |-> from.subops, parallel |-> from.parallel] /\ no \in BOOLEAN
    BY <1>2, Zenon DEF IsPipe
  <2>2. IsSeq(from.subops)
    BY <1>2
  <2> HIDE DEF from, no
  <2>3. new = [subops |-> from.subops, parallel |-> no]
    BY <2>1
  <2>4. new.subops = from.subops /\ new.parallel = no
    BY <2>3
  <2> HIDE DEF new
  <2>5. new = [subops |-> new.subops, parallel |-> new.parallel]
    BY <2>3, <2>4
  <2>6. IsPipe(new)
    BY <2>1, <2>2, <2>4, <2>5, Zenon DEF IsPipe
  <2> QED BY <2>4, <2>6 DEF from, no, new
<1>4. to = [pipes EXCEPT ![n] = pipe]
  BY DEF StopParallelCodegen
<1>5. LastReplaced(pipes, pipe, to)
  <2> HIDE DEF pipe, to
  <2> QED BY <1>2, <1>4, SeqReplaced
<1>6. /\ IsSeq(to) /\ Len(to) = n /\ ~to[n].parallel
      /\ \A p \in 1 .. n : /\ to[p].subops = pipes[p].subops /\ IsPipe(to[p])
                           /\ ~pipes[p].parallel => ~to[p].parallel
  <2> HIDE DEF pipe, to
  <2>1. IsSeq(to) /\ Len(to) = n /\ to[n] = pipe /\ \A p \in 1 .. n : p # n => to[p] = pipes[p]
    BY <1>5 DEF LastReplaced
  <2>2. \A p \in 1 .. n : IsPipe(pipes[p])
    BY <1>1 DEF PipesOK
  <2> QED BY <1>3, <2>1, <2>2
<1> HIDE DEF to
<1>7. PipesOK(to) /\ StemsOK(to, d) /\ OrderOK(to)
  BY <1>1, <1>6 DEF PipesOK, StemsOK, OrderOK
<1>8. SharedOK(to)
  BY <1>1, <1>6 DEF SharedOK
<1>9. ContinuationsOK(to, cs, d)
  <2>1. ASSUME NEW x \in 1 .. Len(cs) PROVE ContinuationOK(to[n], cs[x], d)
    <3>1. ContinuationOK(pipes[n], cs[x], d)
      BY <1>1 DEF ContinuationsOK
    <3> QED BY <1>2, <1>6, <3>1 DEF ContinuationOK
  <2> QED BY <1>1, <1>6, <2>1 DEF ContinuationsOK
<1>10. NoneUnmatched(to)
  BY <1>1, <1>2, <1>6 DEF NoneUnmatched
<1>11. DagOK(to, cs, d)
  BY <1>7, <1>8, <1>9, <1>10 DEF DagOK
<1> QED BY <1>6, <1>11 DEF to

-----------------------------------------------------------------------------
(* The suboperators of an operator.                                        *)

(* Suboperators of the operator op, of these sorts; keys that they pack go *)
(* to the part of that name.                                               *)
MadeBy(subops, op, sorts, part) ==
  /\ IsSeq(subops)
  /\ \A s \in ToSet(subops) :
       /\ s.op = op /\ s.sort \in sorts
       /\ s.sort = "KeyPacker" => s.ins[2].part = part

(* A single suboperator, no packer.                                        *)
LEMMA MadeOne ==
  ASSUME NEW s, NEW op, NEW sorts, NEW part, s.op = op, s.sort \in sorts,
         s.sort # "KeyPacker"
  PROVE  MadeBy(<<s>>, op, sorts, part) /\ ToSet(<<s>>) = {s}
  BY SeqOne DEF MadeBy

(* Suboperators of the same sorts, one after the other.                    *)
LEMMA MadeConcat ==
  ASSUME NEW a, NEW b, NEW op, NEW sorts, NEW part,
         MadeBy(a, op, sorts, part), MadeBy(b, op, sorts, part)
  PROVE  MadeBy(a \o b, op, sorts, part) /\ ToSet(a \o b) = ToSet(a) \cup ToSet(b)
<1>1. IsSeq(a \o b) /\ ToSet(a \o b) = ToSet(a) \cup ToSet(b)
  BY SeqConcat DEF MadeBy
<1> QED BY <1>1 DEF MadeBy

(* A suboperator for every element of a list.                              *)
LEMMA MadeEach ==
  ASSUME NEW q, IsSeq(q), NEW f, DOMAIN f = DOMAIN q, f = [i \in DOMAIN q |-> f[i]],
         NEW op, NEW sorts, NEW part,
         \A i \in DOMAIN q : /\ f[i].op = op /\ f[i].sort \in sorts
                             /\ f[i].sort = "KeyPacker" => f[i].ins[2].part = part
  PROVE  MadeBy(f, op, sorts, part)
<1>1. Len(q) \in Nat /\ DOMAIN q = 1 .. Len(q)
  BY SeqElements
<1>2. IsSeq(f)
  BY <1>1, SeqMade
<1>3. ASSUME NEW s \in ToSet(f) PROVE \E i \in DOMAIN q : s = f[i]
  BY <1>3 DEF ToSet
<1> QED BY <1>2, <1>3 DEF MadeBy

(* The sort, operator and IUs of a suboperator, whether or not it calls a  *)
(* function.                                                               *)
LEMMA SubopFields ==
  ASSUME NEW sort, NEW op, NEW ins, NEW outs, NEW bytes, NEW fct, NEW ty
  PROVE  /\ Subop(sort, op, ins, outs, bytes).sort = sort
         /\ Subop(sort, op, ins, outs, bytes).op = op
         /\ Subop(sort, op, ins, outs, bytes).ins = ins
         /\ Calling(fct, ty, Subop(sort, op, ins, outs, bytes)).sort = sort
         /\ Calling(fct, ty, Subop(sort, op, ins, outs, bytes)).op = op
         /\ Calling(fct, ty, Subop(sort, op, ins, outs, bytes)).ins = ins
  BY DEF Subop, Calling

(* TableScan::decay makes a driver and a provider for every IU.            *)
LEMMA ScanMade ==
  ASSUME NEW c, IsSeq(c.ius), NEW part
  PROVE  MadeBy(ScanSubops(c), c.op, {"TScanDriver", "TScanIUProvider"}, part)
<1> DEFINE sorts == {"TScanDriver", "TScanIUProvider"}
           loop == Internal(c.op, "loop", "u8", 8)
           driver == Subop("TScanDriver", c.op, << >>, <<loop>>, << >>)
           providers == [i \in DOMAIN c.ius |->
                           Subop("TScanIUProvider", c.op, <<loop>>, <<c.ius[i]>>, << >>)]
<1>1. MadeBy(<<driver>>, c.op, sorts, part)
  <2>1. driver.op = c.op /\ driver.sort = "TScanDriver"
    BY DEF Subop
  <2> HIDE DEF driver
  <2> QED BY <2>1, MadeOne
<1>2. MadeBy(providers, c.op, sorts, part)
  <2>1. DOMAIN providers = DOMAIN c.ius /\ providers = [i \in DOMAIN c.ius |-> providers[i]]
    OBVIOUS
  <2>2. \A i \in DOMAIN c.ius : providers[i].op = c.op /\ providers[i].sort = "TScanIUProvider"
    BY DEF Subop
  <2> HIDE DEF providers
  <2> QED BY <2>1, <2>2, MadeEach
<1>3. ScanSubops(c) = <<driver>> \o providers
  BY DEF ScanSubops
<1> HIDE DEF driver, providers
<1> QED BY <1>1, <1>2, <1>3, MadeConcat

(* ExpressionOp::decay makes a suboperator for every node.                 *)
LEMMA ExpressionMade ==
  ASSUME NEW c, IsSeq(c.nodes), NEW part
  PROVE  MadeBy(ExpressionSubops(c), c.op, {"RuntimeExpression", "Expression"}, part)
<1> DEFINE f == ExpressionSubops(c)
<1>1. DOMAIN f = DOMAIN c.nodes /\ f = [i \in DOMAIN c.nodes |-> f[i]]
  BY DEF ExpressionSubops
<1>2. \A i \in DOMAIN c.nodes : f[i].op = c.op /\ f[i].sort \in {"RuntimeExpression", "Expression"}
  BY SubopFields DEF ExpressionSubops
<1>3. \A i \in DOMAIN c.nodes : f[i].sort # "KeyPacker"
  BY <1>2
<1> HIDE DEF f
<1>4. MadeBy(f, c.op, {"RuntimeExpression", "Expression"}, part)
  BY <1>1, <1>2, <1>3, MadeEach
<1> QED BY <1>4 DEF f

(* Filter::decay makes a scope, and the filter of every column.            *)
LEMMA FilterMade ==
  ASSUME NEW op, NEW ty, NEW cond, NEW pseudo, NEW from, IsSeq(from), NEW to, NEW part
  PROVE  MadeBy(FilterSubops(op, ty, cond, pseudo, from, to), op,
                {"ColumnFilterScope", "ColumnFilterLogic"}, part)
<1> DEFINE sorts == {"ColumnFilterScope", "ColumnFilterLogic"}
           scope == Subop("ColumnFilterScope", op, <<cond>>, <<pseudo>>, << >>)
           f == [i \in DOMAIN from |->
                  Calling(IF ty = "ptr" /\ from[i] = cond THEN "filters_itself" ELSE "", ty,
                    Subop("ColumnFilterLogic", op, <<pseudo, from[i]>>, <<to[i]>>, << >>))]
<1>1. MadeBy(<<scope>>, op, sorts, part)
  <2>1. scope.op = op /\ scope.sort = "ColumnFilterScope"
    BY DEF Subop
  <2> HIDE DEF scope
  <2> QED BY <2>1, MadeOne
<1>2. MadeBy(f, op, sorts, part)
  <2>1. DOMAIN f = DOMAIN from /\ f = [i \in DOMAIN from |-> f[i]]
    OBVIOUS
  <2>2. \A i \in DOMAIN from : f[i].op = op /\ f[i].sort = "ColumnFilterLogic"
    BY DEF Subop, Calling
  <2> HIDE DEF f
  <2> QED BY <2>1, <2>2, MadeEach
<1>3. FilterSubops(op, ty, cond, pseudo, from, to) = <<scope>> \o f
  BY DEF FilterSubops
<1> HIDE DEF scope, f
<1> QED BY <1>1, <1>2, <1>3, MadeConcat

(* Packers name the buffer that they pack into.                            *)
LEMMA PackMade ==
  ASSUME NEW op, NEW row, IsSeq(row), NEW into, NEW pseudo, NEW sorts, "KeyPacker" \in sorts
  PROVE  MadeBy(Pack(op, row, into, pseudo), op, sorts, into.part)
<1> DEFINE f == Pack(op, row, into, pseudo)
<1>1. DOMAIN f = DOMAIN row /\ f = [i \in DOMAIN row |-> f[i]]
  BY DEF Pack
<1>2. \A i \in DOMAIN row :
        f[i].op = op /\ f[i].sort = "KeyPacker" /\ f[i].ins = <<row[i], into>>
  BY SubopFields DEF Pack
<1>3. \A i \in DOMAIN row : f[i].ins[2].part = into.part
  BY <1>2
<1> HIDE DEF f
<1>4. MadeBy(f, op, sorts, into.part)
  BY <1>1, <1>2, <1>3, MadeEach
<1> QED BY <1>4 DEF f

(* Unpackers, one for every IU.                                            *)
LEMMA UnpackMade ==
  ASSUME NEW op, NEW from, NEW row, IsSeq(row), NEW sorts, "KeyUnpacker" \in sorts, NEW part
  PROVE  MadeBy(Unpack(op, from, row), op, sorts, part)
<1> DEFINE f == Unpack(op, from, row)
<1>1. DOMAIN f = DOMAIN row /\ f = [i \in DOMAIN row |-> f[i]]
  BY DEF Unpack
<1>2. \A i \in DOMAIN row : f[i].op = op /\ f[i].sort = "KeyUnpacker"
  BY SubopFields DEF Unpack
<1> HIDE DEF f
<1>3. MadeBy(f, op, sorts, part)
  BY <1>1, <1>2, MadeEach
<1> QED BY <1>3 DEF f

(* Join::decay materializes build rows and packs them through the slot.    *)
LEMMA BuildMade ==
  ASSUME NEW c, IsSeq(c.row)
  PROVE  MadeBy(BuildSubops(c), c.op, {"materialize_tuple", "KeyPacker"}, "lookup_left")
<1> DEFINE sorts == {"materialize_tuple", "KeyPacker"}
           slot == Pointer(c.op, "lookup_left")
           mat == Calling("materialize_tuple", "",
                    Subop("materialize_tuple", c.op, c.row, <<slot>>, << >>))
           pack == Pack(c.op, c.row, slot, NoPseudo(c.row))
<1>1. BuildSubops(c) = <<mat>> \o pack
  BY DEF BuildSubops
<1>2. MadeBy(<<mat>>, c.op, sorts, "lookup_left")
  <2>1. mat.op = c.op /\ mat.sort = "materialize_tuple"
    BY DEF Subop, Calling
  <2> HIDE DEF mat
  <2> QED BY <2>1, MadeOne
<1>3. MadeBy(pack, c.op, sorts, "lookup_left")
  <2>1. slot.part = "lookup_left"
    BY DEF Pointer, Internal
  <2> DEFINE pseudo == NoPseudo(c.row)
             row == c.row
  <2>2. "KeyPacker" \in sorts /\ IsSeq(row)
    OBVIOUS
  <2> HIDE DEF slot, pseudo, row, sorts
  <2>3. MadeBy(Pack(c.op, row, slot, pseudo), c.op, sorts, slot.part)
    BY <2>2, PackMade
  <2> QED BY <2>1, <2>3 DEF pseudo, row
<1> HIDE DEF mat, pack, sorts
<1>4. MadeBy(<<mat>> \o pack, c.op, sorts, "lookup_left")
  BY <1>2, <1>3, MadeConcat
<1> QED BY <1>1, <1>4 DEF sorts

(* Up to its lookup, Join::decay packs the probe row into a scratch pad.   *)
LEMMA LookupMade ==
  ASSUME NEW c, IsSeq(c.row)
  PROVE  /\ MadeBy(LookupSubops(c), c.op,
                   {"ScratchPad", "KeyPacker", "hash_and_prefetch", "lookup_with_hash"},
                   "scratch_pad_right")
         /\ \E s \in ToSet(LookupSubops(c)) : s.sort = "lookup_with_hash" /\ s.op = c.op
<1> DEFINE sorts == {"ScratchPad", "KeyPacker", "hash_and_prefetch", "lookup_with_hash"}
           part == "scratch_pad_right"
           hash == Internal(c.op, "hash_right", "u8", 8)
           pad == Subop("ScratchPad", c.op, << >>, <<ScratchPad(c)>>, << >>)
           pack == Pack(c.op, c.row, ScratchPad(c), PseudoFor(c.op, c.row))
           prefetch == Calling(HashFunction(c.keyWidth), "", Subop("hash_and_prefetch", c.op,
                         <<ScratchPad(c)>> \o PseudoIUs(c.op, c.row), <<hash>>, << >>))
           lookup == Calling(LookupFunction(c), "", Subop("lookup_with_hash", c.op,
                       <<ScratchPad(c), hash>>, <<LookupResult(c)>>, << >>))
<1>1. LookupSubops(c) = (<<pad>> \o pack) \o <<prefetch, lookup>>
  BY DEF LookupSubops
<1>2. pad.op = c.op /\ pad.sort = "ScratchPad"
  BY DEF Subop
<1>3. prefetch.op = c.op /\ prefetch.sort = "hash_and_prefetch"
  BY DEF Subop, Calling
<1>4. lookup.op = c.op /\ lookup.sort = "lookup_with_hash"
  BY DEF Subop, Calling
<1>5. MadeBy(pack, c.op, sorts, part)
  <2> DEFINE into == ScratchPad(c)
             pseudo == PseudoFor(c.op, c.row)
             row == c.row
  <2>1. into.part = part
    BY DEF ScratchPad, ByteArray, Internal
  <2>2. "KeyPacker" \in sorts /\ IsSeq(row)
    OBVIOUS
  <2> HIDE DEF into, pseudo, row, sorts, part
  <2>3. MadeBy(Pack(c.op, row, into, pseudo), c.op, sorts, into.part)
    BY <2>2, PackMade
  <2> QED BY <2>1, <2>3 DEF into, pseudo, row
<1> HIDE DEF pad, pack, prefetch, lookup
<1>6. MadeBy(<<pad>>, c.op, sorts, part)
  BY <1>2, MadeOne
<1>7. ToSet(<<prefetch, lookup>>) = {prefetch, lookup} /\ IsSeq(<<prefetch, lookup>>)
  <2>1. ToSet(<<prefetch, lookup>>) = {prefetch, lookup}
    BY DEF ToSet
  <2> QED BY <2>1 DEF IsSeq
<1>8. MadeBy(<<prefetch, lookup>>, c.op, sorts, part)
  BY <1>3, <1>4, <1>7 DEF MadeBy
<1> DEFINE first == <<pad>> \o pack
           second == <<prefetch, lookup>>
<1>9. lookup \in ToSet(second)
  BY <1>7
<1> HIDE DEF sorts, part
<1>10. MadeBy(first, c.op, sorts, part)
  BY <1>5, <1>6, MadeConcat
<1> HIDE DEF first, second
<1>11. MadeBy(second, c.op, sorts, part)
  BY <1>8 DEF second
<1>12. MadeBy(first \o second, c.op, sorts, part) /\ lookup \in ToSet(first \o second)
  BY <1>9, <1>10, <1>11, MadeConcat
<1>13. LookupSubops(c) = first \o second
  BY <1>1 DEF first, second
<1> QED BY <1>4, <1>12, <1>13 DEF sorts, part

(* After its lookup, Join::decay filters and unpacks matches.              *)
LEMMA MatchMade ==
  ASSUME NEW c, IsSeq(c.outLeft), IsSeq(c.outRight), NEW part
  PROVE  MadeBy(MatchSubops(c), c.op,
                {"ColumnFilterScope", "ColumnFilterLogic", "KeyUnpacker"}, part)
<1> DEFINE sorts == {"ColumnFilterScope", "ColumnFilterLogic", "KeyUnpacker"}
           build == Pointer(c.op, "filtered_build")
           probe == Pointer(c.op, "filtered_probe")
           semi == c.type = "LeftSemi"
           from == <<LookupResult(c)>> \o (IF semi THEN << >> ELSE <<ScratchPad(c)>>)
           to == <<build>> \o (IF semi THEN << >> ELSE <<probe>>)
           filter == FilterSubops(c.op, "ptr", LookupResult(c), FilterPseudo(c.op), from, to)
           left == Unpack(c.op, build, c.outLeft)
           right == Unpack(c.op, probe, c.outRight)
<1>1. MatchSubops(c) = (filter \o left) \o right
  BY DEF MatchSubops
<1>2. IsSeq(from)
  <2> DEFINE result == LookupResult(c)
             pad == ScratchPad(c)
  <2> HIDE DEF result, pad
  <2>1. IsSeq(<<result>>) /\ IsSeq(<<pad>>) /\ IsSeq(<< >>)
    BY SeqOne, SeqNone
  <2>2. IsSeq(<<result>> \o << >>) /\ IsSeq(<<result>> \o <<pad>>)
    BY <2>1, SeqConcat
  <2> QED BY <2>2 DEF result, pad
<1>3. MadeBy(filter, c.op, {"ColumnFilterScope", "ColumnFilterLogic"}, part)
  <2> HIDE DEF from, to
  <2> QED BY <1>2, FilterMade
<1>4. MadeBy(filter, c.op, sorts, part)
  <2> HIDE DEF filter
  <2> QED BY <1>3 DEF MadeBy
<1>5. MadeBy(left, c.op, sorts, part) /\ MadeBy(right, c.op, sorts, part)
  <2> DEFINE rowLeft == c.outLeft
             rowRight == c.outRight
  <2>1. "KeyUnpacker" \in sorts /\ IsSeq(rowLeft) /\ IsSeq(rowRight)
    OBVIOUS
  <2> HIDE DEF build, probe, rowLeft, rowRight, sorts
  <2>2. MadeBy(Unpack(c.op, build, rowLeft), c.op, sorts, part)
    BY <2>1, UnpackMade
  <2>3. MadeBy(Unpack(c.op, probe, rowRight), c.op, sorts, part)
    BY <2>1, UnpackMade
  <2> QED BY <2>2, <2>3 DEF rowLeft, rowRight
<1> HIDE DEF filter, left, right, sorts
<1>6. MadeBy(filter \o left, c.op, sorts, part)
  BY <1>4, <1>5, MadeConcat
<1> DEFINE both == filter \o left
<1> HIDE DEF both
<1>7. MadeBy(both \o right, c.op, sorts, part)
  BY <1>5, <1>6, MadeConcat DEF both
<1> QED BY <1>1, <1>7 DEF both, sorts

(* Print::decay makes a sink for every IU.                                 *)
LEMMA PrintMade ==
  ASSUME NEW c, IsSeq(c.ius), NEW part
  PROVE  MadeBy(PrintSubops(c), c.op, {"FuseChunkSink"}, part)
<1> DEFINE f == PrintSubops(c)
<1>1. DOMAIN f = DOMAIN c.ius /\ f = [i \in DOMAIN c.ius |-> f[i]]
  BY DEF PrintSubops
<1>2. \A i \in DOMAIN c.ius : f[i].op = c.op /\ f[i].sort = "FuseChunkSink"
  BY DEF PrintSubops, Subop
<1> HIDE DEF f
<1>3. MadeBy(f, c.op, {"FuseChunkSink"}, part)
  BY <1>1, <1>2, MadeEach
<1> QED BY <1>3 DEF f

(* Aggregation::decay packs keys, if there are not one, looks the group    *)
(* up and updates its granules.                                            *)
LEMMA AggregateMade ==
  ASSUME NEW c, IsSeq(c.groupBy), IsSeq(c.granules)
  PROVE  MadeBy(AggregateSubops(c), c.op,
                {"ScratchPad", "KeyPacker", "lookup_or_insert", "Aggregator"}, "packed_ht_key")
<1> DEFINE sorts == {"ScratchPad", "KeyPacker", "lookup_or_insert", "Aggregator"}
           part == "packed_ht_key"
           packed == ByteArray(c.op, "packed_ht_key", c.groupBy)
           group == Pointer(c.op, "agg_pointer_result")
           pseudo == PseudoFor(c.op, c.groupBy)
           function == CASE c.groupBy = << >> -> "ht_nk_lookup"
                         [] ComplexKey(c.groupBy) -> "ht_ck_lookup_or_insert"
                         [] OTHER -> "ht_sk_lookup_or_insert"
           LookedUp(ins, bytes) ==
             Calling(function, "", Subop("lookup_or_insert", c.op, ins, <<group>>, bytes))
           single == LookedUp(c.groupBy, BytesOf(0, c.groupBy, 1))
           pad == Subop("ScratchPad", c.op, << >>, <<packed>>, << >>)
           pack == Pack(c.op, c.groupBy, packed, pseudo)
           compound == LookedUp(IF c.groupBy = << >> THEN <<c.granules[1].iu>>
                                ELSE <<packed>> \o PseudoIUs(c.op, c.groupBy), << >>)
           f == [i \in DOMAIN c.granules |->
                  Calling(c.granules[i].state, "", Subop("Aggregator", c.op,
                    <<group, c.granules[i].iu>>, << >>, BytesOf(c.first, c.granules, i)))]
           lookup == IF Len(c.groupBy) = 1 THEN <<single>>
                     ELSE (<<pad>> \o pack) \o <<compound>>
<1>1. AggregateSubops(c) = lookup \o f
  BY DEF AggregateSubops
<1>2. single.op = c.op /\ single.sort = "lookup_or_insert"
  BY DEF Subop, Calling
<1>3. compound.op = c.op /\ compound.sort = "lookup_or_insert"
  BY DEF Subop, Calling
<1>4. pad.op = c.op /\ pad.sort = "ScratchPad"
  BY DEF Subop
<1>5. MadeBy(pack, c.op, sorts, part)
  <2> DEFINE row == c.groupBy
  <2>1. packed.part = part
    BY DEF ByteArray, Internal
  <2>2. "KeyPacker" \in sorts /\ IsSeq(row)
    OBVIOUS
  <2> HIDE DEF packed, pseudo, row, sorts, part
  <2>3. MadeBy(Pack(c.op, row, packed, pseudo), c.op, sorts, packed.part)
    BY <2>2, PackMade
  <2> QED BY <2>1, <2>3 DEF row
<1>6. MadeBy(f, c.op, sorts, part)
  <2>1. DOMAIN f = DOMAIN c.granules /\ f = [i \in DOMAIN c.granules |-> f[i]]
    OBVIOUS
  <2>2. \A i \in DOMAIN c.granules : f[i].op = c.op /\ f[i].sort = "Aggregator"
    BY DEF Subop, Calling
  <2> HIDE DEF f
  <2> QED BY <2>1, <2>2, MadeEach
<1> HIDE DEF single, compound, pad, pack, f
<1>7. MadeBy(<<single>>, c.op, sorts, part) /\ MadeBy(<<compound>>, c.op, sorts, part)
      /\ MadeBy(<<pad>>, c.op, sorts, part)
  BY <1>2, <1>3, <1>4, MadeOne
<1> DEFINE first == <<pad>> \o pack
           last == <<compound>>
<1>8. MadeBy(first, c.op, sorts, part)
  <2> HIDE DEF sorts, part
  <2> QED BY <1>5, <1>7, MadeConcat
<1>9. MadeBy(first \o last, c.op, sorts, part)
  <2> HIDE DEF first, last, sorts, part
  <2>1. MadeBy(last, c.op, sorts, part)
    BY <1>7 DEF last
  <2> QED BY <1>8, <2>1, MadeConcat
<1>10. MadeBy(lookup, c.op, sorts, part)
  <2> HIDE DEF sorts, part, LookedUp
  <2>1. CASE Len(c.groupBy) = 1
    BY <1>7, <2>1
  <2>2. CASE Len(c.groupBy) # 1
    BY <1>9, <2>2
  <2> QED BY <2>1, <2>2
<1> HIDE DEF lookup, sorts, part
<1>11. MadeBy(lookup \o f, c.op, sorts, part)
  BY <1>6, <1>10, MadeConcat
<1> QED BY <1>1, <1>11 DEF sorts, part

(* Aggregation::decay reads keys and results from the groups.              *)
LEMMA ReadGroupsMade ==
  ASSUME NEW c, IsSeq(c.keys), IsSeq(c.results), NEW part
  PROVE  MadeBy(ReadGroupsSubops(c), c.op, {"HashTableSource", "KeyUnpacker", "AggReader"}, part)
<1> DEFINE sorts == {"HashTableSource", "KeyUnpacker", "AggReader"}
           group == Pointer(c.op, "ht_scan_result")
           src == Calling(IF ComplexKey(c.keys) THEN "ck" ELSE "sk", "",
                    Subop("HashTableSource", c.op, << >>, <<group>>, << >>))
           keys == Unpack(c.op, group, c.keys)
           f == [i \in DOMAIN c.results |->
                  Calling(IF Len(c.reads[i]) = 1 THEN "unpack" ELSE "avg", c.types[i],
                    Subop("AggReader", c.op, <<group>>, <<c.results[i]>>, c.reads[i]))]
<1>1. ReadGroupsSubops(c) = (<<src>> \o keys) \o f
  BY DEF ReadGroupsSubops
<1>2. src.op = c.op /\ src.sort = "HashTableSource"
  BY DEF Subop, Calling
<1>3. MadeBy(keys, c.op, sorts, part)
  <2> DEFINE row == c.keys
  <2>1. "KeyUnpacker" \in sorts /\ IsSeq(row)
    OBVIOUS
  <2> HIDE DEF group, row, sorts
  <2>2. MadeBy(Unpack(c.op, group, row), c.op, sorts, part)
    BY <2>1, UnpackMade
  <2> QED BY <2>2 DEF row
<1>4. MadeBy(f, c.op, sorts, part)
  <2>1. DOMAIN f = DOMAIN c.results /\ f = [i \in DOMAIN c.results |-> f[i]]
    OBVIOUS
  <2>2. \A i \in DOMAIN c.results : f[i].op = c.op /\ f[i].sort = "AggReader"
    BY DEF Subop, Calling
  <2> HIDE DEF f
  <2> QED BY <2>1, <2>2, MadeEach
<1> HIDE DEF src, keys, f
<1>5. MadeBy(<<src>>, c.op, sorts, part)
  BY <1>2, MadeOne
<1> DEFINE first == <<src>> \o keys
<1> HIDE DEF sorts
<1>6. MadeBy(first, c.op, sorts, part)
  BY <1>3, <1>5, MadeConcat
<1> HIDE DEF first
<1>7. MadeBy(first \o f, c.op, sorts, part)
  BY <1>4, <1>6, MadeConcat
<1> QED BY <1>1, <1>7 DEF first, sorts

-----------------------------------------------------------------------------
(* Plans, and what is new about the suboperators of the next call.         *)

PlanInv ==
  /\ plan.outs = << >> /\ threads \in Nat \ {0}
  /\ IsSeq(calls) /\ Len(calls) > 0 /\ calls[1].call = "TableScan"
  /\ \A i \in 1 .. Len(calls) :
       /\ ListsOK(calls[i])
       /\ \A j \in 1 .. i - 1 :
            calls[j].op = calls[i].op => calls[j].call = "JoinBuild" /\ calls[i].call = "JoinProbe"
       /\ calls[i].call = "JoinProbe" =>
            \E k \in 1 .. i - 1 :
              BeginsPipeline(calls[k]) /\ \A j \in k .. i - 1 : calls[j].op # calls[i].op

(* A query begins with a plan of PlanAssumption.                           *)
LEMMA InitPlan ==
  ASSUME NEW r \in Runs, plan = Plans[r[1]], threads = r[2]
  PROVE  PlanInv
<1>1. /\ plan.outs = << >> /\ IsSeq(calls) /\ calls # << >> /\ calls[1].call = "TableScan"
      /\ \A i \in DOMAIN calls :
           /\ ListsOK(calls[i])
           /\ \A j \in 1 .. i - 1 :
                calls[j].op = calls[i].op => calls[j].call = "JoinBuild" /\ calls[i].call = "JoinProbe"
           /\ calls[i].call = "JoinProbe" =>
                \E k \in 1 .. i - 1 :
                  BeginsPipeline(calls[k]) /\ \A j \in k .. i - 1 : calls[j].op # calls[i].op
  <2>1. calls = Plans[r[1]].calls /\ plan.outs = Plans[r[1]].outs
    BY DEF calls
  <2> DEFINE cs == Plans[r[1]].calls
  <2>2. /\ Plans[r[1]].outs = << >>
        /\ IsSeq(cs) /\ cs # << >> /\ cs[1].call = "TableScan"
        /\ \A i \in DOMAIN cs :
             /\ ListsOK(cs[i])
             /\ \A j \in 1 .. i - 1 :
                  cs[j].op = cs[i].op => cs[j].call = "JoinBuild" /\ cs[i].call = "JoinProbe"
             /\ cs[i].call = "JoinProbe" =>
                  \E k \in 1 .. i - 1 :
                    BeginsPipeline(cs[k]) /\ \A j \in k .. i - 1 : cs[j].op # cs[i].op
    BY PlanAssumption, Zenon
  <2> HIDE DEF cs
  <2>3. calls = cs
    BY <2>1 DEF cs
  <2> QED BY <2>1, <2>2, <2>3
<1>2. threads \in Nat \ {0}
  BY DAGAssumption
<1>3. DOMAIN calls = 1 .. Len(calls) /\ Len(calls) \in Nat
  BY <1>1, SeqElements
<1>4. Len(calls) > 0
  <2> DEFINE S == ToSet(calls)
             cs == calls
  <2>1. cs \in Seq(S) /\ cs # << >>
    BY <1>1 DEF IsSeq
  <2> HIDE DEF S, cs
  <2>2. Len(cs) > 0
    BY <2>1
  <2> QED BY <2>2 DEF cs
<1> QED BY <1>1, <1>2, <1>3, <1>4 DEF PlanInv

(* No other call but the build of a probe has the same operator.           *)
LEMMA EarlierStems ==
  ASSUME PlanInv, NEW d \in Nat, d + 1 <= Len(calls), NEW s, s.op = calls[d + 1].op,
         NEW i \in 1 .. d, Stems(s, calls[i])
  PROVE  /\ calls[d + 1].call = "JoinProbe"
         /\ s.sort \in {"materialize_tuple", "KeyPacker"}
         /\ s.sort = "KeyPacker" => s.ins[2].part = "lookup_left"
<1>1. Len(calls) \in Nat
  BY SeqElements DEF PlanInv
<1>2. d + 1 \in 1 .. Len(calls) /\ i \in 1 .. (d + 1) - 1
  BY <1>1
<1>3. calls[i].op = calls[d + 1].op
  BY DEF Stems
<1>4. calls[i].call = "JoinBuild" /\ calls[d + 1].call = "JoinProbe"
  <2> DEFINE e == d + 1
  <2> HIDE DEF e
  <2>1. e \in 1 .. Len(calls) /\ i \in 1 .. e - 1 /\ calls[i].op = calls[e].op
    BY <1>2, <1>3 DEF e
  <2>2. calls[i].call = "JoinBuild" /\ calls[e].call = "JoinProbe"
    BY <2>1 DEF PlanInv
  <2> QED BY <2>2 DEF e
<1> QED BY <1>4 DEF Stems

(* What the first pipelines hold stems from calls before d + 1.            *)
Earlier(pipes, n, d) ==
  \A p \in 1 .. n : \A s \in ToSet(pipes[p].subops) : \E i \in 1 .. d : Stems(s, calls[i])

(* Suboperators of the next call are in no pipeline yet.                   *)
LEMMA NothingAlike ==
  ASSUME PlanInv, NEW d \in Nat, d + 1 <= Len(calls), NEW pipes, NEW n, Earlier(pipes, n, d),
         NEW s, Stems(s, calls[d + 1]), NEW p \in 1 .. n
  PROVE  s \notin ToSet(pipes[p].subops)
<1> SUFFICES ASSUME s \in ToSet(pipes[p].subops) PROVE FALSE
  OBVIOUS
<1>1. PICK i \in 1 .. d : Stems(s, calls[i])
  BY DEF Earlier
<1>2. s.op = calls[d + 1].op
  BY DEF Stems
<1>3. /\ calls[d + 1].call = "JoinProbe"
      /\ s.sort \in {"materialize_tuple", "KeyPacker"}
      /\ s.sort = "KeyPacker" => s.ins[2].part = "lookup_left"
  BY <1>1, <1>2, EarlierStems
<1> QED BY <1>3 DEF Stems

(* The first suboperators of a call may be attached.                       *)
LEMMA FreshAttachable ==
  ASSUME PlanInv, NEW d \in Nat, d + 1 <= Len(calls), NEW pipes, NEW cs,
         DagOK(pipes, cs, d), Len(pipes) > 0, NEW subops, IsSeq(subops),
         \A s \in ToSet(subops) : Stems(s, calls[d + 1]) /\ s.sort # "AtomicHashTableSource",
         \A s, t \in ToSet(subops) : ~(s.sort \in Readers /\ t.sort \in Fillers),
         calls[d + 1].call = "JoinProbe" =>
           \A t \in ToSet(pipes[Len(pipes)].subops) :
             ~(t.sort = "materialize_tuple" /\ t.op = calls[d + 1].op)
  PROVE  Attachable(pipes, cs, subops, d + 1)
<1> DEFINE n == Len(pipes)
           c == calls[d + 1]
<1>1. n \in Nat /\ n \in 1 .. n /\ StemsOK(pipes, d) /\ ContinuationsOK(pipes, cs, d)
  BY PipeAt DEF DagOK
<1>2. Earlier(pipes, n, d)
  BY <1>1 DEF StemsOK, Earlier
<1>3. ASSUME NEW p \in 1 .. n, NEW s \in ToSet(pipes[p].subops), s.op = c.op
      PROVE  c.call = "JoinProbe" /\ s.sort \in {"materialize_tuple", "KeyPacker"}
  <2>1. PICK i \in 1 .. d : Stems(s, calls[i])
    BY <1>2 DEF Earlier
  <2> QED BY <1>3, <2>1, EarlierStems
<1>4. ASSUME NEW x \in 1 .. Len(cs) PROVE cs[x].pipe.subops[1].op # c.op
  <2> DEFINE src == cs[x].pipe.subops[1]
  <2>1. ContinuationOK(pipes[n], cs[x], d)
    BY <1>1 DEF ContinuationsOK
  <2>2. src.sort = "AtomicHashTableSource" /\ \E i \in 1 .. d : Stems(src, calls[i])
    BY <2>1 DEF ContinuationOK
  <2> HIDE DEF src
  <2>3. src.op # c.op
    BY <2>2, EarlierStems
  <2> QED BY <2>3 DEF src
<1>5. \A s \in ToSet(subops) : s.op = c.op
  BY DEF Stems
<1>6. \A s \in ToSet(subops) : \A p \in 1 .. n : s \notin ToSet(pipes[p].subops)
  BY <1>2, NothingAlike
<1>7. ASSUME NEW s \in ToSet(subops), s.sort \in Readers, NEW t \in ToSet(pipes[n].subops),
             t.sort \in Fillers, t.op = s.op
      PROVE  FALSE
  <2>1. t.op = c.op
    BY <1>5, <1>7
  <2>2. c.call = "JoinProbe" /\ t.sort \in {"materialize_tuple", "KeyPacker"}
    BY <1>1, <1>3, <2>1
  <2>3. t.sort = "materialize_tuple"
    BY <1>7, <2>2 DEF Fillers
  <2> QED BY <2>1, <2>2, <2>3
<1>8. ASSUME NEW t \in ToSet(subops), NEW p \in 1 .. n, NEW s \in ToSet(pipes[p].subops),
             s.op = t.op
      PROVE  s.sort \notin Readers
  <2>1. s.op = c.op
    BY <1>5, <1>8
  <2>2. s.sort \in {"materialize_tuple", "KeyPacker"}
    BY <1>3, <2>1
  <2> QED BY <2>2 DEF Readers
<1>9. "AtomicHashTableSource" \in Readers
  BY DEF Readers
<1> QED BY <1>4, <1>5, <1>6, <1>7, <1>8, <1>9 DEF Attachable

-----------------------------------------------------------------------------
(* The steps of decay.                                                     *)

(* What is materialized in the last pipeline was so since it began.        *)
BuildsOK(pipes, d) ==
  Len(pipes) > 0 =>
    \A s \in ToSet(pipes[Len(pipes)].subops) : s.sort = "materialize_tuple" =>
      \A j \in 1 .. d : BeginsPipeline(calls[j]) => \E i \in j .. d : calls[i].op = s.op
StageOK(pipes, cs, d) ==
  /\ DagOK(pipes, cs, d) /\ BuildsOK(pipes, d)
  /\ d > 0 => Len(pipes) > 0

(* The last pipeline holds what it held and what is attached.              *)
LEMMA Attached ==
  ASSUME NEW pipes, PipesOK(pipes), Len(pipes) > 0, NEW subops, IsSeq(subops)
  PROVE  /\ Len(Attach(pipes, subops)) = Len(pipes)
         /\ \A p \in 1 .. Len(pipes) : p # Len(pipes) => Attach(pipes, subops)[p] = pipes[p]
         /\ ToSet(Attach(pipes, subops)[Len(pipes)].subops)
              = ToSet(pipes[Len(pipes)].subops) \cup ToSet(subops)
<1> DEFINE to == Attach(pipes, subops)
<1>1. PICK pipe : /\ LastReplaced(pipes, pipe, to) /\ IsPipe(pipe)
                  /\ pipe.subops = pipes[Len(pipes)].subops \o subops
  BY AttachResult
<1>2. IsSeq(pipes[Len(pipes)].subops)
  BY PipeAt
<1>3. ToSet(pipe.subops) = ToSet(pipes[Len(pipes)].subops) \cup ToSet(subops)
  BY <1>1, <1>2, SeqConcat
<1> HIDE DEF to
<1>4. /\ Len(to) = Len(pipes) /\ to[Len(pipes)] = pipe
      /\ \A p \in 1 .. Len(pipes) : p # Len(pipes) => to[p] = pipes[p]
  BY <1>1 DEF LastReplaced
<1> QED BY <1>3, <1>4 DEF to

(* A call that attaches to the current pipeline keeps what the pipelines   *)
(* promise. A probe does not follow its own build side in one pipeline:    *)
(* the probe side began a pipeline in between.                             *)
LEMMA AttachStage ==
  ASSUME PlanInv, NEW d \in Nat, d + 1 <= Len(calls), NEW pipes, NEW cs,
         StageOK(pipes, cs, d), Len(pipes) > 0, ~BeginsPipeline(calls[d + 1]),
         NEW subops, IsSeq(subops),
         \A s \in ToSet(subops) : Stems(s, calls[d + 1]) /\ s.sort # "AtomicHashTableSource",
         \A s, t \in ToSet(subops) : ~(s.sort \in Readers /\ t.sort \in Fillers)
  PROVE  StageOK(Attach(pipes, subops), cs, d + 1) /\ Len(Attach(pipes, subops)) = Len(pipes)
<1> DEFINE n == Len(pipes)
           to == Attach(pipes, subops)
           c == calls[d + 1]
<1>1. DagOK(pipes, cs, d) /\ BuildsOK(pipes, d) /\ PipesOK(pipes)
  BY DEF StageOK, DagOK
(* Since the build side of a probe another pipeline began.                 *)
<1>2. ASSUME c.call = "JoinProbe", NEW t \in ToSet(pipes[n].subops),
             t.sort = "materialize_tuple", t.op = c.op
      PROVE  FALSE
  <2>1. Len(calls) \in Nat
    BY SeqElements DEF PlanInv
  <2>2. PICK k \in 1 .. (d + 1) - 1 :
          BeginsPipeline(calls[k]) /\ \A j \in k .. (d + 1) - 1 : calls[j].op # c.op
    <3> DEFINE e == d + 1
    <3>1. e \in 1 .. Len(calls) /\ calls[e].call = "JoinProbe"
      BY <1>2, <2>1
    <3> HIDE DEF e
    <3>2. \E k \in 1 .. e - 1 :
            BeginsPipeline(calls[k]) /\ \A j \in k .. e - 1 : calls[j].op # calls[e].op
      BY <3>1, Zenon DEF PlanInv
    <3> QED BY <3>2 DEF e
  <2>3. k \in 1 .. d /\ (d + 1) - 1 = d
    OBVIOUS
  <2>4. PICK i \in k .. d : calls[i].op = t.op
    BY <1>1, <1>2, <2>2, <2>3 DEF BuildsOK
  <2> QED BY <1>2, <2>2, <2>3, <2>4
<1>3. Attachable(pipes, cs, subops, d + 1)
  BY <1>1, <1>2, FreshAttachable
<1>4. DagOK(pipes, cs, d + 1) /\ d + 1 \in 1 .. d + 1 /\ d + 1 \in Nat
  BY <1>1, LaterOK
<1>5. DagOK(to, cs, d + 1)
  <2> DEFINE e == d + 1
  <2> HIDE DEF e
  <2>1. DagOK(pipes, cs, e) /\ e \in 1 .. e /\ e \in Nat /\ Attachable(pipes, cs, subops, e)
    BY <1>3, <1>4 DEF e
  <2>2. DagOK(to, cs, e)
    BY <2>1, AttachOK
  <2> QED BY <2>2 DEF e
<1>6. Len(to) = n /\ ToSet(to[n].subops) = ToSet(pipes[n].subops) \cup ToSet(subops)
  BY <1>1, Attached
<1> HIDE DEF to
<1>7. BuildsOK(to, d + 1)
  <2> SUFFICES ASSUME NEW s \in ToSet(to[n].subops), s.sort = "materialize_tuple",
                      NEW j \in 1 .. d + 1, BeginsPipeline(calls[j])
               PROVE  \E i \in j .. d + 1 : calls[i].op = s.op
    BY <1>6 DEF BuildsOK
  <2>1. j \in 1 .. d
    <3>1. j # d + 1
      OBVIOUS
    <3> QED BY <3>1
  <2>2. CASE s \in ToSet(pipes[n].subops)
    <3>1. PICK i \in j .. d : calls[i].op = s.op
      BY <1>1, <2>1, <2>2 DEF BuildsOK
    <3>2. i \in j .. d + 1
      OBVIOUS
    <3> QED BY <3>1, <3>2
  <2>3. CASE s \in ToSet(subops)
    <3>1. s.op = c.op
      BY <2>3 DEF Stems
    <3>2. d + 1 \in j .. d + 1
      OBVIOUS
    <3> QED BY <3>1, <3>2
  <2> QED BY <1>6, <2>2, <2>3
<1> QED BY <1>5, <1>6, <1>7 DEF StageOK, to

(* buildNewPipeline leaves the pipelines, and an empty last one.           *)
LEMMA NewPipelineBuilt ==
  ASSUME NEW pipes, NEW d \in Nat, DagOK(pipes, continuations, d)
  PROVE  LET to == BuildNewPipeline(pipes)
         IN /\ DagOK(to, << >>, d) /\ Len(to) \in Nat /\ Len(to) > 0 /\ Len(to) > Len(pipes)
            /\ ToSet(to[Len(to)].subops) = {}
            /\ \A p \in 1 .. Len(pipes) : to[p] = pipes[p]
            /\ \A p \in 1 .. Len(to) : \A s \in ToSet(to[p].subops) :
                 \/ \E q \in 1 .. Len(pipes) : s \in ToSet(pipes[q].subops)
                 \/ s.sort = "AtomicHashTableSource" /\ \E i \in 1 .. d : Stems(s, calls[i])
<1> DEFINE cs == continuations
           r == FoldLeft(CloseContinuation, pipes, cs)
           to == Append(r, EmptyPipeline)
           n == Len(pipes)
<1>1. PipesOK(pipes) /\ ContinuationsOK(pipes, cs, d)
  BY DEF DagOK
<1>2. AllClosed(pipes, cs, r)
  BY <1>1, ContinuationsAppended
<1>3. n \in Nat /\ Len(cs) \in Nat
  BY <1>1, PipeAt, SeqElements DEF ContinuationsOK
<1> HIDE DEF r
<1>4. DagOK(to, << >>, d)
  BY <1>2, NewPipelineOK
<1>5. /\ Len(to) = n + Len(cs) + 1 /\ to[n + Len(cs) + 1] = EmptyPipeline
      /\ \A p \in 1 .. n : to[p] = pipes[p]
      /\ \A p \in 1 .. n + Len(cs) + 1 : \A s \in ToSet(to[p].subops) : Held(pipes, cs, p, s)
  BY <1>1, <1>2, NewPipelineHolds
<1> HIDE DEF to
<1>6. ASSUME NEW p \in 1 .. Len(to), NEW s \in ToSet(to[p].subops)
      PROVE  \/ \E q \in 1 .. n : s \in ToSet(pipes[q].subops)
             \/ s.sort = "AtomicHashTableSource" /\ \E i \in 1 .. d : Stems(s, calls[i])
  <2>1. Held(pipes, cs, p, s)
    BY <1>5
  <2>2. ASSUME NEW x \in 1 .. Len(cs), s = cs[x].pipe.subops[1]
        PROVE  s.sort = "AtomicHashTableSource" /\ \E i \in 1 .. d : Stems(s, calls[i])
    <3>1. ContinuationOK(pipes[n], cs[x], d)
      BY <1>1 DEF ContinuationsOK
    <3> QED BY <2>2, <3>1 DEF ContinuationOK
  <2>3. ASSUME NEW x \in 1 .. Len(cs), NEW m \in 1 .. Len(pipes[n].subops),
               s = pipes[n].subops[m]
        PROVE  n \in 1 .. n /\ s \in ToSet(pipes[n].subops)
    BY <1>1, <2>3, ContinuationFacts
  <2> QED BY <2>1, <2>2, <2>3 DEF Held
<1>7. ToSet(to[Len(to)].subops) = {}
  <2>1. EmptyPipeline.subops = << >>
    BY DEF EmptyPipeline
  <2> QED BY <1>5, <2>1, SeqNone
<1>8. Len(to) \in Nat /\ Len(to) > 0 /\ Len(to) > n
  <2> HIDE DEF n, cs
  <2> QED BY <1>3, <1>5
<1>9. BuildNewPipeline(pipes) = to
  BY DEF BuildNewPipeline, r, to
<1> QED BY <1>4, <1>5, <1>6, <1>7, <1>8, <1>9

(* TableScan::decay begins a pipeline.                                     *)
LEMMA ScanStage ==
  ASSUME PlanInv, NEW d \in Nat, d + 1 <= Len(calls), StageOK(pipelines, continuations, d),
         calls[d + 1].call = "TableScan"
  PROVE  LET to == Attach(BuildNewPipeline(pipelines), ScanSubops(calls[d + 1]))
         IN StageOK(to, << >>, d + 1) /\ Len(to) > Len(pipelines)
<1> DEFINE c == calls[d + 1]
           new == BuildNewPipeline(pipelines)
           subops == ScanSubops(c)
           to == Attach(new, subops)
           m == Len(new)
<1>1. /\ DagOK(new, << >>, d) /\ m \in Nat /\ m > 0 /\ m > Len(pipelines)
      /\ ToSet(new[m].subops) = {}
  BY NewPipelineBuilt DEF StageOK
<1>2. MadeBy(subops, c.op, {"TScanDriver", "TScanIUProvider"}, "")
  <2>1. Len(calls) \in Nat
    BY SeqElements DEF PlanInv
  <2>2. d + 1 \in 1 .. Len(calls)
    BY <2>1
  <2>3. IsSeq(c.ius)
    BY <2>2 DEF PlanInv, ListsOK
  <2> HIDE DEF c
  <2> QED BY <2>3, ScanMade
<1> HIDE DEF new, subops
<1>3. IsSeq(subops) /\ \A s \in ToSet(subops) :
        /\ Stems(s, c) /\ s.sort # "AtomicHashTableSource"
        /\ s.sort \notin Readers /\ s.sort # "materialize_tuple"
  BY <1>2 DEF MadeBy, Stems, Readers
<1>4. Attachable(new, << >>, subops, d + 1)
  <2> HIDE DEF m
  <2> QED BY <1>1, <1>3, FreshAttachable DEF m
<1>5. DagOK(to, << >>, d + 1)
  <2> DEFINE e == d + 1
  <2>1. DagOK(new, << >>, e) /\ e \in 1 .. e /\ e \in Nat
    BY <1>1, LaterOK
  <2> HIDE DEF e
  <2>2. DagOK(to, << >>, e)
    BY <1>4, <2>1, AttachOK DEF e
  <2> QED BY <2>2 DEF e
<1>6. Len(to) = m /\ ToSet(to[m].subops) = ToSet(subops)
  <2>1. PipesOK(new)
    BY <1>1 DEF DagOK
  <2>2. Len(to) = m /\ ToSet(to[m].subops) = ToSet(new[m].subops) \cup ToSet(subops)
    BY <1>1, <1>3, <2>1, Attached
  <2> HIDE DEF to
  <2> QED BY <1>1, <2>2
<1> HIDE DEF to
<1>7. BuildsOK(to, d + 1)
  BY <1>3, <1>6 DEF BuildsOK
<1>8. StageOK(to, << >>, d + 1)
  BY <1>1, <1>5, <1>6, <1>7 DEF StageOK
<1> QED BY <1>1, <1>6, <1>8 DEF to, new, subops

(* Calls that attach to the current pipeline.                              *)
LEMMA CurrentStage ==
  ASSUME PlanInv, NEW d \in Nat, d + 1 <= Len(calls), NEW pipes, NEW cs, StageOK(pipes, cs, d)
  PROVE  LET c == calls[d + 1]
         IN /\ c.call # "TableScan" => Len(pipes) > 0
            /\ \A subops, sorts, part :
                 /\ MadeBy(subops, c.op, sorts, part)
                 /\ \/ c.call = "ExpressionOp" /\ sorts = {"RuntimeExpression", "Expression"}
                    \/ c.call = "Filter" /\ sorts = {"ColumnFilterScope", "ColumnFilterLogic"}
                    \/ /\ c.call = "JoinBuild" /\ sorts = {"materialize_tuple", "KeyPacker"}
                       /\ part = "lookup_left"
                    \/ /\ c.call = "JoinProbe" /\ part = "scratch_pad_right"
                       /\ sorts \subseteq {"ScratchPad", "KeyPacker", "hash_and_prefetch",
                                           "lookup_with_hash", "ColumnFilterScope",
                                           "ColumnFilterLogic", "KeyUnpacker"}
                    \/ c.call = "Print" /\ sorts = {"FuseChunkSink"}
                 => /\ StageOK(Attach(pipes, subops), cs, d + 1)
                    /\ Len(Attach(pipes, subops)) = Len(pipes)
<1> DEFINE c == calls[d + 1]
<1>1. c.call # "TableScan" => Len(pipes) > 0
  <2>1. CASE d = 0
    BY <2>1 DEF PlanInv
  <2>2. CASE d # 0
    BY <2>2 DEF StageOK
  <2> QED BY <2>1, <2>2
<1>2. ASSUME NEW subops, NEW sorts, NEW part, MadeBy(subops, c.op, sorts, part),
             \/ c.call = "ExpressionOp" /\ sorts = {"RuntimeExpression", "Expression"}
             \/ c.call = "Filter" /\ sorts = {"ColumnFilterScope", "ColumnFilterLogic"}
             \/ /\ c.call = "JoinBuild" /\ sorts = {"materialize_tuple", "KeyPacker"}
                /\ part = "lookup_left"
             \/ /\ c.call = "JoinProbe" /\ part = "scratch_pad_right"
                /\ sorts \subseteq {"ScratchPad", "KeyPacker", "hash_and_prefetch",
                                    "lookup_with_hash", "ColumnFilterScope",
                                    "ColumnFilterLogic", "KeyUnpacker"}
             \/ c.call = "Print" /\ sorts = {"FuseChunkSink"}
      PROVE  StageOK(Attach(pipes, subops), cs, d + 1) /\ Len(Attach(pipes, subops)) = Len(pipes)
  <2>1. IsSeq(subops) /\ \A s \in ToSet(subops) :
          Stems(s, c) /\ s.sort # "AtomicHashTableSource" /\ s.sort \in sorts
    <3>1. IsSeq(subops)
      BY <1>2 DEF MadeBy
    <3>2. ASSUME NEW s \in ToSet(subops)
          PROVE  Stems(s, c) /\ s.sort # "AtomicHashTableSource" /\ s.sort \in sorts
      <4>1. /\ s.op = c.op /\ s.sort \in sorts
            /\ s.sort = "KeyPacker" => s.ins[2].part = part
        BY <1>2 DEF MadeBy
      <4> HIDE DEF c
      <4> QED BY <1>2, <4>1 DEF Stems
    <3> QED BY <3>1, <3>2
  <2>2. \A s, t \in ToSet(subops) : ~(s.sort \in Readers /\ t.sort \in Fillers)
    <3> HIDE DEF c
    <3>1. \A s, t \in sorts : ~(s \in Readers /\ t \in Fillers)
      BY <1>2 DEF Readers, Fillers
    <3> QED BY <2>1, <3>1
  <2>3. ~BeginsPipeline(c) /\ Len(pipes) > 0
    BY <1>1, <1>2 DEF BeginsPipeline
  <2> QED BY <2>1, <2>2, <2>3, AttachStage
<1> QED BY <1>1, <1>2

(* A lookup for an outer join, with the continuation after it.             *)
LEMMA OuterStage ==
  ASSUME PlanInv, NEW d \in Nat, d + 1 <= Len(calls), StageOK(pipelines, continuations, d),
         calls[d + 1].call = "JoinProbe"
  PROVE  LET c == calls[d + 1]
             upToLookup == Attach(pipelines, LookupSubops(c))
             at == Len(Last(upToLookup).subops)
             to == Attach(StopParallelCodegen(upToLookup), MatchSubops(c))
         IN /\ StageOK(to, AttachContinuation(at, UnmatchedSource(c)), d + 1)
            /\ Len(to) = Len(pipelines)
            /\ DagOK(upToLookup, continuations, d + 1)
<1> DEFINE c == calls[d + 1]
           cs == continuations
           n == Len(pipelines)
           first == LookupSubops(c)
           second == MatchSubops(c)
           up == Attach(pipelines, first)
           at == Len(Last(up).subops)
           src == UnmatchedSource(c)
           stopped == StopParallelCodegen(up)
           more == AttachContinuation(at, src)
           to == Attach(stopped, second)
           e == d + 1
<1>1. e \in 1 .. Len(calls) /\ e \in Nat /\ e \in 1 .. e
  <2>1. Len(calls) \in Nat
    BY SeqElements DEF PlanInv
  <2> QED BY <2>1
<1>2. IsSeq(c.row) /\ IsSeq(c.outLeft) /\ IsSeq(c.outRight)
  BY <1>1 DEF PlanInv, ListsOK
<1>3. /\ MadeBy(first, c.op,
                {"ScratchPad", "KeyPacker", "hash_and_prefetch", "lookup_with_hash"},
                "scratch_pad_right")
      /\ \E s \in ToSet(first) : s.sort = "lookup_with_hash" /\ s.op = c.op
      /\ MadeBy(second, c.op, {"ColumnFilterScope", "ColumnFilterLogic", "KeyUnpacker"}, "")
  <2> HIDE DEF c
  <2> QED BY <1>2, LookupMade, MatchMade
<1>4. src.sort = "AtomicHashTableSource" /\ src.op = c.op
  BY DEF UnmatchedSource, Subop, Calling
<1> HIDE DEF first, second, src
<1>5. n > 0 /\ StageOK(up, cs, e) /\ Len(up) = n
  <2> DEFINE sorts == {"ScratchPad", "KeyPacker", "hash_and_prefetch", "lookup_with_hash"}
             part == "scratch_pad_right"
  <2>1. n > 0
    BY CurrentStage
  <2>2. sorts \subseteq {"ScratchPad", "KeyPacker", "hash_and_prefetch", "lookup_with_hash",
                         "ColumnFilterScope", "ColumnFilterLogic", "KeyUnpacker"}
    OBVIOUS
  <2>3. MadeBy(first, c.op, sorts, part)
    BY <1>3
  <2> QED BY <2>1, <2>2, <2>3, CurrentStage
<1>6. PipesOK(pipelines) /\ StemsOK(pipelines, d) /\ n \in 1 .. n /\ n \in Nat
  <2>1. PipesOK(pipelines) /\ StemsOK(pipelines, d)
    BY DEF StageOK, DagOK
  <2> QED BY <1>5, <2>1, PipeAt
<1>7. IsSeq(first) /\ IsSeq(second)
  BY <1>3 DEF MadeBy
<1>8. /\ \A p \in 1 .. n : p # n => up[p] = pipelines[p]
      /\ ToSet(up[n].subops) = ToSet(pipelines[n].subops) \cup ToSet(first)
  BY <1>5, <1>6, <1>7, Attached
<1>9. at = Len(up[n].subops)
  BY <1>5 DEF Last
<1> HIDE DEF up, at
<1>10. DagOK(up, cs, e) /\ BuildsOK(up, e)
  BY <1>5 DEF StageOK
<1>11. /\ DagOK(stopped, cs, e) /\ Len(stopped) = n /\ ~stopped[n].parallel
       /\ \A p \in 1 .. n : stopped[p].subops = up[p].subops
  <2> HIDE DEF e, cs, n
  <2> QED BY <1>1, <1>5, <1>10, StopOK
<1> HIDE DEF stopped
<1>12. DagOK(stopped, more, e)
  <2>1. Stems(src, calls[e])
    BY <1>4 DEF Stems
  <2>2. PICK l \in ToSet(first) : l.sort = "lookup_with_hash" /\ l.op = c.op
    BY <1>3
  <2>3. l \in ToSet(stopped[n].subops)
    BY <1>6, <1>8, <1>11, <2>2
  <2>4. at = Len(stopped[n].subops)
    BY <1>6, <1>9, <1>11
  <2> HIDE DEF e, n, c
  <2>5. \E i \in 1 .. e : Stems(src, calls[i])
    BY <1>1, <2>1
  <2>6. /\ Len(stopped) > 0 /\ at = Len(stopped[Len(stopped)].subops)
        /\ ~stopped[Len(stopped)].parallel
        /\ \E k \in ToSet(stopped[Len(stopped)].subops) :
             k.sort = "lookup_with_hash" /\ k.op = src.op
    BY <1>4, <1>5, <1>11, <2>2, <2>3, <2>4
  <2> QED BY <1>1, <1>4, <1>11, <2>5, <2>6, ContinuationOpened
<1> HIDE DEF more
<1>13. \A s \in ToSet(second) :
         /\ Stems(s, c) /\ s.sort # "AtomicHashTableSource" /\ s.sort \notin Readers
         /\ s.sort \notin Fillers /\ s.sort # "lookup_with_hash"
         /\ s.sort # "materialize_tuple"
  <2>1. ASSUME NEW s \in ToSet(second)
        PROVE  s.op = c.op /\ s.sort \in {"ColumnFilterScope", "ColumnFilterLogic", "KeyUnpacker"}
    BY <1>3 DEF MadeBy
  <2> HIDE DEF c
  <2>2. c.call = "JoinProbe"
    BY DEF c
  <2> QED BY <2>1, <2>2 DEF Stems, Readers, Fillers
<1>14. \A s \in ToSet(second) : \A p \in 1 .. n : p # n => s \notin ToSet(stopped[p].subops)
  <2>1. Earlier(pipelines, n, d)
    BY <1>6 DEF StemsOK, Earlier
  <2>2. \A s \in ToSet(second) : \A p \in 1 .. n : s \notin ToSet(pipelines[p].subops)
    <3> HIDE DEF n
    <3> QED BY <1>13, <2>1, NothingAlike
  <2> QED BY <1>8, <1>11, <2>2
<1>15. Attachable(stopped, more, second, e)
  <2> HIDE DEF n, e
  <2>1. \A s \in ToSet(second) : Stems(s, calls[e]) /\ s.sort # "AtomicHashTableSource"
    BY <1>13 DEF e
  <2> QED BY <1>5, <1>7, <1>11, <1>13, <1>14, <2>1 DEF Attachable
<1>16. DagOK(to, more, e)
  <2> HIDE DEF e
  <2> QED BY <1>1, <1>12, <1>15, AttachOK
<1>17. Len(to) = n /\ ToSet(to[n].subops) = ToSet(up[n].subops) \cup ToSet(second)
  <2>1. PipesOK(stopped) /\ Len(stopped) > 0
    BY <1>5, <1>11 DEF DagOK
  <2>2. /\ Len(to) = Len(stopped)
        /\ ToSet(to[Len(stopped)].subops) = ToSet(stopped[Len(stopped)].subops) \cup ToSet(second)
    BY <1>7, <2>1, Attached
  <2> HIDE DEF to, n
  <2> QED BY <1>6, <1>11, <2>2
<1> HIDE DEF to
<1>18. BuildsOK(to, e)
  <2> HIDE DEF e
  <2> QED BY <1>5, <1>10, <1>13, <1>17 DEF BuildsOK
<1>19. StageOK(to, more, e)
  <2> HIDE DEF e
  <2> QED BY <1>5, <1>16, <1>17, <1>18 DEF StageOK
<1> QED BY <1>10, <1>17, <1>19 DEF to, more, stopped, up, at, first, second, src

(* Aggregation::decay fills its table in the last pipeline, begins         *)
(* another and reads the table there.                                      *)
LEMMA AggregationStage ==
  ASSUME PlanInv, NEW d \in Nat, d + 1 <= Len(calls), StageOK(pipelines, continuations, d),
         calls[d + 1].call = "Aggregation"
  PROVE  LET c == calls[d + 1]
             aggregating == Attach(pipelines, AggregateSubops(c))
             to == Attach(BuildNewPipeline(aggregating), ReadGroupsSubops(c))
         IN /\ StageOK(to, << >>, d + 1)
            /\ Len(to) > Len(pipelines) /\ Len(pipelines) > 0
            /\ DagOK(aggregating, continuations, d + 1)
<1> DEFINE c == calls[d + 1]
           cs == continuations
           n == Len(pipelines)
           first == AggregateSubops(c)
           second == ReadGroupsSubops(c)
           agg == Attach(pipelines, first)
           new == BuildNewPipeline(agg)
           m == Len(new)
           to == Attach(new, second)
           e == d + 1
<1>1. e \in 1 .. Len(calls) /\ e \in Nat /\ e \in 1 .. e
  <2>1. Len(calls) \in Nat
    BY SeqElements DEF PlanInv
  <2> QED BY <2>1
<1>2. IsSeq(c.groupBy) /\ IsSeq(c.granules) /\ IsSeq(c.keys) /\ IsSeq(c.results)
  BY <1>1 DEF PlanInv, ListsOK
<1>3. /\ MadeBy(first, c.op, {"ScratchPad", "KeyPacker", "lookup_or_insert", "Aggregator"},
                "packed_ht_key")
      /\ MadeBy(second, c.op, {"HashTableSource", "KeyUnpacker", "AggReader"}, "")
  <2> HIDE DEF c
  <2> QED BY <1>2, AggregateMade, ReadGroupsMade
<1> HIDE DEF first, second
<1>4. n > 0
  BY CurrentStage
<1>5. DagOK(pipelines, cs, d) /\ PipesOK(pipelines) /\ StemsOK(pipelines, d)
  BY DEF StageOK, DagOK
<1>6. /\ IsSeq(first)
      /\ \A s \in ToSet(first) :
           /\ Stems(s, c) /\ s.sort # "AtomicHashTableSource" /\ s.sort \notin Readers
           /\ s.sort \notin {"HashTableSource", "KeyUnpacker", "AggReader"}
  <2>1. ASSUME NEW s \in ToSet(first)
        PROVE  /\ s.op = c.op
               /\ s.sort \in {"ScratchPad", "KeyPacker", "lookup_or_insert", "Aggregator"}
    BY <1>3 DEF MadeBy
  <2>2. IsSeq(first)
    BY <1>3 DEF MadeBy
  <2>3. c.call = "Aggregation"
    OBVIOUS
  <2> HIDE DEF c
  <2> QED BY <2>1, <2>2, <2>3 DEF Stems, Readers
<1>7. /\ IsSeq(second)
      /\ \A s \in ToSet(second) :
           /\ Stems(s, c) /\ s.sort \in {"HashTableSource", "KeyUnpacker", "AggReader"}
           /\ s.sort \notin Fillers /\ s.sort # "AtomicHashTableSource"
           /\ s.sort # "lookup_with_hash" /\ s.sort # "materialize_tuple"
  <2>1. ASSUME NEW s \in ToSet(second)
        PROVE  s.op = c.op /\ s.sort \in {"HashTableSource", "KeyUnpacker", "AggReader"}
    BY <1>3 DEF MadeBy
  <2>2. IsSeq(second)
    BY <1>3 DEF MadeBy
  <2>3. c.call = "Aggregation"
    OBVIOUS
  <2> HIDE DEF c
  <2> QED BY <2>1, <2>2, <2>3 DEF Stems, Fillers
<1>8. Attachable(pipelines, cs, first, e)
  <2>1. \A s, t \in ToSet(first) : ~(s.sort \in Readers /\ t.sort \in Fillers)
    BY <1>6
  <2> QED BY <1>4, <1>5, <1>6, <2>1, FreshAttachable
<1>9. DagOK(pipelines, cs, e)
  BY <1>5, LaterOK
<1>10. DagOK(agg, cs, e)
  <2> HIDE DEF e
  <2> QED BY <1>1, <1>8, <1>9, AttachOK
<1>11. /\ Len(agg) = n /\ \A p \in 1 .. n : p # n => agg[p] = pipelines[p]
       /\ ToSet(agg[n].subops) = ToSet(pipelines[n].subops) \cup ToSet(first)
  BY <1>4, <1>5, <1>6, Attached
<1> HIDE DEF agg
<1>12. /\ DagOK(new, << >>, e) /\ m \in Nat /\ m > 0 /\ m > Len(agg)
       /\ ToSet(new[m].subops) = {}
       /\ \A p \in 1 .. Len(agg) : new[p] = agg[p]
       /\ \A p \in 1 .. m : \A s \in ToSet(new[p].subops) :
            \/ \E q \in 1 .. Len(agg) : s \in ToSet(agg[q].subops)
            \/ s.sort = "AtomicHashTableSource" /\ \E i \in 1 .. e : Stems(s, calls[i])
  <2> HIDE DEF e
  <2>1. e \in Nat
    BY <1>1
  <2> QED BY ONLY <1>10, <2>1, NewPipelineBuilt, ZenonT(60)
<1> HIDE DEF new
<1>13. ASSUME NEW s \in ToSet(second), NEW p \in 1 .. m, s \in ToSet(new[p].subops)
       PROVE  FALSE
  <2>1. PICK q \in 1 .. n : s \in ToSet(agg[q].subops)
    BY <1>7, <1>11, <1>12, <1>13
  <2>2. Earlier(pipelines, n, d)
    BY <1>5 DEF StemsOK, Earlier
  <2>3. s \notin ToSet(pipelines[q].subops)
    <3> HIDE DEF n
    <3> QED BY <1>7, <2>2, NothingAlike
  <2>4. s \notin ToSet(first)
    BY <1>6, <1>7
  <2> QED BY <1>11, <2>1, <2>3, <2>4
<1>14. Attachable(new, << >>, second, e)
  <2> HIDE DEF m, e
  <2>1. \A s \in ToSet(second) : Stems(s, calls[e]) /\ s.sort # "AtomicHashTableSource"
    BY <1>7 DEF e
  <2> QED BY <1>7, <1>12, <1>13, <2>1 DEF Attachable, m
<1>15. DagOK(to, << >>, e)
  <2> HIDE DEF e
  <2> QED BY <1>1, <1>12, <1>14, AttachOK
<1>16. Len(to) = m /\ ToSet(to[m].subops) = ToSet(second)
  <2>1. PipesOK(new)
    BY <1>12 DEF DagOK
  <2>2. Len(to) = m /\ ToSet(to[m].subops) = ToSet(new[m].subops) \cup ToSet(second)
    BY <1>7, <1>12, <2>1, Attached
  <2> HIDE DEF to
  <2> QED BY <1>12, <2>2
<1> HIDE DEF to
<1>17. BuildsOK(to, e)
  BY <1>7, <1>16 DEF BuildsOK
<1>18. StageOK(to, << >>, e)
  BY <1>12, <1>15, <1>16, <1>17 DEF StageOK
<1>19. Len(to) > n
  BY <1>11, <1>12, <1>16
<1> QED BY <1>4, <1>10, <1>18, <1>19 DEF to, new, agg, first, second
-----------------------------------------------------------------------------
(* The rows that move.                                                     *)

(* A run of a pipeline, suboperator by suboperator.                        *)
LEMMA RowsMoved ==
  ASSUME NEW path, IsSeq(path)
  PROVE  \E e : /\ e[0] = {}
                /\ \A k \in 1 .. Len(path) : e[k] = RowsAfter(e[k - 1], path[k])
                /\ FoldLeft(RowsAfter, {}, path) = e[Len(path)]
<1> DEFINE IsFold(f, m) ==
             f = [s \in SUBSET (1 .. m) |->
                    IF s = {} THEN {}
                    ELSE RowsAfter(f[s \ {Max(s)}], path[Max(s)])]
           A == {m \in Nat : \E f : IsFold(f, m)}
<1>1. Len(path) \in Nat /\ DOMAIN path = 1 .. Len(path)
  BY SeqElements
<1>2. FoldLeft(RowsAfter, {}, path) = (CHOOSE f : IsFold(f, Len(path)))[1 .. Len(path)]
  BY <1>1 DEF FoldLeft, MapThenFoldSet
<1>3. 0 \in A
  <2>1. IsFold([s \in {{}} |-> {}], 0)
    OBVIOUS
  <2> HIDE DEF IsFold
  <2> QED BY <2>1
<1>4. ASSUME NEW m \in A PROVE m + 1 \in A
  <2>1. PICK f : IsFold(f, m)
    OBVIOUS
  <2> DEFINE g == [s \in SUBSET (1 .. m + 1) |->
                     IF m + 1 \in s THEN RowsAfter(f[s \ {m + 1}], path[m + 1]) ELSE f[s]]
  <2>2. \A s \in SUBSET (1 .. m + 1) : m + 1 \notin s <=> s \in SUBSET (1 .. m)
    OBVIOUS
  <2>3. \A s \in SUBSET (1 .. m) : g[s] = f[s]
    BY <2>2
  <2>4. ASSUME NEW s \in SUBSET (1 .. m + 1), m + 1 \in s
        PROVE  /\ Max(s) = m + 1 /\ s # {}
               /\ g[s] = RowsAfter(g[s \ {Max(s)}], path[Max(s)])
    <3>1. \A y \in s : y \in Nat /\ y <= m + 1
      OBVIOUS
    <3>2. \A x \in s : (\A y \in s : x >= y) => x = m + 1
      BY <2>4, <3>1
    <3>3. Max(s) = m + 1
      BY <2>4, <3>1, <3>2 DEF Max
    <3>4. s \ {m + 1} \in SUBSET (1 .. m)
      BY <3>1
    <3>5. g[s] = RowsAfter(f[s \ {m + 1}], path[m + 1])
      BY <2>4
    <3>6. g[s \ {m + 1}] = f[s \ {m + 1}]
      BY <2>3, <3>4
    <3> QED BY <2>4, <3>3, <3>5, <3>6
  <2>5. ASSUME NEW s \in SUBSET (1 .. m), s # {}
        PROVE  g[s] = RowsAfter(g[s \ {Max(s)}], path[Max(s)])
    <3>1. g[s] = RowsAfter(f[s \ {Max(s)}], path[Max(s)])
      BY <2>1, <2>3, <2>5
    <3>2. g[s \ {Max(s)}] = f[s \ {Max(s)}]
      BY <2>3
    <3> QED BY <3>1, <3>2
  <2>6. g[{}] = {}
    BY <2>1, <2>3
  <2>7. g = [s \in SUBSET (1 .. m + 1) |-> g[s]]
    OBVIOUS
  <2>8. IsFold(g, m + 1)
    <3> HIDE DEF g
    <3>1. \A s \in SUBSET (1 .. m + 1) :
            g[s] = IF s = {} THEN {} ELSE RowsAfter(g[s \ {Max(s)}], path[Max(s)])
      BY <2>2, <2>4, <2>5, <2>6
    <3> QED BY <2>7, <3>1
  <2> HIDE DEF IsFold, g
  <2> QED BY <2>8
<1>5. Len(path) \in A
  <2> HIDE DEF A
  <2>1. Nat \subseteq A
    BY <1>3, <1>4, NaturalInduction
  <2> QED BY <1>1, <2>1
<1>6. PICK f : IsFold(f, Len(path)) /\ FoldLeft(RowsAfter, {}, path) = f[1 .. Len(path)]
  <2>1. \E f : IsFold(f, Len(path))
    BY <1>5
  <2> HIDE DEF IsFold
  <2> QED BY <1>2, <2>1
<1> DEFINE n == Len(path)
           e == [k \in 0 .. n |-> f[1 .. k]]
<1>7. e[0] = {}
  BY <1>1, <1>6
<1>8. ASSUME NEW k \in 1 .. n PROVE e[k] = RowsAfter(e[k - 1], path[k])
  <2>1. k \in Nat /\ 1 .. k \in SUBSET (1 .. n) /\ 1 .. k # {} /\ k \in 0 .. n /\ k - 1 \in 0 .. n
    BY <1>1, SMTT(60)
  <2>2. Max(1 .. k) = k
    <3>1. \A x \in 1 .. k : (\A y \in 1 .. k : x >= y) => x = k
      OBVIOUS
    <3>2. k \in 1 .. k /\ \A y \in 1 .. k : k >= y
      OBVIOUS
    <3> QED BY <3>1, <3>2 DEF Max
  <2>3. (1 .. k) \ {k} = 1 .. k - 1
    BY <2>1
  <2>4. f[1 .. k] = RowsAfter(f[1 .. k - 1], path[k])
    BY <1>6, <2>1, <2>2, <2>3
  <2> QED BY <2>1, <2>4
<1> HIDE DEF IsFold
<1>9. e[n] = FoldLeft(RowsAfter, {}, path)
  BY <1>1, <1>6
<1> HIDE DEF e
<1> QED BY <1>7, <1>8, <1>9

(* Rows stem from scans, which are operators of the plan.                  *)
RowsOK(table) == \A o \in Operators : table[o] \subseteq SUBSET Operators

(* Rows that a pipeline moves stem from scans of the plan.                 *)
LEMMA RowsTyped ==
  ASSUME NEW path, IsSeq(path), RowsOK(written), RowsOK(built),
         \A k \in 1 .. Len(path) : path[k].op \in Operators
  PROVE  FoldLeft(RowsAfter, {}, path) \subseteq SUBSET Operators
<1> DEFINE All == SUBSET Operators
           n == Len(path)
<1>1. n \in Nat
  BY SeqElements
<1>2. PICK e : /\ e[0] = {}
               /\ \A k \in 1 .. n : e[k] = RowsAfter(e[k - 1], path[k])
               /\ FoldLeft(RowsAfter, {}, path) = e[n]
  BY RowsMoved
<1>3. ASSUME NEW rows, rows \subseteq All, NEW s, s.op \in Operators
      PROVE  RowsAfter(rows, s) \subseteq All
  <2> DEFINE matches == {row \cup match : row \in rows, match \in built[s.op]}
  <2>1. {{s.op}} \subseteq All
    BY <1>3
  <2>2. Readable(s) \subseteq All
    BY <1>3 DEF RowsOK, Readable
  <2>3. matches \subseteq All
    BY <1>3 DEF RowsOK
  <2> HIDE DEF All, matches
  <2>4. RowsAfter(rows, s) \in {{{s.op}}, Readable(s), matches, rows}
    BY DEF RowsAfter, matches
  <2> QED BY <1>3, <2>1, <2>2, <2>3, <2>4
<1> DEFINE A == {k \in Nat : k <= n => e[k] \subseteq All}
<1>4. 0 \in A
  BY <1>2
<1>5. ASSUME NEW k \in A PROVE k + 1 \in A
  <2>1. CASE k + 1 <= n
    <3>1. e[k] \subseteq All /\ k + 1 \in 1 .. n /\ (k + 1) - 1 = k
      BY <1>1, <2>1
    <3>2. e[k + 1] = RowsAfter(e[k], path[k + 1])
      BY <1>2, <3>1
    <3> QED BY <1>3, <3>1, <3>2
  <2>2. CASE ~(k + 1 <= n)
    BY <2>2
  <2> QED BY <2>1, <2>2
<1>6. n \in A
  <2> HIDE DEF A
  <2>1. Nat \subseteq A
    BY <1>4, <1>5, NaturalInduction
  <2> QED BY <1>1, <2>1
<1> QED BY <1>2, <1>6

-----------------------------------------------------------------------------
(* The inductive invariant. The parts that are not the pipelines': tasks   *)
(* are noted in the order of the pipelines they follow, and those that have*)
(* not run follow the pipeline that runs, or a later one.                  *)

TasksOK ==
  /\ IsSeq(runtimeTasks)
  /\ \A k \in 1 .. Len(runtimeTasks) :
       /\ runtimeTasks[k].op \in Operators /\ runtimeTasks[k].after \in 0 .. Len(pipelines) - 1
       /\ \A j \in 1 .. k : runtimeTasks[j].after <= runtimeTasks[k].after
DecayInv ==
  /\ PlanInv /\ decayed \in 0 .. Len(calls)
  /\ StageOK(pipelines, continuations, decayed) /\ TasksOK
RunInv ==
  /\ phase \in {"decay", "run", "tasks", "done"}
  /\ phase = "decay" => pipeIdx = 0 /\ nextTask = 1
  /\ phase # "decay" => decayed = Len(calls)
  /\ phase \in {"run", "tasks"} => pipeIdx \in 0 .. Len(pipelines) - 1
  /\ phase = "done" => pipeIdx = Len(pipelines) /\ nextTask = Len(runtimeTasks) + 1
  /\ nextTask \in 1 .. Len(runtimeTasks) + 1
  /\ phase # "decay" =>
       \A k \in nextTask .. Len(runtimeTasks) : runtimeTasks[k].after >= pipeIdx
RowsInv ==
  /\ written = [o \in Operators |-> written[o]] /\ RowsOK(written)
  /\ built = [o \in Operators |-> built[o]] /\ RowsOK(built)
  /\ printed \subseteq SUBSET Operators
DagInv == DecayInv /\ RunInv /\ RowsInv

(* The invariant holds before the first call of decay.                     *)
LEMMA InitInv == Init => DagInv
<1> SUFFICES ASSUME Init PROVE DagInv
  OBVIOUS
<1>1. PlanInv
  BY InitPlan DEF Init
<1>2. Len(calls) \in Nat
  BY <1>1, SeqElements DEF PlanInv
<1>3. /\ pipelines = << >> /\ continuations = << >> /\ runtimeTasks = << >>
      /\ decayed = 0 /\ phase = "decay" /\ pipeIdx = 0 /\ nextTask = 1
  BY DEF Init
<1>4. DecayInv
  <2>1. IsSeq(<< >>) /\ Len(<< >>) = 0
    BY SeqNone
  <2>2. StageOK(pipelines, continuations, decayed)
    BY <1>3, <2>1 DEF StageOK, DagOK, BuildsOK, PipesOK, StemsOK, OrderOK, SharedOK,
                      ContinuationsOK, NoneUnmatched
  <2>3. TasksOK
    BY <1>3, <2>1 DEF TasksOK
  <2> QED BY <1>1, <1>2, <1>3, <2>2, <2>3 DEF DecayInv
<1>5. RunInv
  BY <1>3 DEF RunInv
<1>6. RowsInv
  BY DEF Init, RowsInv, RowsOK
<1> QED BY <1>4, <1>5, <1>6 DEF DagInv

(* A query keeps its plan.                                                 *)
LEMMA PlanKept ==
  ASSUME PlanInv, plan' = plan, threads' = threads
  PROVE  PlanInv'
<1>1. calls' = calls
  BY DEF calls
<1>2. /\ plan.outs = << >> /\ threads \in Nat \ {0}
      /\ IsSeq(calls) /\ Len(calls) > 0 /\ calls[1].call = "TableScan"
  BY DEF PlanInv
<1>3. ASSUME NEW i \in 1 .. Len(calls)
      PROVE  /\ ListsOK(calls'[i])
             /\ \A j \in 1 .. i - 1 :
                  calls'[j].op = calls'[i].op =>
                    calls'[j].call = "JoinBuild" /\ calls'[i].call = "JoinProbe"
             /\ calls'[i].call = "JoinProbe" =>
                  \E k \in 1 .. i - 1 :
                    BeginsPipeline(calls'[k]) /\ \A j \in k .. i - 1 : calls'[j].op # calls'[i].op
  BY <1>1 DEF PlanInv
<1>4. (plan.outs = << >>)' /\ (threads \in Nat \ {0})'
  BY <1>2
<1>5. (IsSeq(calls) /\ Len(calls) > 0 /\ calls[1].call = "TableScan")'
  BY <1>1, <1>2
<1>6. Len(calls') = Len(calls)
  BY <1>1
<1>7. ASSUME NEW i \in 1 .. Len(calls')
      PROVE  (/\ ListsOK(calls[i])
              /\ \A j \in 1 .. i - 1 :
                   calls[j].op = calls[i].op =>
                     calls[j].call = "JoinBuild" /\ calls[i].call = "JoinProbe"
              /\ calls[i].call = "JoinProbe" =>
                   \E k \in 1 .. i - 1 :
                     BeginsPipeline(calls[k]) /\ \A j \in k .. i - 1 : calls[j].op # calls[i].op)'
  BY <1>3, <1>6
<1> QED BY <1>4, <1>5, <1>7 DEF PlanInv

(* A call of decay keeps the invariant if its pipelines do, and the task it*)
(* notes, if any, follows the pipeline that was the last.                  *)
LEMMA CallDecayed ==
  ASSUME DagInv, NEW call, Decaying(call),
         StageOK(pipelines', continuations', decayed + 1), Len(pipelines') >= Len(pipelines),
         \/ UNCHANGED runtimeTasks
         \/ Len(pipelines) > 0 /\ \E does : runtimeTasks' = AddRuntimeTask(NextCall.op, does)
  PROVE  DagInv'
<1>1. /\ PlanInv /\ decayed \in 0 .. Len(calls) /\ TasksOK
      /\ StageOK(pipelines, continuations, decayed)
  BY DEF DagInv, DecayInv
<1>2. /\ calls' = calls /\ Operators' = Operators /\ plan' = plan /\ threads' = threads
      /\ decayed' = decayed + 1 /\ decayed < Len(calls) /\ phase = "decay"
      /\ UNCHANGED <<phase, pipeIdx, nextTask, written, built, printed>>
  BY DEF Decaying, calls, Operators, runVars
<1>3. Len(calls) \in Nat /\ Len(pipelines) \in Nat /\ Len(pipelines') \in Nat
  <2>1. PipesOK(pipelines) /\ PipesOK(pipelines')
    BY <1>1 DEF StageOK, DagOK
  <2> QED BY <1>1, <2>1, SeqElements, PipeAt DEF PlanInv
<1>4. PlanInv'
  BY <1>1, <1>2, PlanKept
<1>5. StageOK(pipelines, continuations, decayed)'
  BY <1>2 DEF StageOK, DagOK, BuildsOK, PipesOK, StemsOK, OrderOK, SharedOK, ContinuationsOK,
              ContinuationOK, NoneUnmatched
<1>6. /\ TasksOK' /\ Len(runtimeTasks') \in Nat
  <2>1. /\ IsSeq(runtimeTasks) /\ Len(runtimeTasks) \in Nat
        /\ \A k \in 1 .. Len(runtimeTasks) :
             /\ runtimeTasks[k].op \in Operators
             /\ runtimeTasks[k].after \in 0 .. Len(pipelines) - 1
             /\ \A j \in 1 .. k : runtimeTasks[j].after <= runtimeTasks[k].after
    BY <1>1, SeqElements DEF TasksOK
  <2>2. CASE UNCHANGED runtimeTasks
    <3>1. \A k \in 1 .. Len(runtimeTasks) : runtimeTasks[k].after \in 0 .. Len(pipelines') - 1
      BY <1>3, <2>1
    <3> QED BY <1>2, <2>1, <2>2, <3>1 DEF TasksOK
  <2>3. ASSUME Len(pipelines) > 0,
               NEW does, runtimeTasks' = AddRuntimeTask(NextCall.op, does)
        PROVE  TasksOK' /\ Len(runtimeTasks') \in Nat
    <3> DEFINE task == [op |-> NextCall.op, does |-> does, after |-> Len(pipelines) - 1]
               n == Len(runtimeTasks)
               to == runtimeTasks'
    <3>1. to = Append(runtimeTasks, task)
      BY <2>3 DEF AddRuntimeTask
    <3>2. task.op \in Operators /\ task.after = Len(pipelines) - 1
      <4>1. DOMAIN calls = 1 .. Len(calls) /\ decayed + 1 \in 1 .. Len(calls)
        BY <1>1, <1>2, <1>3, SeqElements DEF PlanInv
      <4> QED BY <4>1 DEF Operators, NextCall
    <3> HIDE DEF task
    <3>3. /\ IsSeq(to) /\ Len(to) = n + 1 /\ to[n + 1] = task
          /\ \A k \in 1 .. n : to[k] = runtimeTasks[k]
      BY <2>1, <3>1, SeqAppended
    <3> HIDE DEF to, n
    <3>4. n \in Nat /\ n = Len(runtimeTasks)
      BY <2>1 DEF n
    <3>5. \A k \in 1 .. n + 1 :
            /\ to[k].op \in Operators
            /\ to[k].after \in 0 .. Len(pipelines) - 1
            /\ \A j \in 1 .. k : to[j].after <= to[k].after
      <4>1. ASSUME NEW k \in 1 .. n
            PROVE  /\ to[k].op \in Operators
                   /\ to[k].after \in 0 .. Len(pipelines) - 1
                   /\ \A j \in 1 .. k : to[j].after <= to[k].after
        <5>1. \A j \in 1 .. k : j \in 1 .. n
          BY <3>4
        <5> QED BY <2>1, <3>3, <3>4, <5>1
      <4>2. /\ to[n + 1].op \in Operators
            /\ to[n + 1].after \in 0 .. Len(pipelines) - 1
            /\ \A j \in 1 .. n + 1 : to[j].after <= to[n + 1].after
        <5>1. \A j \in 1 .. n + 1 : j \in 1 .. n \/ j = n + 1
          BY <3>4
        <5>2. \A j \in 1 .. n : to[j].after \in 0 .. Len(pipelines) - 1
          BY <4>1
        <5> QED BY <1>3, <2>3, <3>2, <3>3, <5>1, <5>2
      <4>3. \A k \in 1 .. n + 1 : k \in 1 .. n \/ k = n + 1
        BY <3>4
      <4> HIDE DEF task
      <4> QED BY <4>1, <4>2, <4>3
    <3>6. \A k \in 1 .. n + 1 : to[k].after \in 0 .. Len(pipelines') - 1
      BY <1>3, <3>5
    <3>7. Len(to) = n + 1 /\ IsSeq(to)
      BY <3>3
    <3> QED BY <1>2, <3>4, <3>5, <3>6, <3>7 DEF TasksOK, to
  <2> QED BY <2>2, <2>3
<1>7. RunInv'
  BY <1>2, <1>6 DEF DagInv, RunInv
<1>8. RowsInv'
  BY <1>2 DEF DagInv, RowsInv, RowsOK
<1>9. DecayInv'
  BY <1>1, <1>2, <1>3, <1>4, <1>5, <1>6 DEF DecayInv
<1> QED BY <1>7, <1>8, <1>9 DEF DagInv

(* What a call of decay finds.                                             *)
LEMMA DecayFacts ==
  ASSUME DagInv, NEW call, Decaying(call)
  PROVE  /\ PlanInv /\ decayed \in Nat /\ decayed + 1 <= Len(calls)
         /\ StageOK(pipelines, continuations, decayed)
         /\ NextCall = calls[decayed + 1] /\ NextCall.call = call /\ ListsOK(NextCall)
         /\ Len(pipelines) \in Nat
<1>1. PlanInv /\ decayed \in 0 .. Len(calls) /\ StageOK(pipelines, continuations, decayed)
  BY DEF DagInv, DecayInv
<1>2. decayed < Len(calls) /\ NextCall.call = call /\ NextCall = calls[decayed + 1]
  BY DEF Decaying, NextCall
<1>3. Len(calls) \in Nat
  BY <1>1, SeqElements DEF PlanInv
<1>4. decayed \in Nat /\ decayed + 1 <= Len(calls) /\ decayed + 1 \in 1 .. Len(calls)
  BY <1>1, <1>2, <1>3
<1>5. ListsOK(NextCall)
  BY <1>1, <1>2, <1>4 DEF PlanInv
<1>6. Len(pipelines) \in Nat
  BY <1>1, PipeAt DEF StageOK, DagOK
<1> QED BY <1>1, <1>2, <1>4, <1>5, <1>6

(* Suboperators that do not read a table which they, too, fill.            *)
LEMMA CallAttached ==
  ASSUME DagInv, NEW call, Decaying(call), NEW subops, NEW sorts, NEW part,
         MadeBy(subops, NextCall.op, sorts, part),
         \/ call = "ExpressionOp" /\ sorts = {"RuntimeExpression", "Expression"}
         \/ call = "Filter" /\ sorts = {"ColumnFilterScope", "ColumnFilterLogic"}
         \/ /\ call = "JoinBuild" /\ sorts = {"materialize_tuple", "KeyPacker"}
            /\ part = "lookup_left"
         \/ /\ call = "JoinProbe" /\ part = "scratch_pad_right"
            /\ sorts \subseteq {"ScratchPad", "KeyPacker", "hash_and_prefetch",
                                "lookup_with_hash", "ColumnFilterScope",
                                "ColumnFilterLogic", "KeyUnpacker"}
         \/ call = "Print" /\ sorts = {"FuseChunkSink"},
         pipelines' = Attach(pipelines, subops), UNCHANGED continuations,
         \/ UNCHANGED runtimeTasks
         \/ \E does : runtimeTasks' = AddRuntimeTask(NextCall.op, does)
  PROVE  DagInv'
<1> DEFINE d == decayed
           c == calls[d + 1]
           pipes == pipelines
           cs == continuations
<1>1. /\ PlanInv /\ d \in Nat /\ d + 1 <= Len(calls) /\ StageOK(pipes, cs, d)
      /\ NextCall = c /\ c.call = call /\ Len(pipes) \in Nat
  BY DecayFacts
<1>2. /\ c.call # "TableScan" => Len(pipes) > 0
      /\ StageOK(Attach(pipes, subops), cs, d + 1)
      /\ Len(Attach(pipes, subops)) = Len(pipes)
  <2> HIDE DEF c, d, pipes, cs
  <2>1. MadeBy(subops, c.op, sorts, part)
    BY <1>1
  <2>2. \/ c.call = "ExpressionOp" /\ sorts = {"RuntimeExpression", "Expression"}
        \/ c.call = "Filter" /\ sorts = {"ColumnFilterScope", "ColumnFilterLogic"}
        \/ /\ c.call = "JoinBuild" /\ sorts = {"materialize_tuple", "KeyPacker"}
           /\ part = "lookup_left"
        \/ /\ c.call = "JoinProbe" /\ part = "scratch_pad_right"
           /\ sorts \subseteq {"ScratchPad", "KeyPacker", "hash_and_prefetch",
                               "lookup_with_hash", "ColumnFilterScope",
                               "ColumnFilterLogic", "KeyUnpacker"}
        \/ c.call = "Print" /\ sorts = {"FuseChunkSink"}
    BY <1>1
  <2> USE DEF c
  <2> QED BY ONLY <1>1, <2>1, <2>2, CurrentStage, Zenon DEF c
<1>3. Len(pipelines) > 0
  BY <1>1, <1>2
<1>4. StageOK(pipelines', continuations', decayed + 1) /\ Len(pipelines') >= Len(pipelines)
  <2> HIDE DEF c
  <2>1. pipelines' = Attach(pipes, subops) /\ continuations' = cs
    OBVIOUS
  <2> QED BY <1>1, <1>2, <2>1
<1> QED BY <1>3, <1>4, CallDecayed

(* Every call of decay keeps the invariant.                                *)
LEMMA CallsDecayed ==
  ASSUME DagInv, Decay
  PROVE  DagInv'
<1>1. CASE DecayTableScan
  <2>1. Decaying("TableScan")
    BY <1>1 DEF DecayTableScan
  <2>2. /\ PlanInv /\ decayed \in Nat /\ decayed + 1 <= Len(calls)
        /\ StageOK(pipelines, continuations, decayed) /\ Len(pipelines) \in Nat
        /\ NextCall = calls[decayed + 1] /\ NextCall.call = "TableScan"
    BY <2>1, DecayFacts
  <2>3. /\ pipelines' = Attach(BuildNewPipeline(pipelines), ScanSubops(calls[decayed + 1]))
        /\ continuations' = << >> /\ UNCHANGED runtimeTasks
    BY <1>1, <2>2 DEF DecayTableScan
  <2>4. StageOK(pipelines', continuations', decayed + 1) /\ Len(pipelines') > Len(pipelines)
    BY <2>2, <2>3, ScanStage
  <2>5. Len(pipelines') \in Nat
    BY <2>4, PipeAt DEF StageOK, DagOK
  <2> QED BY <2>1, <2>2, <2>3, <2>4, <2>5, CallDecayed
<1>2. CASE DecayExpressionOp
  <2>1. Decaying("ExpressionOp") /\ AttachToCurrent(ExpressionSubops(NextCall))
    BY <1>2 DEF DecayExpressionOp
  <2>2. MadeBy(ExpressionSubops(NextCall), NextCall.op, {"RuntimeExpression", "Expression"}, "none")
    <3>1. ListsOK(NextCall) /\ NextCall.call = "ExpressionOp"
      BY <2>1, DecayFacts
    <3>2. IsSeq(NextCall.nodes)
      BY <3>1 DEF ListsOK
    <3> QED BY <3>2, ExpressionMade
  <2> QED BY <2>1, <2>2, CallAttached DEF AttachToCurrent
<1>3. CASE DecayFilter
  <2> DEFINE c == NextCall
             subops == FilterSubops(c.op, "bool", c.cond, FilterPseudo(c.op), c.old, c.new)
  <2>1. Decaying("Filter") /\ AttachToCurrent(subops)
    BY <1>3 DEF DecayFilter
  <2>2. MadeBy(subops, NextCall.op, {"ColumnFilterScope", "ColumnFilterLogic"}, "none")
    <3>1. ListsOK(NextCall) /\ NextCall.call = "Filter"
      BY <2>1, DecayFacts
    <3>2. IsSeq(NextCall.old)
      BY <3>1 DEF ListsOK
    <3> QED BY <3>2, FilterMade
  <2> HIDE DEF subops
  <2> QED BY <2>1, <2>2, CallAttached DEF AttachToCurrent
<1>4. CASE DecayBuildSide
  <2>1. /\ Decaying("JoinBuild") /\ pipelines' = Attach(pipelines, BuildSubops(NextCall))
        /\ UNCHANGED continuations /\ runtimeTasks' = AddRuntimeTask(NextCall.op, "build")
    BY <1>4 DEF DecayBuildSide
  <2>2. MadeBy(BuildSubops(NextCall), NextCall.op, {"materialize_tuple", "KeyPacker"},
               "lookup_left")
    BY <2>1, DecayFacts, BuildMade DEF ListsOK
  <2> QED BY <2>1, <2>2, CallAttached
<1>5. CASE DecayProbeSide
  <2> DEFINE subops == LookupSubops(NextCall) \o MatchSubops(NextCall)
             sorts == {"ScratchPad", "KeyPacker", "hash_and_prefetch", "lookup_with_hash",
                       "ColumnFilterScope", "ColumnFilterLogic", "KeyUnpacker"}
  <2>1. Decaying("JoinProbe") /\ AttachToCurrent(subops)
    BY <1>5 DEF DecayProbeSide
  <2>2. ListsOK(NextCall) /\ NextCall.call = "JoinProbe"
    BY <2>1, DecayFacts
  <2>3. MadeBy(LookupSubops(NextCall), NextCall.op, sorts, "scratch_pad_right")
    BY <2>2, LookupMade DEF ListsOK, MadeBy
  <2>4. MadeBy(MatchSubops(NextCall), NextCall.op, sorts, "scratch_pad_right")
    <3>1. MadeBy(MatchSubops(NextCall), NextCall.op,
                 {"ColumnFilterScope", "ColumnFilterLogic", "KeyUnpacker"}, "scratch_pad_right")
      BY <2>2, MatchMade DEF ListsOK
    <3> QED BY <3>1 DEF MadeBy
  <2>5. MadeBy(subops, NextCall.op, sorts, "scratch_pad_right")
    BY <2>3, <2>4, MadeConcat
  <2>6. sorts \subseteq {"ScratchPad", "KeyPacker", "hash_and_prefetch", "lookup_with_hash",
                         "ColumnFilterScope", "ColumnFilterLogic", "KeyUnpacker"}
    OBVIOUS
  <2> HIDE DEF subops, sorts
  <2> QED BY <2>1, <2>5, <2>6, CallAttached DEF AttachToCurrent
<1>6. CASE DecayOuterProbeSide
  <2> DEFINE c == calls[decayed + 1]
             upToLookup == Attach(pipelines, LookupSubops(c))
             at == Len(Last(upToLookup).subops)
  <2>1. Decaying("JoinProbe")
    BY <1>6 DEF DecayOuterProbeSide
  <2>2. /\ PlanInv /\ decayed \in Nat /\ decayed + 1 <= Len(calls)
        /\ StageOK(pipelines, continuations, decayed) /\ Len(pipelines) \in Nat
        /\ NextCall = c /\ c.call = "JoinProbe"
    BY <2>1, DecayFacts
  <2>3. /\ pipelines' = Attach(StopParallelCodegen(upToLookup), MatchSubops(c))
        /\ continuations' = AttachContinuation(at, UnmatchedSource(c))
        /\ UNCHANGED runtimeTasks
    BY <1>6, <2>2, Zenon DEF DecayOuterProbeSide
  <2>4. StageOK(pipelines', continuations', decayed + 1) /\ Len(pipelines') = Len(pipelines)
    BY <2>2, <2>3, OuterStage
  <2>5. Len(pipelines') >= Len(pipelines)
    BY <2>2, <2>4
  <2> QED BY <2>1, <2>3, <2>4, <2>5, CallDecayed
<1>7. CASE DecayAggregation
  <2> DEFINE c == calls[decayed + 1]
             aggregating == Attach(pipelines, AggregateSubops(c))
  <2>1. Decaying("Aggregation")
    BY <1>7 DEF DecayAggregation
  <2>2. /\ PlanInv /\ decayed \in Nat /\ decayed + 1 <= Len(calls)
        /\ StageOK(pipelines, continuations, decayed) /\ Len(pipelines) \in Nat
        /\ NextCall = c /\ c.call = "Aggregation"
    BY <2>1, DecayFacts
  <2>3. /\ pipelines' = Attach(BuildNewPipeline(aggregating), ReadGroupsSubops(c))
        /\ continuations' = << >> /\ runtimeTasks' = AddRuntimeTask(NextCall.op, "merge")
    BY <1>7, <2>2, Zenon DEF DecayAggregation
  <2>4. /\ StageOK(pipelines', continuations', decayed + 1)
        /\ Len(pipelines') > Len(pipelines) /\ Len(pipelines) > 0
    BY <2>2, <2>3, AggregationStage
  <2>5. Len(pipelines') \in Nat
    BY <2>4, PipeAt DEF StageOK, DagOK
  <2> QED BY <2>1, <2>2, <2>3, <2>4, <2>5, CallDecayed
<1>8. CASE DecayPrint
  <2>1. Decaying("Print") /\ AttachToCurrent(PrintSubops(NextCall))
    BY <1>8 DEF DecayPrint
  <2>2. MadeBy(PrintSubops(NextCall), NextCall.op, {"FuseChunkSink"}, "none")
    <3>1. ListsOK(NextCall) /\ NextCall.call = "Print"
      BY <2>1, DecayFacts
    <3>2. IsSeq(NextCall.ius)
      BY <3>1 DEF ListsOK
    <3> QED BY <3>2, PrintMade
  <2> QED BY <2>1, <2>2, CallAttached DEF AttachToCurrent
<1> QED BY <1>1, <1>2, <1>3, <1>4, <1>5, <1>6, <1>7, <1>8 DEF Decay

(* What decay made stays as it is when the query runs.                     *)
LEMMA DecayInvKept ==
  ASSUME DecayInv, UNCHANGED <<plan, threads, decayed, pipelines, continuations, runtimeTasks>>
  PROVE  DecayInv'
<1>1. PlanInv'
  BY PlanKept DEF DecayInv
<1>2. calls' = calls /\ Operators' = Operators
  BY DEF calls, Operators
<1>3. StageOK(pipelines, continuations, decayed)'
  BY <1>2 DEF DecayInv, StageOK, DagOK, BuildsOK, PipesOK, StemsOK, OrderOK, SharedOK,
              ContinuationsOK, ContinuationOK, NoneUnmatched
<1>4. (decayed \in 0 .. Len(calls))'
  BY <1>2 DEF DecayInv
<1>5. TasksOK'
  BY <1>2 DEF DecayInv, TasksOK
<1> QED BY <1>1, <1>3, <1>4, <1>5 DEF DecayInv

(* Steps that move no rows.                                                *)
LEMMA RowsInvKept ==
  ASSUME RowsInv, UNCHANGED <<plan, written, built, printed>>
  PROVE  RowsInv'
<1>1. Operators' = Operators
  BY DEF Operators, calls
<1> QED BY <1>1 DEF RowsInv, RowsOK

-----------------------------------------------------------------------------
(* The steps of a run.                                                     *)

(* The run begins with the first pipeline, and no task has run.            *)
LEMMA RunStarts == DagInv /\ PrepareQuery => DagInv'
<1> SUFFICES ASSUME DagInv, PrepareQuery PROVE DagInv'
  OBVIOUS
<1>1. /\ phase = "decay" /\ decayed = Len(calls) /\ phase' = "run"
      /\ UNCHANGED <<plan, threads, decayed, pipelines, continuations, runtimeTasks,
                     pipeIdx, nextTask, written, built, printed>>
  BY DEF PrepareQuery, Decayed, dagVars, runVars
<1>2. DecayInv' /\ calls' = calls
  BY <1>1, DecayInvKept DEF DagInv, calls
<1>3. pipeIdx = 0 /\ nextTask = 1 /\ nextTask \in 1 .. Len(runtimeTasks) + 1
  BY <1>1 DEF DagInv, RunInv
<1>4. Len(pipelines) \in Nat /\ Len(pipelines) > 0
  <2>1. PlanInv /\ StageOK(pipelines, continuations, decayed)
    BY DEF DagInv, DecayInv
  <2>2. decayed > 0
    BY <1>1, <2>1 DEF PlanInv
  <2> QED BY <2>1, <2>2, PipeAt DEF StageOK, DagOK
<1>5. \A k \in 1 .. Len(runtimeTasks) : runtimeTasks[k].after >= 0
  BY <1>4 DEF DagInv, DecayInv, TasksOK
<1>6. RunInv'
  BY <1>1, <1>2, <1>3, <1>4, <1>5 DEF RunInv
<1>7. RowsInv'
  BY <1>1, RowsInvKept DEF DagInv
<1> QED BY <1>2, <1>6, <1>7 DEF DagInv

(* A thread that runs a pipeline moves rows of the plan's scans.           *)
LEMMA RowsReached ==
  ASSUME DagInv, pipeIdx \in 0 .. Len(pipelines) - 1, NEW sorts, NEW o
  PROVE  RowsAt(sorts, o) \subseteq SUBSET Operators
<1>1. PlanInv /\ StageOK(pipelines, continuations, decayed) /\ decayed \in 0 .. Len(calls)
  BY DEF DagInv, DecayInv
<1>2. PipesOK(pipelines) /\ StemsOK(pipelines, decayed)
  BY <1>1 DEF StageOK, DagOK
<1>3. Len(pipelines) \in Nat /\ pipeIdx + 1 \in 1 .. Len(pipelines)
  BY <1>2, PipeAt
<1> DEFINE cur == Current
           n == Len(cur)
<1>4. cur = pipelines[pipeIdx + 1].subops /\ IsSeq(cur)
  BY <1>2, <1>3, PipeAt DEF Current
<1>5. n \in Nat /\ DOMAIN cur = 1 .. n
  BY <1>4, SeqElements
<1>6. ASSUME NEW k \in 1 .. n PROVE cur[k].op \in Operators
  <2>1. cur[k] \in ToSet(pipelines[pipeIdx + 1].subops)
    BY <1>4, SeqElements
  <2>2. PICK i \in 1 .. decayed : Stems(cur[k], calls[i])
    BY <1>2, <1>3, <2>1 DEF StemsOK
  <2>3. DOMAIN calls = 1 .. Len(calls) /\ Len(calls) \in Nat
    BY <1>1, SeqElements DEF PlanInv
  <2>4. i \in DOMAIN calls
    BY <1>1, <2>3
  <2>5. cur[k].op = calls[i].op
    BY <2>2 DEF Stems
  <2> QED BY <2>4, <2>5 DEF Operators
<1>7. ASSUME NEW i \in 1 .. n PROVE RowsReaching(i) \subseteq SUBSET Operators
  <2> DEFINE path == SubSeq(cur, 1, i - 1)
  <2>1. IsSeq(path) /\ \A k \in 1 .. Len(path) : path[k].op \in Operators
    <3> DEFINE S == ToSet(cur)
    <3>1. cur \in Seq(S)
      BY <1>4 DEF IsSeq
    <3>2. /\ DOMAIN path = 1 .. i - 1 /\ \A k \in 1 .. i - 1 : path[k] = cur[k]
          /\ path = [k \in 1 .. i - 1 |-> path[k]]
      <4> HIDE DEF cur, S
      <4> QED BY <1>5, <3>1
    <3>3. IsSeq(path) /\ Len(path) = i - 1
      <4> HIDE DEF path
      <4>1. i - 1 \in Nat
        BY <1>5
      <4> QED BY <3>2, <4>1, SeqMade
    <3> HIDE DEF cur, path
    <3> QED BY <1>5, <1>6, <3>2, <3>3
  <2>2. RowsOK(written) /\ RowsOK(built)
    BY DEF DagInv, RowsInv
  <2>3. FoldLeft(RowsAfter, {}, path) \subseteq SUBSET Operators
    <3> HIDE DEF path
    <3> QED BY <2>1, <2>2, RowsTyped
  <2> QED BY <2>3 DEF RowsReaching
<1> HIDE DEF n
<1> QED BY <1>5, <1>7 DEF RowsAt

(* Running a pipeline moves rows to tables and to the printer.             *)
LEMMA PipelineRan == DagInv /\ RunPipeline => DagInv'
<1> SUFFICES ASSUME DagInv, RunPipeline PROVE DagInv'
  OBVIOUS
<1> DEFINE reached(o) == RowsAt({"materialize_tuple", "lookup_or_insert"}, o)
           shown(o) == RowsAt({"FuseChunkSink"}, o)
<1>1. /\ phase = "run" /\ phase' = "tasks"
      /\ UNCHANGED <<plan, threads, decayed, pipelines, continuations, runtimeTasks,
                     pipeIdx, nextTask, built>>
      /\ written' = [o \in Operators |-> written[o] \cup reached(o)]
      /\ printed' = printed \cup UNION {shown(o) : o \in Operators}
  BY DEF RunPipeline, dagVars
<1>2. DecayInv' /\ calls' = calls
  BY <1>1, DecayInvKept DEF DagInv, calls
<1>3. RunInv'
  BY <1>1, <1>2 DEF DagInv, RunInv
<1>4. \A o : reached(o) \subseteq SUBSET Operators /\ shown(o) \subseteq SUBSET Operators
  <2>1. pipeIdx \in 0 .. Len(pipelines) - 1
    BY <1>1 DEF DagInv, RunInv
  <2> QED BY <2>1, RowsReached
<1> HIDE DEF reached, shown
<1>5. /\ written = [o \in Operators |-> written[o]] /\ RowsOK(written)
      /\ built = [o \in Operators |-> built[o]] /\ RowsOK(built)
      /\ printed \subseteq SUBSET Operators
  BY DEF DagInv, RowsInv
<1>6. Operators' = Operators
  BY <1>1 DEF Operators, calls
<1>7. \A o \in Operators : written'[o] = written[o] \cup reached(o)
  BY <1>1
<1>8. \A o \in Operators : written'[o] \subseteq SUBSET Operators
  BY <1>4, <1>5, <1>7 DEF RowsOK
<1>9. written' = [o \in Operators |-> written'[o]]
  BY <1>1
<1>10. printed' \subseteq SUBSET Operators
  BY <1>1, <1>4, <1>5
<1>11. RowsInv'
  BY <1>1, <1>5, <1>6, <1>8, <1>9, <1>10 DEF RowsInv, RowsOK
<1> QED BY <1>2, <1>3, <1>11 DEF DagInv

(* A task runs; those after it are not due before it was.                  *)
LEMMA TaskRan == DagInv /\ RunRuntimeTask => DagInv'
<1> SUFFICES ASSUME DagInv, RunRuntimeTask PROVE DagInv'
  OBVIOUS
<1> DEFINE task == runtimeTasks[nextTask]
           more == [built EXCEPT ![task.op] = written[task.op]]
<1>1. /\ phase = "tasks" /\ nextTask \in DOMAIN runtimeTasks /\ nextTask' = nextTask + 1
      /\ UNCHANGED <<plan, threads, decayed, pipelines, continuations, runtimeTasks,
                     phase, pipeIdx, written, printed>>
      /\ built' = built \/ built' = more
  BY DEF RunRuntimeTask, Due, dagVars
<1>2. DecayInv' /\ calls' = calls
  BY <1>1, DecayInvKept DEF DagInv, calls
<1>3. DOMAIN runtimeTasks = 1 .. Len(runtimeTasks) /\ Len(runtimeTasks) \in Nat
  BY SeqElements DEF DagInv, DecayInv, TasksOK
<1>4. RunInv'
  <2>1. \A k \in nextTask + 1 .. Len(runtimeTasks) : k \in nextTask .. Len(runtimeTasks)
    BY <1>1, <1>3
  <2>2. nextTask + 1 \in 1 .. Len(runtimeTasks) + 1
    BY <1>1, <1>3
  <2> QED BY <1>1, <1>2, <2>1, <2>2 DEF DagInv, RunInv
<1>5. task.op \in Operators
  BY <1>1, <1>3 DEF DagInv, DecayInv, TasksOK
<1>6. /\ written = [o \in Operators |-> written[o]] /\ RowsOK(written)
      /\ built = [o \in Operators |-> built[o]] /\ RowsOK(built)
      /\ printed \subseteq SUBSET Operators
  BY DEF DagInv, RowsInv
<1>7. more = [o \in Operators |-> more[o]] /\ RowsOK(more)
  <2> HIDE DEF task
  <2> QED BY <1>5, <1>6 DEF RowsOK
<1>8. Operators' = Operators
  BY <1>1 DEF Operators, calls
<1> HIDE DEF more
<1>9. built' = [o \in Operators |-> built'[o]] /\ \A o \in Operators : built'[o] \subseteq SUBSET Operators
  BY <1>1, <1>6, <1>7 DEF RowsOK
<1>10. RowsInv'
  BY <1>1, <1>6, <1>8, <1>9 DEF RowsInv, RowsOK
<1> QED BY <1>2, <1>4, <1>10 DEF DagInv

(* No task is left for a pipeline when the next one begins.                *)
LEMMA PipelineFollows == DagInv /\ NextPipeline => DagInv'
<1> SUFFICES ASSUME DagInv, NextPipeline PROVE DagInv'
  OBVIOUS
<1>1. /\ phase = "tasks" /\ ~Due /\ pipeIdx' = pipeIdx + 1
      /\ phase' = IF pipeIdx + 1 = Len(pipelines) THEN "done" ELSE "run"
      /\ UNCHANGED <<plan, threads, decayed, pipelines, continuations, runtimeTasks,
                     nextTask, written, built, printed>>
  BY DEF NextPipeline, dagVars
<1>2. DecayInv' /\ calls' = calls
  BY <1>1, DecayInvKept DEF DagInv, calls
<1>3. /\ DOMAIN runtimeTasks = 1 .. Len(runtimeTasks) /\ Len(runtimeTasks) \in Nat
      /\ nextTask \in 1 .. Len(runtimeTasks) + 1 /\ pipeIdx \in 0 .. Len(pipelines) - 1
      /\ \A k \in 1 .. Len(runtimeTasks) :
           /\ runtimeTasks[k].after \in 0 .. Len(pipelines) - 1
           /\ \A j \in 1 .. k : runtimeTasks[j].after <= runtimeTasks[k].after
  BY <1>1, SeqElements DEF DagInv, DecayInv, RunInv, TasksOK
<1>4. Len(pipelines) \in Nat
  BY PipeAt DEF DagInv, DecayInv, StageOK, DagOK
<1>5. ASSUME NEW k \in nextTask .. Len(runtimeTasks) PROVE runtimeTasks[k].after >= pipeIdx + 1
  <2>1. /\ nextTask \in 1 .. Len(runtimeTasks) /\ k \in 1 .. Len(runtimeTasks)
        /\ nextTask \in 1 .. k
    BY <1>3
  <2>2. ~(runtimeTasks[nextTask].after <= pipeIdx)
    BY <1>1, <1>3, <2>1 DEF Due
  <2>3. runtimeTasks[nextTask].after <= runtimeTasks[k].after
    BY <1>3, <2>1
  <2>4. runtimeTasks[nextTask].after \in Nat /\ runtimeTasks[k].after \in Nat
    BY <1>3, <1>4, <2>1
  <2>5. pipeIdx \in Int
    BY <1>3, <1>4
  <2> QED BY <2>2, <2>3, <2>4, <2>5
<1>6. RunInv'
  <2>1. CASE pipeIdx + 1 = Len(pipelines)
    <3>1. phase' = "done"
      BY <1>1, <2>1
    <3>2. nextTask = Len(runtimeTasks) + 1
      <4>1. ASSUME nextTask # Len(runtimeTasks) + 1 PROVE FALSE
        <5>1. nextTask \in nextTask .. Len(runtimeTasks) /\ nextTask \in 1 .. Len(runtimeTasks)
          BY <1>3, <4>1
        <5>2. runtimeTasks[nextTask].after >= Len(pipelines)
          BY <1>5, <2>1, <5>1
        <5>3. runtimeTasks[nextTask].after <= Len(pipelines) - 1
          BY <1>3, <1>4, <5>1
        <5>4. runtimeTasks[nextTask].after \in Nat
          BY <1>3, <1>4, <5>1
        <5> QED BY <1>4, <5>2, <5>3, <5>4
      <4> QED BY <4>1
    <3> QED BY <1>1, <1>2, <1>3, <1>5, <2>1, <3>1, <3>2 DEF DagInv, RunInv
  <2>2. CASE pipeIdx + 1 # Len(pipelines)
    <3>1. phase' = "run" /\ pipeIdx + 1 \in 0 .. Len(pipelines) - 1
      BY <1>1, <1>3, <1>4, <2>2
    <3> QED BY <1>1, <1>2, <1>3, <1>5, <3>1 DEF DagInv, RunInv
  <2> QED BY <2>1, <2>2
<1>7. RowsInv'
  BY <1>1, RowsInvKept DEF DagInv
<1> QED BY <1>2, <1>6, <1>7 DEF DagInv

(* Every step keeps the invariant.                                         *)
LEMMA NextInv == DagInv /\ [Next]_vars => DagInv'
<1> SUFFICES ASSUME DagInv, [Next]_vars PROVE DagInv'
  OBVIOUS
<1>1. CASE Decay
  BY <1>1, CallsDecayed
<1>2. CASE PrepareQuery
  BY <1>2, RunStarts
<1>3. CASE RunPipeline
  BY <1>3, PipelineRan
<1>4. CASE RunRuntimeTask
  BY <1>4, TaskRan
<1>5. CASE NextPipeline
  BY <1>5, PipelineFollows
<1>6. CASE UNCHANGED vars
  <2>1. UNCHANGED <<plan, threads, decayed, pipelines, continuations, runtimeTasks,
                    phase, pipeIdx, nextTask, written, built, printed>>
    BY <1>6 DEF vars, dagVars, runVars
  <2>2. DecayInv'
    BY <2>1, DecayInvKept DEF DagInv
  <2>3. RowsInv'
    BY <2>1, RowsInvKept DEF DagInv
  <2>4. RunInv'
    <3>1. calls' = calls
      BY <2>1 DEF calls
    <3> QED BY <2>1, <3>1 DEF DagInv, RunInv
  <2> QED BY <2>2, <2>3, <2>4 DEF DagInv
<1> QED BY <1>1, <1>2, <1>3, <1>4, <1>5, <1>6 DEF Next

(* The invariant holds in every state, whatever the plan: for all          *)
(* pipelines that decay has built so far, and for the run.                 *)
THEOREM PipelinesCorrect == Spec => []DagInv
<1>1. Init => DagInv
  BY InitInv
<1>2. DagInv /\ [Next]_vars => DagInv'
  BY NextInv
<1> QED BY <1>1, <1>2, PTL DEF Spec

-----------------------------------------------------------------------------
(* What the invariant is for.                                              *)

(* Types, and that the positions kept in continuations (index) and         *)
(* runtime tasks (after) are those of suboperators and pipelines there     *)
(* are.                                                                    *)
THEOREM TypesCorrect == Spec => []TypeOK
<1>1. ASSUME DagInv PROVE TypeOK
  <2>1. /\ PlanInv /\ decayed \in 0 .. Len(calls) /\ DagOK(pipelines, continuations, decayed)
        /\ TasksOK /\ RunInv /\ RowsInv
    BY <1>1 DEF DagInv, DecayInv, StageOK
  <2>2. PipesOK(pipelines) /\ ContinuationsOK(pipelines, continuations, decayed)
    BY <2>1 DEF DagOK
  <2>3. /\ Len(pipelines) \in Nat /\ DOMAIN pipelines = 1 .. Len(pipelines)
        /\ \A p \in 1 .. Len(pipelines) :
             pipelines[p].parallel \in BOOLEAN /\ Len(pipelines[p].subops) \in Nat
    BY <2>2, PipeAt, SeqElements
  <2>4. ASSUME NEW i \in DOMAIN continuations
        PROVE  continuations[i].index \in 0 .. Len(Last(pipelines).subops)
    <3>1. Len(continuations) \in Nat /\ DOMAIN continuations = 1 .. Len(continuations)
      BY <2>2, SeqElements DEF ContinuationsOK
    <3>2. Len(pipelines) > 0 /\ Len(pipelines) \in 1 .. Len(pipelines)
      BY <2>2, <2>3, <3>1 DEF ContinuationsOK
    <3>3. continuations[i].index \in 1 .. Len(pipelines[Len(pipelines)].subops)
      BY <2>2, <3>1, Zenon DEF ContinuationsOK, ContinuationOK
    <3>4. Last(pipelines) = pipelines[Len(pipelines)]
      BY DEF Last
    <3>5. Len(pipelines[Len(pipelines)].subops) \in Nat
      BY <2>3, <3>2
    <3> QED BY <3>3, <3>4, <3>5
  <2>5. /\ DOMAIN runtimeTasks = 1 .. Len(runtimeTasks)
        /\ \A i \in 1 .. Len(runtimeTasks) : runtimeTasks[i].after \in 0 .. Len(pipelines) - 1
    BY <2>1, SeqElements DEF TasksOK
  <2>6. pipeIdx \in 0 .. Len(pipelines) /\ nextTask \in 1 .. Len(runtimeTasks) + 1
        /\ phase \in {"decay", "run", "tasks", "done"}
    BY <2>1, <2>3 DEF RunInv
  <2>7. \A rows \in {printed} \cup {written[o] : o \in Operators} \cup {built[o] : o \in Operators} :
          rows \subseteq SUBSET Operators
    BY <2>1 DEF RowsInv, RowsOK
  <2>8. plan.outs = << >> /\ threads \in Nat \ {0}
    BY <2>1 DEF PlanInv
  <2> QED BY <2>1, <2>3, <2>4, <2>5, <2>6, <2>7, <2>8 DEF TypeOK
<1> QED BY <1>1, PipelinesCorrect, PTL

(* Pipelines that share suboperators do not generate code in parallel:     *)
(* each of them is a pipeline that disallowParallelCodegen marked, or a    *)
(* continuation, that is made so (Pipeline.cpp).                           *)
THEOREM SharedNotParallelCorrect == Spec => []SharedNotParallel
<1>1. ASSUME DagInv PROVE SharedNotParallel
  <2>1. PipesOK(pipelines) /\ SharedOK(pipelines)
    BY <1>1 DEF DagInv, DecayInv, StageOK, DagOK
  <2>2. DOMAIN pipelines = 1 .. Len(pipelines)
    BY <2>1, PipeAt, SeqElements
  <2> QED BY <2>1, <2>2 DEF SharedOK, SharedNotParallel
<1> QED BY <1>1, PipelinesCorrect, PTL

(* Running pipelines in the order of the DAG never reads a table before    *)
(* it was filled, nor the rows without a match before all probes marked    *)
(* theirs (the comment of PipelineDAG, "in topological order").            *)
THEOREM TopologicalOrderCorrect == Spec => []TopologicalOrder
<1>1. ASSUME DagInv PROVE TopologicalOrder
  <2>1. PipesOK(pipelines) /\ OrderOK(pipelines)
    BY <1>1 DEF DagInv, DecayInv, StageOK, DagOK
  <2>2. DOMAIN pipelines = 1 .. Len(pipelines)
    BY <2>1, PipeAt, SeqElements
  <2>3. ASSUME NEW p \in DOMAIN pipelines, NEW q \in DOMAIN pipelines, NEW o,
               \/ /\ Has(p, {"lookup_with_hash", "HashTableSource", "AtomicHashTableSource"}, o)
                  /\ Has(q, {"materialize_tuple", "lookup_or_insert"}, o)
               \/ /\ Has(p, {"AtomicHashTableSource"}, o)
                  /\ Has(q, {"lookup_with_hash"}, o)
        PROVE  q < p
    <3>1. PICK s \in ToSet(pipelines[p].subops), t \in ToSet(pipelines[q].subops) :
            /\ s.op = t.op
            /\ \/ s.sort \in Readers /\ t.sort \in Fillers
               \/ s.sort = "AtomicHashTableSource" /\ t.sort = "lookup_with_hash"
      BY <2>3 DEF Has, Readers, Fillers
    <3> QED BY <2>1, <2>2, <3>1 DEF OrderOK
  <2> QED BY <2>3 DEF TopologicalOrder
<1> QED BY <1>1, PipelinesCorrect, PTL

(* The assertion of StepwiseExecutor::runQuery on runtime tasks holds: a   *)
(* task that is due was noted for the pipeline that just ran, and all      *)
(* tasks have run when the query ends.                                     *)
THEOREM TasksOnTimeCorrect == Spec => []TasksOnTime
<1>1. ASSUME DagInv PROVE TasksOnTime
  <2>1. TasksOK /\ RunInv
    BY <1>1 DEF DagInv, DecayInv
  <2>2. ASSUME phase = "tasks", Due PROVE runtimeTasks[nextTask].after = pipeIdx
    <3>1. /\ DOMAIN runtimeTasks = 1 .. Len(runtimeTasks) /\ Len(runtimeTasks) \in Nat
          /\ nextTask \in DOMAIN runtimeTasks /\ runtimeTasks[nextTask].after <= pipeIdx
      BY <2>1, <2>2, SeqElements DEF TasksOK, Due
    <3>2. nextTask \in nextTask .. Len(runtimeTasks)
      BY <3>1
    <3>3. runtimeTasks[nextTask].after >= pipeIdx
      BY <2>1, <2>2, <3>2 DEF RunInv
    <3>4. runtimeTasks[nextTask].after \in Int /\ pipeIdx \in Int
      BY <2>1, <2>2, <3>1 DEF TasksOK, RunInv
    <3> QED BY <3>1, <3>3, <3>4
  <2>3. phase = "done" => nextTask = Len(runtimeTasks) + 1
    BY <2>1 DEF RunInv
  <2> QED BY <2>2, <2>3 DEF TasksOnTime
<1> QED BY <1>1, PipelinesCorrect, PTL

=============================================================================
