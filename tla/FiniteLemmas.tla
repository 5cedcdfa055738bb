----------------------------- MODULE FiniteLemmas -----------------------------
(***************************************************************************)
(* What the proofs about the models need of natural numbers, finite sets   *)
(* and sums over them. The induction principles of the library take the    *)
(* property to prove as an operator; here it is a set, those elements that *)
(* have the property. They follow from the well-foundedness of strict      *)
(* inclusion among finite sets.                                            *)
(***************************************************************************)
EXTENDS Integers, FiniteSets, Functions, FiniteSetTheorems, TLAPS

-----------------------------------------------------------------------------
(* Induction.                                                              *)

(* A family of subsets of a finite set has a minimal member.               *)
LEMMA MinimalSubset ==
  ASSUME NEW S, IsFiniteSet(S), NEW F \in SUBSET SUBSET S, F # {}
  PROVE  \E T \in F : \A U \in F : U \subseteq T => U = T
<1> DEFINE R == StrictSubsetOrdering(S)
<1>1. IsWellFoundedOn(R, FiniteSubsetsOf(S))
  BY FS_StrictSubsetOrderingWellFounded
<1>2. FiniteSubsetsOf(S) = SUBSET S
  BY FS_FiniteSubsetsOfFinite
<1>3. F \subseteq FiniteSubsetsOf(S)
  BY <1>2
<1> HIDE DEF R
<1>4. PICK T \in F : \A U \in F : ~(<<U, T>> \in R)
  BY <1>1, <1>3, WFMin, Zenon
<1>5. \A U \in F : U \subseteq T => U = T
  BY <1>4 DEF R, StrictSubsetOrdering
<1> QED BY <1>4, <1>5

(* What holds of the empty set, and of a set with one more element if it   *)
(* holds of the set, holds of every finite set.                            *)
LEMMA FiniteInduction ==
  ASSUME NEW S, IsFiniteSet(S), NEW F, {} \in F,
         \A T \in SUBSET S : \A x \in S \ T : T \in F => T \cup {x} \in F
  PROVE  S \in F
<1> SUFFICES ASSUME S \notin F PROVE FALSE
  OBVIOUS
<1> DEFINE G == {T \in SUBSET S : T \notin F}
<1>1. PICK T \in G : \A U \in G : U \subseteq T => U = T
  <2>1. G \in SUBSET SUBSET S /\ G # {}
    OBVIOUS
  <2> HIDE DEF G
  <2> QED BY <2>1, MinimalSubset
<1>2. PICK x \in T : TRUE
  BY <1>1
<1>3. T \ {x} \in F
  BY <1>1, <1>2
<1>4. (T \ {x}) \cup {x} = T
  BY <1>2
<1>5. T \in F
  <2> DEFINE U == T \ {x}
  <2>1. U \in SUBSET S /\ x \in S \ U /\ U \in F /\ U \cup {x} = T
    BY <1>1, <1>2, <1>3
  <2> QED BY <2>1
<1> QED BY <1>1, <1>5

(* A set of natural numbers that is not empty has a least element.         *)
LEMMA LeastNatural ==
  ASSUME NEW A \in SUBSET Nat, A # {}
  PROVE  \E m \in A : \A n \in A : m <= n
<1>1. PICK a \in A : TRUE
  OBVIOUS
<1> DEFINE F == {A \cap (0 .. n) : n \in A \cap (0 .. a)}
<1>2. IsFiniteSet(0 .. a)
  BY FS_Interval
<1>3. F \in SUBSET SUBSET (0 .. a) /\ F # {}
  <2>1. a \in A \cap (0 .. a)
    OBVIOUS
  <2>2. \A n \in A \cap (0 .. a) : A \cap (0 .. n) \subseteq 0 .. a
    OBVIOUS
  <2> QED BY <2>1, <2>2
<1>4. PICK T \in F : \A U \in F : U \subseteq T => U = T
  <2> DEFINE D == 0 .. a
  <2>1. IsFiniteSet(D) /\ F \in SUBSET SUBSET D /\ F # {}
    BY <1>2, <1>3
  <2> HIDE DEF F, D
  <2> QED BY <2>1, MinimalSubset
<1>5. PICK m \in A \cap (0 .. a) : T = A \cap (0 .. m)
  BY <1>4
<1>6. ASSUME NEW n \in A, n < m PROVE FALSE
  <2>1. A \cap (0 .. n) \in F
    BY <1>5, <1>6
  <2>2. A \cap (0 .. n) \subseteq T
    BY <1>5, <1>6
  <2>3. A \cap (0 .. n) = A \cap (0 .. m)
    BY <1>4, <1>5, <2>1, <2>2
  <2> QED BY <1>5, <1>6, <2>3
<1> QED BY <1>5, <1>6

(* Induction over the natural numbers.                                     *)
LEMMA NaturalInduction ==
  ASSUME NEW A, 0 \in A, \A n \in Nat : n \in A => n + 1 \in A
  PROVE  Nat \subseteq A
<1> SUFFICES ASSUME NEW k \in Nat, k \notin A PROVE FALSE
  OBVIOUS
<1>1. PICK m \in Nat \ A : \A n \in Nat \ A : m <= n
  <2> DEFINE B == Nat \ A
  <2>1. B \in SUBSET Nat /\ B # {}
    OBVIOUS
  <2> HIDE DEF B
  <2>2. \E m \in B : \A n \in B : m <= n
    BY <2>1, LeastNatural
  <2> QED BY <2>2 DEF B
<1>2. m # 0
  BY <1>1
<1>3. m - 1 \in Nat /\ m - 1 \in A
  BY <1>1, <1>2
<1>4. (m - 1) + 1 \in A
  BY <1>3
<1> QED BY <1>1, <1>4

-----------------------------------------------------------------------------
(* Sums.                                                                   *)

(* g maps every subset of S to the sum of f over it, the way that          *)
(* SumFunction computes it: one chosen element after the other.            *)
IsSum(g, f, S) ==
  g = [s \in SUBSET S |-> IF s = {} THEN 0
                          ELSE f[CHOOSE x \in s : TRUE] + g[s \ {CHOOSE x \in s : TRUE}]]

(* There is such a function of the subsets of a finite set.                *)
LEMMA SumExists ==
  ASSUME NEW S, IsFiniteSet(S), NEW f
  PROVE  \E g : IsSum(g, f, S)
<1> DEFINE c(s) == CHOOSE x \in s : TRUE
           D(n) == {s \in SUBSET S : Cardinality(s) <= n}
           Step(g, s) == IF s = {} THEN 0 ELSE f[c(s)] + g[s \ {c(s)}]
           A == {n \in Nat : \E g : g = [s \in D(n) |-> Step(g, s)]}
<1>0. \A s \in SUBSET S : /\ IsFiniteSet(s) /\ Cardinality(s) \in Nat
                          /\ Cardinality(s) = 0 <=> s = {}
  BY FS_Subset, FS_CardinalityType, FS_EmptySet
<1>c. \A s \in SUBSET S : s # {} => c(s) \in s
  OBVIOUS
<1>d. ASSUME NEW s \in SUBSET S, s # {}
      PROVE  s \ {c(s)} \in SUBSET S /\ Cardinality(s \ {c(s)}) = Cardinality(s) - 1
  <2> HIDE DEF c
  <2> QED BY <1>0, <1>c, <1>d, FS_RemoveElement
<1> HIDE DEF c
<1>1. 0 \in A
  <2> DEFINE g == [s \in D(0) |-> 0]
  <2>1. \A s \in D(0) : s = {}
    BY <1>0
  <2>2. g = [s \in D(0) |-> Step(g, s)]
    BY <2>1
  <2> HIDE DEF g
  <2> QED BY <2>2
<1>2. ASSUME NEW n \in Nat, n \in A PROVE n + 1 \in A
  <2>1. PICK g : g = [s \in D(n) |-> Step(g, s)]
    BY <1>2
  <2> DEFINE h == [s \in D(n + 1) |-> Step(g, s)]
  <2>2. ASSUME NEW s \in D(n + 1), s # {} PROVE s \ {c(s)} \in D(n) /\ s \ {c(s)} \in D(n + 1)
    BY <1>0, <1>d, <2>2
  <2>3. ASSUME NEW s \in D(n) PROVE g[s] = Step(g, s)
    BY <2>1, <2>3, Zenon
  <2>3a. ASSUME NEW s \in D(n) PROVE g[s] = h[s]
    <3>1. s \in D(n + 1)
      BY <1>0, <2>3a
    <3>2. h[s] = Step(g, s)
      BY <3>1, Zenon
    <3> QED BY <2>3, <2>3a, <3>2
  <2>4. ASSUME NEW s \in D(n + 1) PROVE Step(g, s) = Step(h, s)
    <3> HIDE DEF h, D
    <3> QED BY <2>2, <2>3a, <2>4
  <2>5. h = [s \in D(n + 1) |-> Step(h, s)]
    <3> DEFINE k == [s \in D(n + 1) |-> Step(h, s)]
    <3>1. \A s \in D(n + 1) : h[s] = k[s]
      BY <2>4
    <3> QED BY <3>1
  <2> HIDE DEF h, Step
  <2> QED BY <2>5
<1>3. Cardinality(S) \in A
  <2> HIDE DEF A
  <2> QED BY <1>0, <1>1, <1>2, NaturalInduction
<1>4. D(Cardinality(S)) = SUBSET S
  BY <1>0, FS_Subset
<1>5. PICK g : g = [s \in D(Cardinality(S)) |-> Step(g, s)]
  BY <1>3
<1>6. IsSum(g, f, S)
  BY <1>4, <1>5 DEF IsSum, c
<1> QED BY <1>6

(* The sum over a function is computed by one.                             *)
LEMMA SumFunctionIsSum ==
  ASSUME NEW f, IsFiniteSet(DOMAIN f)
  PROVE  \E g : IsSum(g, f, DOMAIN f) /\ SumFunction(f) = g[DOMAIN f]
<1> DEFINE g == CHOOSE g : IsSum(g, f, DOMAIN f)
<1>1. IsSum(g, f, DOMAIN f)
  BY SumExists, Zenon
<1>2. SumFunction(f) = g[DOMAIN f]
  BY DEF SumFunction, SumFunctionOnSet, FoldFunctionOnSet, MapThenFoldSet, IsSum
<1> QED BY <1>1, <1>2

(* It does not matter which element is taken first.                        *)
LEMMA SumOfSubsets ==
  ASSUME NEW S, IsFiniteSet(S), NEW f \in [S -> Int], NEW g, IsSum(g, f, S)
  PROVE  /\ g[{}] = 0
         /\ \A s \in SUBSET S : g[s] \in Int /\ \A x \in s : g[s] = f[x] + g[s \ {x}]
<1> DEFINE c(s) == CHOOSE x \in s : TRUE
<1>0. /\ \A s \in SUBSET S : s # {} => c(s) \in s
      /\ \A s \in SUBSET S : g[s] = IF s = {} THEN 0 ELSE f[c(s)] + g[s \ {c(s)}]
  BY DEF IsSum
<1> HIDE DEF c
<1>1. ASSUME NEW s \in SUBSET S PROVE g[s] \in Int
  <2> DEFINE G == {t \in SUBSET S : g[t] \notin Int}
  <2>1. SUFFICES ASSUME G # {} PROVE FALSE
    OBVIOUS
  <2>2. PICK t \in G : \A u \in G : u \subseteq t => u = t
    <3>1. G \in SUBSET SUBSET S
      OBVIOUS
    <3> HIDE DEF G
    <3> QED BY <2>1, <3>1, MinimalSubset
  <2>3. CASE t = {}
    <3>1. g[t] = 0
      BY <1>0, <2>3
    <3> QED BY <2>2, <3>1
  <2>4. CASE t # {}
    <3>1. c(t) \in t /\ t \ {c(t)} \in SUBSET S /\ t \ {c(t)} # t
      BY <1>0, <2>2, <2>4
    <3>2. g[t \ {c(t)}] \in Int
      BY <2>2, <3>1
    <3>3. g[t] = f[c(t)] + g[t \ {c(t)}]
      BY <1>0, <2>2, <2>4
    <3>4. g[t] \in Int
      BY <3>1, <3>2, <3>3, <2>2
    <3> QED BY <2>2, <3>4
  <2> QED BY <2>3, <2>4
<1>2. ASSUME NEW s \in SUBSET S, NEW x \in s PROVE g[s] = f[x] + g[s \ {x}]
  <2> DEFINE G == {t \in SUBSET S : \E y \in t : g[t] # f[y] + g[t \ {y}]}
  <2>1. SUFFICES ASSUME G # {} PROVE FALSE
    OBVIOUS
  <2>2. PICK t \in G : \A u \in G : u \subseteq t => u = t
    <3>1. G \in SUBSET SUBSET S
      OBVIOUS
    <3> HIDE DEF G
    <3> QED BY <2>1, <3>1, MinimalSubset
  <2>3. PICK y \in t : g[t] # f[y] + g[t \ {y}]
    BY <2>2
  <2> DEFINE z == c(t)
  <2>4. z \in t /\ g[t] = f[z] + g[t \ {z}]
    BY <1>0, <2>2, <2>3
  <2> HIDE DEF z, G
  <2>5. y # z
    BY <2>3, <2>4
  <2> DEFINE ty == t \ {y}
             tz == t \ {z}
             both == t \ {y, z}
  <2>6. /\ ty \in SUBSET S /\ tz \in SUBSET S /\ both \in SUBSET S
        /\ z \in ty /\ y \in tz /\ ty # t /\ tz # t /\ ty \subseteq t /\ tz \subseteq t
        /\ ty \ {z} = both /\ tz \ {y} = both
    BY <2>2, <2>3, <2>4, <2>5 DEF G
  <2> HIDE DEF ty, tz, both
  <2>7. ty \notin G /\ tz \notin G
    BY <2>2, <2>6
  <2>8. g[ty] = f[z] + g[both] /\ g[tz] = f[y] + g[both]
    BY <2>6, <2>7 DEF G
  <2>9. g[both] \in Int /\ f[y] \in Int /\ f[z] \in Int
    BY <1>1, <2>2, <2>3, <2>4, <2>6 DEF G
  <2>10. g[t] = f[z] + g[tz] /\ g[t] # f[y] + g[ty]
    BY <2>3, <2>4 DEF ty, tz
  <2> QED BY <2>8, <2>9, <2>10
<1> QED BY <1>0, <1>1, <1>2

(* Equal functions have equal sums.                                        *)
LEMMA SumsAgree ==
  ASSUME NEW S, IsFiniteSet(S), NEW f \in [S -> Int], NEW g, IsSum(g, f, S),
         NEW T, IsFiniteSet(T), NEW e \in [T -> Int], NEW h, IsSum(h, e, T),
         T \subseteq S, \A x \in T : f[x] = e[x]
  PROVE  g[T] = h[T]
<1> DEFINE F == {s \in SUBSET T : g[s] = h[s]}
<1>1. /\ g[{}] = 0 /\ h[{}] = 0
      /\ \A s \in SUBSET T : /\ g[s] \in Int /\ \A x \in s : g[s] = f[x] + g[s \ {x}]
                             /\ h[s] \in Int /\ \A x \in s : h[s] = e[x] + h[s \ {x}]
  BY SumOfSubsets
<1>2. ASSUME NEW s \in SUBSET T, NEW x \in T \ s, s \in F PROVE s \cup {x} \in F
  <2> DEFINE u == s \cup {x}
  <2>1. u \in SUBSET T /\ x \in u /\ u \ {x} = s
    OBVIOUS
  <2> HIDE DEF u
  <2>2. g[u] = f[x] + g[s] /\ h[u] = e[x] + h[s]
    BY <1>1, <2>1
  <2>3. u \in F
    BY <1>2, <2>1, <2>2
  <2> QED BY <2>3 DEF u
<1>3. {} \in F
  BY <1>1
<1>4. T \in F
  <2> HIDE DEF F
  <2> QED BY <1>2, <1>3, FiniteInduction
<1> QED BY <1>4

(* The empty sum.                                                          *)
LEMMA SumEmpty ==
  ASSUME NEW f, DOMAIN f = {}
  PROVE  SumFunction(f) = 0
<1>1. IsFiniteSet(DOMAIN f)
  BY FS_EmptySet
<1>2. PICK g : IsSum(g, f, DOMAIN f) /\ SumFunction(f) = g[DOMAIN f]
  BY <1>1, SumFunctionIsSum
<1> QED BY <1>2 DEF IsSum

(* A sum is one of its terms and the sum of the others.                    *)
LEMMA SumRemove ==
  ASSUME NEW S, IsFiniteSet(S), NEW f \in [S -> Int], NEW x \in S
  PROVE  /\ SumFunction(f) \in Int
         /\ SumFunction([y \in S \ {x} |-> f[y]]) \in Int
         /\ SumFunction(f) = f[x] + SumFunction([y \in S \ {x} |-> f[y]])
<1> DEFINE T == S \ {x}
           e == [y \in T |-> f[y]]
<1>1. /\ IsFiniteSet(T) /\ T \subseteq S /\ e \in [T -> Int] /\ DOMAIN f = S /\ DOMAIN e = T
      /\ \A y \in T : f[y] = e[y]
  BY FS_RemoveElement
<1> HIDE DEF e
<1>2. PICK g : IsSum(g, f, S) /\ SumFunction(f) = g[S]
  BY <1>1, SumFunctionIsSum
<1>3. PICK h : IsSum(h, e, T) /\ SumFunction(e) = h[T]
  BY <1>1, SumFunctionIsSum
<1>4. g[T] = h[T]
  BY <1>1, <1>2, <1>3, SumsAgree
<1>5. g[S] = f[x] + g[T] /\ g[S] \in Int /\ g[T] \in Int
  BY <1>2, SumOfSubsets
<1> QED BY <1>2, <1>3, <1>4, <1>5 DEF e

(* A sum of natural numbers is one.                                        *)
LEMMA SumType ==
  ASSUME NEW S, IsFiniteSet(S), NEW f \in [S -> Nat]
  PROVE  SumFunction(f) \in Nat
<1> DEFINE F == {T \in SUBSET S : SumFunction([x \in T |-> f[x]]) \in Nat}
<1>1. {} \in F
  BY SumEmpty
<1>2. ASSUME NEW T \in SUBSET S, NEW x \in S \ T, T \in F PROVE T \cup {x} \in F
  <2> DEFINE U == T \cup {x}
             e == [y \in U |-> f[y]]
  <2>1. e \in [U -> Int] /\ x \in U /\ e[x] = f[x] /\ U \in SUBSET S /\ IsFiniteSet(U)
        /\ [y \in U \ {x} |-> e[y]] = [y \in T |-> f[y]]
    <3>1. IsFiniteSet(U)
      BY FS_Subset
    <3> QED BY <3>1
  <2>2. SumFunction(e) = e[x] + SumFunction([y \in U \ {x} |-> e[y]])
    <3> HIDE DEF e, U
    <3> QED BY <2>1, SumRemove
  <2>3. SumFunction(e) \in Nat
    <3> DEFINE d == SumFunction([y \in T |-> f[y]])
    <3>1. d \in Nat /\ f[x] \in Nat
      BY <1>2
    <3>2. SumFunction(e) = f[x] + d
      BY <2>1, <2>2
    <3> HIDE DEF d, e
    <3> QED BY <3>1, <3>2
  <2> QED BY <2>1, <2>3
<1>3. S \in F
  <2> HIDE DEF F
  <2> QED BY <1>1, <1>2, FiniteInduction
<1>4. f = [x \in S |-> f[x]]
  OBVIOUS
<1> QED BY <1>3, <1>4

(* A sum in which one term changes.                                        *)
LEMMA SumChanged ==
  ASSUME NEW S, IsFiniteSet(S), NEW f \in [S -> Int], NEW g \in [S -> Int], NEW x \in S,
         \A y \in S \ {x} : f[y] = g[y]
  PROVE  SumFunction(g) = SumFunction(f) - f[x] + g[x]
         /\ SumFunction(f) \in Int /\ SumFunction(g) \in Int
<1>1. /\ SumFunction(f) \in Int /\ SumFunction([y \in S \ {x} |-> f[y]]) \in Int
      /\ SumFunction(f) = f[x] + SumFunction([y \in S \ {x} |-> f[y]])
  BY SumRemove
<1>2. /\ SumFunction(g) \in Int
      /\ SumFunction(g) = g[x] + SumFunction([y \in S \ {x} |-> g[y]])
  BY SumRemove
<1>3. [y \in S \ {x} |-> f[y]] = [y \in S \ {x} |-> g[y]]
  OBVIOUS
<1> QED BY <1>1, <1>2, <1>3

(* A sum of zeros.                                                         *)
LEMMA SumZero ==
  ASSUME NEW S, IsFiniteSet(S), NEW f \in [S -> Int], \A x \in S : f[x] = 0
  PROVE  SumFunction(f) = 0
<1> DEFINE F == {T \in SUBSET S : SumFunction([x \in T |-> 0]) = 0}
<1>1. {} \in F
  BY SumEmpty
<1>2. ASSUME NEW T \in SUBSET S, NEW x \in S \ T, T \in F PROVE T \cup {x} \in F
  <2> DEFINE U == T \cup {x}
             e == [y \in U |-> 0]
  <2>1. e \in [U -> Int] /\ x \in U /\ e[x] = 0 /\ U \in SUBSET S /\ IsFiniteSet(U)
        /\ [y \in U \ {x} |-> e[y]] = [y \in T |-> 0]
    <3>1. IsFiniteSet(U)
      BY FS_Subset
    <3> QED BY <3>1
  <2>2. SumFunction(e) = e[x] + SumFunction([y \in U \ {x} |-> e[y]])
    <3> HIDE DEF e, U
    <3> QED BY <2>1, SumRemove
  <2> QED BY <1>2, <2>1, <2>2
<1>3. S \in F
  <2> HIDE DEF F
  <2> QED BY <1>1, <1>2, FiniteInduction
<1>4. f = [x \in S |-> 0]
  OBVIOUS
<1> QED BY <1>3, <1>4

(* A sum with one term that is not zero.                                   *)
LEMMA SumSingle ==
  ASSUME NEW S, IsFiniteSet(S), NEW f \in [S -> Int], NEW x \in S,
         \A y \in S \ {x} : f[y] = 0
  PROVE  SumFunction(f) = f[x]
<1> DEFINE g == [f EXCEPT ![x] = 0]
<1>1. g \in [S -> Int] /\ g[x] = 0 /\ \A y \in S \ {x} : f[y] = g[y]
  OBVIOUS
<1>2. \A y \in S : g[y] = 0
  OBVIOUS
<1> HIDE DEF g
<1>3. SumFunction(g) = 0
  BY <1>1, <1>2, SumZero
<1>4. SumFunction(g) = SumFunction(f) - f[x] + g[x] /\ SumFunction(f) \in Int
  BY <1>1, SumChanged
<1>5. f[x] \in Int
  OBVIOUS
<1> DEFINE all == SumFunction(f)
           one == f[x]
<1>6. all \in Int /\ one \in Int /\ 0 = all - one + 0
  BY <1>1, <1>3, <1>4, <1>5
<1> HIDE DEF all, one
<1>7. all = one
  BY <1>6
<1> QED BY <1>7 DEF all, one

-----------------------------------------------------------------------------
(* Powers of two: the library knows them as the number of subsets.         *)

(* The subsets of e elements.                                              *)
LEMMA SubsetsOf ==
  ASSUME NEW e \in Nat
  PROVE  IsFiniteSet(SUBSET (1 .. e)) /\ Cardinality(SUBSET (1 .. e)) = 2^e
<1>1. IsFiniteSet(1 .. e) /\ Cardinality(1 .. e) = e
  BY FS_Interval
<1> QED BY <1>1, FS_SUBSET

(* Half of the subsets of e + 1 elements have the last one.                *)
LEMMA PowerOfTwo ==
  ASSUME NEW e \in Nat
  PROVE  2^e \in Nat /\ 2^0 = 1 /\ 2^(e + 1) = 2 * 2^e
<1> DEFINE A == SUBSET (1 .. e)
           C == SUBSET (1 .. e + 1)
           B == {s \in C : e + 1 \in s}
<1>1. IsFiniteSet(A) /\ Cardinality(A) = 2^e /\ 2^e \in Nat
  BY SubsetsOf, FS_CardinalityType
<1>2. IsFiniteSet(C) /\ Cardinality(C) = 2^(e + 1)
  BY SubsetsOf
<1>3. 2^0 = 1
  <2>1. SUBSET (1 .. 0) = {{}}
    OBVIOUS
  <2> QED BY <2>1, SubsetsOf, FS_Singleton
<1>4. IsFiniteSet(B) /\ Cardinality(B) = Cardinality(A)
  <2> DEFINE f == [s \in A |-> s \cup {e + 1}]
  <2>1. f \in [A -> B]
    OBVIOUS
  <2>2. \A s, t \in A : f[s] = f[t] => s = t
    <3> SUFFICES ASSUME NEW s \in A, NEW t \in A, f[s] = f[t] PROVE s = t
      OBVIOUS
    <3>1. e + 1 \notin s /\ e + 1 \notin t
      OBVIOUS
    <3>2. s = f[s] \ {e + 1} /\ t = f[t] \ {e + 1}
      BY <3>1
    <3> QED BY <3>2
  <2>3. \A t \in B : \E s \in A : f[s] = t
    <3> SUFFICES ASSUME NEW t \in B PROVE \E s \in A : f[s] = t
      OBVIOUS
    <3>1. t \ {e + 1} \in A /\ f[t \ {e + 1}] = t
      OBVIOUS
    <3> QED BY <3>1
  <2> HIDE DEF f, A, B
  <2>4. f \in Bijection(A, B)
    BY <2>1, <2>2, <2>3 DEF Bijection, Injection, Surjection, IsInjective
  <2>5. ExistsBijection(A, B)
    BY <2>4 DEF ExistsBijection
  <2> QED BY <1>1, <2>5, FS_Bijection
<1>5. A \cup B = C /\ A \cap B = {}
  OBVIOUS
<1> HIDE DEF A, B, C
<1>6. Cardinality(C) = Cardinality(A) + Cardinality(B) - Cardinality({})
  BY <1>1, <1>4, <1>5, FS_Union
<1>7. Cardinality({}) = 0
  BY FS_EmptySet
<1> QED BY <1>1, <1>2, <1>3, <1>4, <1>6, <1>7

(* Every number can be rounded up to a power of two.                       *)
LEMMA RoundedUp ==
  ASSUME NEW p \in Nat \ {0}
  PROVE  \E e \in 1 .. p : 2^e \in Nat /\ 2^e >= p /\ (2^e = 2 \/ 2^e < 2 * p)
<1> DEFINE A == {n \in Nat : n # 0 =>
                   \E e \in 1 .. n : 2^e \in Nat /\ 2^e >= n /\ (2^e = 2 \/ 2^e < 2 * n)}
<1>1. 2^1 = 2
  <2>1. 2^(0 + 1) = 2 * 2^0 /\ 2^0 = 1
    BY PowerOfTwo
  <2> QED BY <2>1
<1>2. 0 \in A
  OBVIOUS
<1>3. ASSUME NEW n \in Nat, n \in A PROVE n + 1 \in A
  <2>1. CASE n = 0
    <3>1. 1 \in 1 .. 1 /\ 2^1 \in Nat /\ 2^1 >= 1
      BY <1>1
    <3>2. 1 \in A
      BY <1>1, <3>1
    <3> QED BY <2>1, <3>2
  <2>2. CASE n # 0
    <3>1. PICK e \in 1 .. n : 2^e \in Nat /\ 2^e >= n /\ (2^e = 2 \/ 2^e < 2 * n)
      BY <1>3, <2>2
    <3> DEFINE q == 2^e
    <3>2. CASE q >= n + 1
      <4>1. e \in 1 .. n + 1 /\ q \in Nat /\ (q = 2 \/ q < 2 * (n + 1))
        BY <3>1
      <4> QED BY <3>2, <4>1
    <3>3. CASE q = n
      <4>1. 2^(e + 1) = 2 * q
        BY PowerOfTwo
      <4> DEFINE r == 2^(e + 1)
      <4>2. e + 1 \in 1 .. n + 1 /\ r \in Nat /\ r >= n + 1 /\ r < 2 * (n + 1)
        BY <3>1, <3>3, <4>1
      <4> QED BY <4>2
    <3> QED BY <3>1, <3>2, <3>3
  <2> QED BY <2>1, <2>2
<1>4. p \in A
  <2> HIDE DEF A
  <2> QED BY <1>2, <1>3, NaturalInduction
<1> QED BY <1>4
=============================================================================
