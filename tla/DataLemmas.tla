----------------------------- MODULE DataLemmas -----------------------------
(***************************************************************************)
(* Facts about data that the proofs of the components share: induction     *)
(* over the naturals, least and greatest elements, recursion along an      *)
(* index, and the sums and sequences of the community modules.             *)
(*                                                                         *)
(* The induction theorems of the library take a predicate as a parameter,  *)
(* which the provers cannot instantiate.  Here induction is over SETS of   *)
(* naturals, from the well-foundedness of <, and the sets are instantiated *)
(* where a lemma is used.                                                  *)
(***************************************************************************)
EXTENDS Integers, Sequences, FiniteSets, SequencesExt,
        FiniteSetTheorems, SequenceTheorems, WellFoundedInduction, TLAPS

(* Every set of naturals has a least element.                              *)
LEMMA LeastElement ==
    ASSUME NEW T, T \subseteq Nat, T # {}
    PROVE  \E x \in T : \A y \in T : x <= y
<1>1. \E x \in T : \A y \in T : <<y, x>> \notin OpToRel(<, Nat)
  BY NatLessThanWellFounded, WFMin, Zenon
<1>2. PICK x \in T : \A y \in T : <<y, x>> \notin OpToRel(<, Nat)
  BY <1>1, Zenon
<1>3. \A y \in T : ~ (y < x)
  BY <1>2 DEF OpToRel
<1> QED
  BY <1>3

(* Min of the community modules is that element.                           *)
LEMMA MinIsLeast ==
    ASSUME NEW T, T \subseteq Nat, T # {}
    PROVE  Min(T) \in T /\ \A y \in T : Min(T) <= y
  BY LeastElement DEF Min

(* Max of the community modules is the greatest element of a bounded set.  *)
LEMMA MaxIsGreatest ==
    ASSUME NEW n \in Nat, NEW T, T \subseteq 0..n, T # {}
    PROVE  Max(T) \in T /\ \A y \in T : Max(T) >= y
<1> DEFINE U == {k \in Nat : \E x \in T : k = n - x}
<1>1. PICK x0 \in T : TRUE
  OBVIOUS
<1>2. n - x0 \in U
  OBVIOUS
<1>3. PICK k \in U : \A j \in U : k <= j
  BY <1>2, LeastElement
<1>4. PICK x \in T : k = n - x
  OBVIOUS
<1>5. ASSUME NEW y \in T PROVE x >= y
  <2>1. n - y \in U
    OBVIOUS
  <2>2. k <= n - y
    BY <1>3, <2>1
  <2> QED
    BY <1>4, <2>2
<1>6. \E z \in T : \A y \in T : z >= y
  BY <1>5
<1> QED
  BY <1>6 DEF Max

(* An element that no other exceeds is the greatest.                       *)
LEMMA MaxIs ==
    ASSUME NEW T, T \subseteq Int, NEW x \in T, \A y \in T : x >= y
    PROVE  Max(T) = x
<1>1. Max(T) \in T /\ \A y \in T : Max(T) >= y
  BY DEF Max
<1>2. Max(T) \in Int /\ x \in Int /\ Max(T) >= x /\ x >= Max(T)
  BY <1>1
<1> QED
  BY <1>2

(* Induction: a set that holds 0 and every successor holds the naturals.   *)
LEMMA SetInduction ==
    ASSUME NEW T, T \subseteq Nat, 0 \in T, \A n \in T : n + 1 \in T
    PROVE  T = Nat
<1> SUFFICES ASSUME T # Nat PROVE FALSE
  OBVIOUS
<1>1. PICK x \in Nat \ T : \A y \in Nat \ T : x <= y
  BY LeastElement
<1>2. x # 0 /\ x - 1 \in Nat /\ x - 1 \in T
  BY <1>1
<1> QED
  BY <1>1, <1>2

-----------------------------------------------------------------------------
(* The sums of Functions.tla: SumFunctionOnSet(f, S).  They are defined by *)
(* a recursive function on the subsets of S.                               *)

(* The element that a fold over a set takes first.                         *)
Chosen(s) == CHOOSE x \in s : TRUE

(* The equation that defines the recursive function, on a set of sets.     *)
Partial(f, D, g) ==
    g = [s \in D |-> IF s = {} THEN 0 ELSE f[Chosen(s)] + g[s \ {Chosen(s)}]]

(* The subsets of S with at most n elements.                               *)
UpTo(S, n) == {s \in SUBSET S : Cardinality(s) <= n}

(* Subsets of a finite set are finite, and taking the chosen element makes *)
(* one smaller.                                                            *)
LEMMA SubsetFacts ==
    ASSUME NEW S, IsFiniteSet(S), NEW s \in SUBSET S
    PROVE  /\ IsFiniteSet(s) /\ Cardinality(s) \in Nat
           /\ Cardinality(s) = 0 <=> s = {}
           /\ s # {} => /\ Chosen(s) \in s
                        /\ s \ {Chosen(s)} \in SUBSET S
                        /\ Cardinality(s \ {Chosen(s)}) = Cardinality(s) - 1
<1>1. IsFiniteSet(s) /\ Cardinality(s) \in Nat
  BY FS_Subset, FS_CardinalityType
<1>2. Cardinality(s) = 0 <=> s = {}
  BY <1>1, FS_EmptySet
<1>3. s # {} => Chosen(s) \in s
  BY DEF Chosen
<1> QED
  BY <1>1, <1>2, <1>3, FS_RemoveElement

(* The recursive function exists.                                          *)
LEMMA SumExists ==
    ASSUME NEW f, NEW S, IsFiniteSet(S)
    PROVE  \E g : Partial(f, SUBSET S, g)
<1> DEFINE T == {n \in Nat : \E g : Partial(f, UpTo(S, n), g)}
<1>1. 0 \in T
  <2> DEFINE g == [s \in UpTo(S, 0) |-> 0]
  <2>1. ASSUME NEW s \in UpTo(S, 0)
        PROVE  s = {}
    <3>1. s \in SUBSET S /\ Cardinality(s) <= 0
      BY DEF UpTo
    <3>2. Cardinality(s) \in Nat /\ (Cardinality(s) = 0 <=> s = {})
      BY <3>1, SubsetFacts
    <3> QED
      BY <3>1, <3>2
  <2>2. g = [s \in UpTo(S, 0) |-> IF s = {} THEN 0 ELSE f[Chosen(s)] + g[s \ {Chosen(s)}]]
    BY <2>1
  <2> QED
    BY <2>2 DEF Partial
<1>2. ASSUME NEW n \in Nat, NEW g, Partial(f, UpTo(S, n), g)
      PROVE  \E h : Partial(f, UpTo(S, n + 1), h)
  <2> DEFINE Body(k, s) == IF s = {} THEN 0 ELSE f[Chosen(s)] + k[s \ {Chosen(s)}]
             h == [s \in UpTo(S, n + 1) |-> Body(g, s)]
  <2>1. ASSUME NEW s \in UpTo(S, n)
        PROVE  s \in UpTo(S, n + 1) /\ g[s] = Body(g, s)
    <3>1. s \in SUBSET S /\ Cardinality(s) <= n /\ Cardinality(s) \in Nat
      BY SubsetFacts DEF UpTo
    <3>2. s \in UpTo(S, n + 1)
      BY <3>1 DEF UpTo
    <3>3. g = [t \in UpTo(S, n) |-> Body(g, t)]
      BY <1>2 DEF Partial
    <3> HIDE DEF Body
    <3>4. g[s] = Body(g, s)
      BY <3>3
    <3> QED
      BY <3>2, <3>4
  <2>2. ASSUME NEW s \in UpTo(S, n + 1), s # {}
        PROVE  s \ {Chosen(s)} \in UpTo(S, n)
    BY <2>2, SubsetFacts DEF UpTo
  <2>3. ASSUME NEW s \in UpTo(S, n)
        PROVE  h[s] = g[s]
    BY <2>1
  <2>4. ASSUME NEW s \in UpTo(S, n + 1)
        PROVE  Body(h, s) = Body(g, s)
    <3>1. CASE s = {}
      BY <3>1
    <3>2. CASE s # {}
      <4>1. h[s \ {Chosen(s)}] = g[s \ {Chosen(s)}]
        BY <3>2, <2>2, <2>3
      <4> HIDE DEF h
      <4> QED
        BY <3>2, <4>1
    <3> QED
      BY <3>1, <3>2
  <2>5. h = [s \in UpTo(S, n + 1) |-> Body(h, s)]
    <3> HIDE DEF Body
    <3> QED
      BY <2>4
  <2> QED
    BY <2>5 DEF Partial
<1>3. T = Nat
  <2>1. \A n \in T : n + 1 \in T
    <3> SUFFICES ASSUME NEW n \in T PROVE n + 1 \in T
      OBVIOUS
    <3>1. PICK g : Partial(f, UpTo(S, n), g)
      OBVIOUS
    <3> QED
      BY <3>1, <1>2
  <2> HIDE DEF T
  <2>2. T \subseteq Nat
    BY DEF T
  <2> QED
    BY <1>1, <2>1, <2>2, SetInduction
<1>4. Cardinality(S) \in T
  BY <1>3, FS_CardinalityType
<1>5. UpTo(S, Cardinality(S)) = SUBSET S
  BY FS_Subset DEF UpTo
<1> QED
  BY <1>4, <1>5

(* What SumFunctionOnSet is on subsets of S.                               *)
LEMMA SumUnfolds ==
    ASSUME NEW f, NEW S, IsFiniteSet(S)
    PROVE  \E g : /\ Partial(f, SUBSET S, g)
                  /\ SumFunctionOnSet(f, S) = g[S]
<1> DEFINE g == CHOOSE k : Partial(f, SUBSET S, k)
<1>1. Partial(f, SUBSET S, g)
  BY SumExists
<1>2. SumFunctionOnSet(f, S) = g[S]
  BY DEF SumFunctionOnSet, FoldFunctionOnSet, MapThenFoldSet, Partial, Chosen
<1> QED
  BY <1>1, <1>2

(* Two such functions agree on the sets they share.                        *)
LEMMA SumUnique ==
    ASSUME NEW f, NEW S, NEW R \in SUBSET S, IsFiniteSet(S), NEW g, NEW h,
           Partial(f, SUBSET S, g), Partial(f, SUBSET R, h)
    PROVE  \A s \in SUBSET R : g[s] = h[s]
<1> DEFINE T == {n \in Nat : \A s \in SUBSET R : Cardinality(s) = n => g[s] = h[s]}
<1>1. IsFiniteSet(R)
  BY FS_Subset
<1>2. ASSUME NEW s \in SUBSET R
      PROVE  /\ g[s] = IF s = {} THEN 0 ELSE f[Chosen(s)] + g[s \ {Chosen(s)}]
             /\ h[s] = IF s = {} THEN 0 ELSE f[Chosen(s)] + h[s \ {Chosen(s)}]
  <2>1. s \in SUBSET S
    OBVIOUS
  <2>2. g[s] = IF s = {} THEN 0 ELSE f[Chosen(s)] + g[s \ {Chosen(s)}]
    BY <2>1 DEF Partial
  <2>3. h[s] = IF s = {} THEN 0 ELSE f[Chosen(s)] + h[s \ {Chosen(s)}]
    BY DEF Partial
  <2> QED
    BY <2>2, <2>3
<1>3. 0 \in T
  BY <1>1, <1>2, SubsetFacts
<1>4. ASSUME NEW n \in T PROVE n + 1 \in T
  <2> SUFFICES ASSUME NEW s \in SUBSET R, Cardinality(s) = n + 1 PROVE g[s] = h[s]
    OBVIOUS
  <2>1. s # {} /\ s \ {Chosen(s)} \in SUBSET R /\ Cardinality(s \ {Chosen(s)}) = n
    BY <1>1, SubsetFacts
  <2>2. g[s \ {Chosen(s)}] = h[s \ {Chosen(s)}]
    BY <2>1
  <2> QED
    BY <1>2, <2>1, <2>2
<1> HIDE DEF T
<1>5. T \subseteq Nat
  BY DEF T
<1>6. T = Nat
  BY <1>3, <1>4, <1>5, SetInduction
<1> SUFFICES ASSUME NEW s \in SUBSET R PROVE g[s] = h[s]
  OBVIOUS
<1>7. Cardinality(s) \in T
  BY <1>1, <1>6, SubsetFacts
<1> QED
  BY <1>7 DEF T

(* The sum over no element is 0.                                           *)
LEMMA SumEmpty ==
    ASSUME NEW f
    PROVE  SumFunctionOnSet(f, {}) = 0
<1>1. IsFiniteSet({})
  BY FS_EmptySet
<1>2. PICK g : Partial(f, SUBSET {}, g) /\ SumFunctionOnSet(f, {}) = g[{}]
  BY <1>1, SumUnfolds
<1>3. {} \in SUBSET {}
  OBVIOUS
<1>4. g[{}] = 0
  BY <1>2, <1>3 DEF Partial
<1> QED
  BY <1>2, <1>4

(* The element the recursion takes out first.                              *)
LEMMA SumFirst ==
    ASSUME NEW f, NEW S, IsFiniteSet(S), S # {}
    PROVE  SumFunctionOnSet(f, S) = f[Chosen(S)] + SumFunctionOnSet(f, S \ {Chosen(S)})
<1> DEFINE R == S \ {Chosen(S)}
<1>1. IsFiniteSet(R) /\ R \in SUBSET S /\ S \in SUBSET S /\ R \in SUBSET R
  BY FS_Subset
<1>2. PICK g : Partial(f, SUBSET S, g) /\ SumFunctionOnSet(f, S) = g[S]
  BY SumUnfolds
<1>3. PICK h : Partial(f, SUBSET R, h) /\ SumFunctionOnSet(f, R) = h[R]
  BY <1>1, SumUnfolds
<1>4. g[R] = h[R]
  <2> HIDE DEF R
  <2>1. \A s \in SUBSET R : g[s] = h[s]
    BY <1>1, <1>2, <1>3, SumUnique, SMTT(30)
  <2> QED
    BY <1>1, <2>1
<1>5. g[S] = f[Chosen(S)] + g[R]
  BY <1>1, <1>2 DEF Partial
<1> QED
  BY <1>2, <1>3, <1>4, <1>5

(* A sum of integers is an integer, of naturals a natural.                 *)
LEMMA SumType ==
    ASSUME NEW f, NEW S, IsFiniteSet(S), NEW N, N \in {Nat, Int}, \A x \in S : f[x] \in N
    PROVE  SumFunctionOnSet(f, S) \in N
<1> DEFINE T == {n \in Nat : \A s \in SUBSET S : Cardinality(s) = n =>
                                SumFunctionOnSet(f, s) \in N}
<1>1. 0 \in T
  <2> SUFFICES ASSUME NEW s \in SUBSET S, Cardinality(s) = 0
               PROVE  SumFunctionOnSet(f, s) \in N
    OBVIOUS
  <2>1. s = {}
    BY SubsetFacts
  <2> QED
    BY <2>1, SumEmpty
<1>2. ASSUME NEW n \in T PROVE n + 1 \in T
  <2> SUFFICES ASSUME NEW s \in SUBSET S, Cardinality(s) = n + 1
               PROVE  SumFunctionOnSet(f, s) \in N
    OBVIOUS
  <2>1. /\ s # {} /\ Chosen(s) \in s /\ s \ {Chosen(s)} \in SUBSET S
        /\ Cardinality(s \ {Chosen(s)}) = n /\ IsFiniteSet(s)
    BY SubsetFacts
  <2>2. SumFunctionOnSet(f, s \ {Chosen(s)}) \in N /\ f[Chosen(s)] \in N
    BY <2>1
  <2>3. SumFunctionOnSet(f, s) = f[Chosen(s)] + SumFunctionOnSet(f, s \ {Chosen(s)})
    BY <2>1, SumFirst
  <2> HIDE DEF T
  <2> QED
    BY <2>2, <2>3
<1> HIDE DEF T
<1>3. T \subseteq Nat
  BY DEF T
<1>4. T = Nat
  BY <1>1, <1>2, <1>3, SetInduction
<1>5. Cardinality(S) \in T
  BY <1>4, FS_CardinalityType
<1> QED
  BY <1>5 DEF T

(* Any element may be taken out first.                                     *)
LEMMA SumRemove ==
    ASSUME NEW f, NEW S, IsFiniteSet(S), \A x \in S : f[x] \in Int, NEW e \in S
    PROVE  SumFunctionOnSet(f, S) = f[e] + SumFunctionOnSet(f, S \ {e})
<1> DEFINE Sum(s) == SumFunctionOnSet(f, s)
           T == {n \in Nat : \A s \in SUBSET S : Cardinality(s) = n =>
                                \A x \in s : Sum(s) = f[x] + Sum(s \ {x})}
<1>1. \A s \in SUBSET S : Sum(s) \in Int
  BY FS_Subset, SumType
<1>2. 0 \in T
  BY SubsetFacts
<1>3. ASSUME NEW n \in T PROVE n + 1 \in T
  <2> SUFFICES ASSUME NEW s \in SUBSET S, Cardinality(s) = n + 1, NEW x \in s
               PROVE  Sum(s) = f[x] + Sum(s \ {x})
    OBVIOUS
  <2> DEFINE c == Chosen(s)
             r == s \ {c}
             q == s \ {x}
  <2>1. /\ s # {} /\ c \in s /\ r \in SUBSET S /\ Cardinality(r) = n
        /\ IsFiniteSet(s) /\ q \in SUBSET S /\ Cardinality(q) = n
    <3>1. s # {} /\ c \in s /\ r \in SUBSET S /\ Cardinality(r) = n /\ IsFiniteSet(s)
      BY SubsetFacts
    <3>2. q \in SUBSET S /\ Cardinality(q) = Cardinality(s) - 1
      BY <3>1, FS_RemoveElement
    <3>3. Cardinality(q) = n
      BY <3>2
    <3> QED
      BY <3>1, <3>2, <3>3
  <2>2. Sum(s) = f[c] + Sum(r)
    BY <2>1, SumFirst
  <2>3. CASE c = x
    BY <2>2, <2>3
  <2>4. CASE c # x
    <3>1. Sum(r) = f[x] + Sum(r \ {x}) /\ Sum(q) = f[c] + Sum(q \ {c})
      BY <2>1, <2>4
    <3>2. r \ {x} = q \ {c} /\ r \ {x} \in SUBSET S
      OBVIOUS
    <3>3. f[x] \in Int /\ f[c] \in Int /\ Sum(r \ {x}) \in Int
      BY <1>1, <2>1, <3>2
    <3>4. Sum(q) = f[c] + Sum(r \ {x})
      BY <3>1, <3>2
    <3> HIDE DEF Sum, c, r, q, T
    <3>5. Sum(s) = f[x] + Sum(q)
      BY <2>2, <3>1, <3>3, <3>4
    <3> QED
      BY <3>5 DEF q
  <2> QED
    BY <2>3, <2>4
<1> HIDE DEF T
<1>4. T \subseteq Nat
  BY DEF T
<1>5. T = Nat
  BY <1>2, <1>3, <1>4, SetInduction
<1>6. Cardinality(S) \in T
  BY <1>5, FS_CardinalityType
<1> QED
  BY <1>6 DEF T

(* Renaming the index leaves the sum alone: g is f read through a          *)
(* one-to-one map p from R onto S.                                         *)
LEMMA SumReindex ==
    ASSUME NEW f, NEW S, IsFiniteSet(S), \A x \in S : f[x] \in Int,
           NEW R, NEW p \in [R -> S], NEW g,
           \A i, j \in R : p[i] = p[j] => i = j,
           \A x \in S : \E i \in R : p[i] = x,
           \A i \in R : g[i] = f[p[i]], IsFiniteSet(R)
    PROVE  SumFunctionOnSet(g, R) = SumFunctionOnSet(f, S)
<1> DEFINE Img(r) == {p[i] : i \in r}
           T == {n \in Nat : \A r \in SUBSET R : Cardinality(r) = n =>
                        SumFunctionOnSet(g, r) = SumFunctionOnSet(f, Img(r))}
<1>1. 0 \in T
  <2> SUFFICES ASSUME NEW r \in SUBSET R, Cardinality(r) = 0
               PROVE  SumFunctionOnSet(g, r) = SumFunctionOnSet(f, Img(r))
    OBVIOUS
  <2>1. r = {}
    BY SubsetFacts
  <2>2. Img(r) = {}
    BY <2>1
  <2> QED
    BY <2>1, <2>2, SumEmpty
<1>2. ASSUME NEW n \in T PROVE n + 1 \in T
  <2> SUFFICES ASSUME NEW r \in SUBSET R, Cardinality(r) = n + 1
               PROVE  SumFunctionOnSet(g, r) = SumFunctionOnSet(f, Img(r))
    OBVIOUS
  <2> DEFINE c == Chosen(r)
             q == r \ {c}
  <2>1. r # {} /\ c \in r /\ q \in SUBSET R /\ Cardinality(q) = n /\ IsFiniteSet(r)
    BY SubsetFacts
  <2>2. SumFunctionOnSet(g, r) = g[c] + SumFunctionOnSet(g, q)
    BY <2>1, SumFirst
  <2>3. SumFunctionOnSet(g, q) = SumFunctionOnSet(f, Img(q))
    BY <2>1
  <2>4. Img(r) \in SUBSET S /\ p[c] \in Img(r) /\ Img(q) = Img(r) \ {p[c]}
    BY <2>1
  <2>5. IsFiniteSet(Img(r)) /\ \A x \in Img(r) : f[x] \in Int
    BY <2>4, FS_Subset
  <2>6. SumFunctionOnSet(f, Img(r)) = f[p[c]] + SumFunctionOnSet(f, Img(r) \ {p[c]})
    BY <2>4, <2>5, SumRemove
  <2>7. g[c] = f[p[c]]
    BY <2>1
  <2> HIDE DEF c, q, Img
  <2> QED
    BY <2>2, <2>3, <2>4, <2>6, <2>7
<1> HIDE DEF T
<1>3. T \subseteq Nat
  BY DEF T
<1>4. T = Nat
  BY <1>1, <1>2, <1>3, SetInduction
<1>5. Cardinality(R) \in T
  BY <1>4, FS_CardinalityType
<1>6. SumFunctionOnSet(g, R) = SumFunctionOnSet(f, Img(R))
  BY <1>5 DEF T
<1>7. Img(R) = S
  OBVIOUS
<1> QED
  BY <1>6, <1>7

(* Only the values on the set matter.                                      *)
LEMMA SumSame ==
    ASSUME NEW f, NEW g, NEW S, IsFiniteSet(S),
           \A x \in S : f[x] \in Int /\ g[x] = f[x]
    PROVE  SumFunctionOnSet(g, S) = SumFunctionOnSet(f, S)
<1> DEFINE p == [x \in S |-> x]
<1>1. p \in [S -> S] /\ \A x \in S : p[x] = x
  OBVIOUS
<1> HIDE DEF p
<1> QED
  BY <1>1, SumReindex

(* The sum over two disjoint sets.                                         *)
LEMMA SumSplit ==
    ASSUME NEW f, NEW A, NEW B, IsFiniteSet(A), IsFiniteSet(B), A \cap B = {},
           \A x \in A \cup B : f[x] \in Int
    PROVE  SumFunctionOnSet(f, A \cup B) = SumFunctionOnSet(f, A) + SumFunctionOnSet(f, B)
<1> DEFINE Sum(s) == SumFunctionOnSet(f, s)
           T == {n \in Nat : \A s \in SUBSET B : Cardinality(s) = n =>
                                Sum(A \cup s) = Sum(A) + Sum(s)}
<1>1. IsFiniteSet(A \cup B) /\ \A s \in SUBSET (A \cup B) : IsFiniteSet(s) /\ Sum(s) \in Int
  BY FS_Union, FS_Subset, SumType
<1>2. 0 \in T
  <2> SUFFICES ASSUME NEW s \in SUBSET B, Cardinality(s) = 0
               PROVE  Sum(A \cup s) = Sum(A) + Sum(s)
    OBVIOUS
  <2>1. s = {} /\ A \cup s = A
    BY SubsetFacts
  <2>2. Sum(s) = 0
    BY <2>1, SumEmpty
  <2>3. Sum(A) \in Int
    BY <1>1
  <2> HIDE DEF Sum
  <2> QED
    BY <2>1, <2>2, <2>3
<1>3. ASSUME NEW n \in T PROVE n + 1 \in T
  <2> SUFFICES ASSUME NEW s \in SUBSET B, Cardinality(s) = n + 1
               PROVE  Sum(A \cup s) = Sum(A) + Sum(s)
    OBVIOUS
  <2> DEFINE c == Chosen(s)
             r == s \ {c}
  <2>1. s # {} /\ c \in s /\ r \in SUBSET B /\ Cardinality(r) = n /\ IsFiniteSet(s)
    <3>1. n \in Nat /\ n + 1 # 0 /\ (n + 1) - 1 = n
      OBVIOUS
    <3> HIDE DEF T
    <3>2. /\ s # {} /\ IsFiniteSet(s) /\ c \in s /\ r \in SUBSET B
          /\ Cardinality(r) = Cardinality(s) - 1
      BY <3>1, SubsetFacts
    <3> QED
      BY <3>1, <3>2
  <2>2. Sum(A \cup r) = Sum(A) + Sum(r)
    BY <2>1
  <2>3. /\ IsFiniteSet(A \cup s) /\ c \in A \cup s /\ (A \cup s) \ {c} = A \cup r
        /\ \A x \in A \cup s : f[x] \in Int
    BY <2>1, <1>1
  <2>4. Sum(A \cup s) = f[c] + Sum(A \cup r)
    BY <2>3, SumRemove
  <2>5. Sum(s) = f[c] + Sum(r)
    BY <2>1, SumFirst
  <2>6. f[c] \in Int /\ Sum(A) \in Int /\ Sum(r) \in Int
    BY <2>1, <1>1
  <2> HIDE DEF Sum, c, r
  <2> QED
    BY <2>2, <2>4, <2>5, <2>6
<1> HIDE DEF T
<1>4. T \subseteq Nat
  BY DEF T
<1>5. T = Nat
  BY <1>2, <1>3, <1>4, SetInduction
<1>6. Cardinality(B) \in T
  BY <1>5, FS_CardinalityType
<1> QED
  BY <1>6 DEF T

(* Sums over sequences of integers.  Their type, and that of their terms.  *)
LEMMA SeqSumType ==
    ASSUME NEW N, N \in {Nat, Int}, NEW s \in Seq(N)
    PROVE  /\ SumFunction(s) \in N
           /\ DOMAIN s = 1..Len(s) /\ Len(s) \in Nat /\ IsFiniteSet(DOMAIN s)
<1>1. DOMAIN s = 1..Len(s) /\ Len(s) \in Nat /\ \A i \in DOMAIN s : s[i] \in N
  OBVIOUS
<1>2. IsFiniteSet(DOMAIN s)
  BY <1>1, FS_Interval
<1> QED
  BY <1>1, <1>2, SumType DEF SumFunction

(* Two sequences that differ in one term at most.                          *)
DifferAt(s, t, k) == Len(t) = Len(s) /\ \A i \in 1..Len(s) : i # k => t[i] = s[i]

(* Changing one term changes the sum by the difference.                    *)
LEMMA SumChange ==
    ASSUME NEW s \in Seq(Int), NEW t \in Seq(Int), NEW k \in 1..Len(s), DifferAt(s, t, k)
    PROVE  SumFunction(t) = SumFunction(s) + t[k] - s[k]
<1> DEFINE D == 1..Len(s)
           R == D \ {k}
<1>1. DOMAIN s = D /\ DOMAIN t = D /\ IsFiniteSet(D) /\ IsFiniteSet(R) /\ k \in D
  BY SeqSumType, FS_Subset DEF DifferAt
<1>2. \A i \in D : s[i] \in Int /\ t[i] \in Int
  BY <1>1
<1> HIDE DEF D
<1>3. IsFiniteSet(D) /\ k \in D
  BY <1>1
<1>4. (\A i \in D : s[i] \in Int) /\ (\A i \in D : t[i] \in Int)
  BY <1>2
<1>5. SumFunctionOnSet(s, D) = s[k] + SumFunctionOnSet(s, R)
  <2> HIDE DEF R
  <2>1. SumFunctionOnSet(s, D) = s[k] + SumFunctionOnSet(s, D \ {k})
    BY ONLY <1>3, <1>4, SumRemove, ZenonT(60)
  <2> QED
    BY <2>1 DEF R
<1>6. SumFunctionOnSet(t, D) = t[k] + SumFunctionOnSet(t, R)
  <2> HIDE DEF R
  <2>1. SumFunctionOnSet(t, D) = t[k] + SumFunctionOnSet(t, D \ {k})
    BY ONLY <1>3, <1>4, SumRemove, ZenonT(60)
  <2> QED
    BY <2>1 DEF R
<1>7. SumFunctionOnSet(t, R) = SumFunctionOnSet(s, R)
  <2>1. \A i \in R : s[i] \in Int /\ t[i] = s[i]
    BY <1>2 DEF DifferAt, D
  <2> QED
    BY <1>1, <2>1, SumSame
<1>8. SumFunctionOnSet(s, R) \in Int /\ s[k] \in Int /\ t[k] \in Int
  BY <1>1, <1>2, SumType
<1> HIDE DEF R
<1> QED
  BY <1>1, <1>5, <1>6, <1>7, <1>8 DEF SumFunction

(* Adding a term.                                                          *)
LEMMA SumAppend ==
    ASSUME NEW s \in Seq(Int), NEW x \in Int
    PROVE  SumFunction(Append(s, x)) = SumFunction(s) + x
<1> DEFINE t == Append(s, x)
           n == Len(s)
<1>1. /\ t \in Seq(Int) /\ n \in Nat /\ DOMAIN s = 1..n /\ DOMAIN t = 1..(n + 1)
      /\ \A i \in 1..n : t[i] = s[i] /\ s[i] \in Int
      /\ t[n + 1] = x
  OBVIOUS
<1>2. IsFiniteSet(DOMAIN t) /\ IsFiniteSet(DOMAIN s)
  BY <1>1, SeqSumType
<1>3. n + 1 \in DOMAIN t /\ (DOMAIN t) \ {n + 1} = DOMAIN s /\ \A i \in DOMAIN t : t[i] \in Int
  BY <1>1
<1> HIDE DEF t, n
<1>4. SumFunctionOnSet(t, DOMAIN t) = t[n + 1] + SumFunctionOnSet(t, DOMAIN s)
  BY <1>2, <1>3, SumRemove
<1>5. SumFunctionOnSet(t, DOMAIN s) = SumFunctionOnSet(s, DOMAIN s)
  <2>1. \A i \in DOMAIN s : s[i] \in Int /\ t[i] = s[i]
    BY <1>1
  <2> QED
    BY <1>2, <2>1, SumSame
<1>6. SumFunctionOnSet(s, DOMAIN s) \in Int
  BY SeqSumType DEF SumFunction
<1>7. SumFunction(t) = SumFunction(s) + x
  BY <1>1, <1>4, <1>5, <1>6 DEF SumFunction
<1> QED
  BY <1>7 DEF t

(* The sum of a concatenation.                                             *)
LEMMA SumConcat ==
    ASSUME NEW s \in Seq(Int), NEW t \in Seq(Int)
    PROVE  SumFunction(s \o t) = SumFunction(s) + SumFunction(t)
<1> DEFINE u == s \o t
           n == Len(s)
           m == Len(t)
           B == (n + 1)..(n + m)
<1>1. /\ u \in Seq(Int) /\ n \in Nat /\ m \in Nat
      /\ DOMAIN s = 1..n /\ DOMAIN t = 1..m /\ DOMAIN u = 1..(n + m)
      /\ \A i \in 1..n : u[i] = s[i] /\ s[i] \in Int
      /\ \A i \in 1..m : u[n + i] = t[i] /\ t[i] \in Int
  OBVIOUS
<1>2. IsFiniteSet(1..n) /\ IsFiniteSet(1..m) /\ IsFiniteSet(B)
  BY <1>1, FS_Interval
<1>3. 1..(n + m) = (1..n) \cup B /\ (1..n) \cap B = {}
  BY <1>1
<1>4. \A i \in 1..(n + m) : u[i] \in Int
  BY <1>1
<1> HIDE DEF u, n, m
<1>5. SumFunctionOnSet(u, 1..(n + m)) = SumFunctionOnSet(u, 1..n) + SumFunctionOnSet(u, B)
  <2>1. \A i \in (1..n) \cup B : u[i] \in Int
    BY <1>3, <1>4
  <2>2. IsFiniteSet(1..n) /\ IsFiniteSet(B) /\ (1..n) \cap B = {}
    BY <1>2, <1>3
  <2> HIDE DEF B
  <2>3. SumFunctionOnSet(u, (1..n) \cup B) = SumFunctionOnSet(u, 1..n) + SumFunctionOnSet(u, B)
    BY ONLY <2>1, <2>2, SumSplit
  <2> QED
    BY <2>3, <1>3
<1>6. SumFunctionOnSet(u, 1..n) = SumFunctionOnSet(s, 1..n)
  BY <1>1, <1>2, SumSame
<1>7. SumFunctionOnSet(t, 1..m) = SumFunctionOnSet(u, B)
  <2> DEFINE p == [i \in 1..m |-> n + i]
  <2>1. /\ p \in [1..m -> B]
        /\ \A i, j \in 1..m : p[i] = p[j] => i = j
        /\ \A i \in 1..m : t[i] = u[p[i]]
    BY <1>1
  <2>2. ASSUME NEW x \in B PROVE \E i \in 1..m : p[i] = x
    <3>1. x - n \in 1..m /\ p[x - n] = x
      BY <1>1
    <3> QED
      BY <3>1
  <2>3. \A x \in B : u[x] \in Int
    BY <1>1, <1>4
  <2>4. \A x \in B : \E i \in 1..m : p[i] = x
    BY <2>2
  <2> DEFINE R == 1..m
  <2>5. /\ p \in [R -> B] /\ IsFiniteSet(R)
        /\ \A i, j \in R : p[i] = p[j] => i = j
        /\ \A i \in R : t[i] = u[p[i]]
        /\ \A x \in B : \E i \in R : p[i] = x
    BY <1>2, <2>1, <2>4
  <2> HIDE DEF p, B, R
  <2>6. SumFunctionOnSet(t, R) = SumFunctionOnSet(u, B)
    BY <1>2, <2>3, <2>5, SumReindex
  <2> QED
    BY <2>6 DEF R
<1> QED
  BY <1>1, <1>5, <1>6, <1>7 DEF SumFunction, u

(* A sum of ones counts the terms.                                         *)
LEMMA SumOnes ==
    ASSUME NEW s \in Seq(Int), \A i \in 1..Len(s) : s[i] = 1
    PROVE  SumFunction(s) = Len(s)
<1> DEFINE n == Len(s)
           T == {k \in Nat : k <= n => SumFunctionOnSet(s, 1..k) = k}
<1>1. n \in Nat /\ DOMAIN s = 1..n
  OBVIOUS
<1>2. 0 \in T
  <2>1. 1..0 = {}
    OBVIOUS
  <2> QED
    BY <2>1, SumEmpty
<1>3. ASSUME NEW k \in T PROVE k + 1 \in T
  <2> SUFFICES ASSUME k + 1 <= n
               PROVE  SumFunctionOnSet(s, 1..(k + 1)) = k + 1
    OBVIOUS
  <2>1. SumFunctionOnSet(s, 1..k) = k /\ k \in Nat
    BY <1>1
  <2> HIDE DEF T
  <2> HIDE DEF n
  <2>2. \A i \in 1..n : s[i] = 1
    BY DEF n
  <2>3. \A i \in 1..(k + 1) : i \in 1..n
    BY <1>1, <2>1
  <2>4. /\ IsFiniteSet(1..(k + 1)) /\ k + 1 \in 1..(k + 1)
        /\ (1..(k + 1)) \ {k + 1} = 1..k
        /\ \A i \in 1..(k + 1) : s[i] = 1
    <3>1. k + 1 \in 1..(k + 1) /\ (1..(k + 1)) \ {k + 1} = 1..k
      BY <2>1
    <3>2. IsFiniteSet(1..(k + 1))
      BY <2>1, FS_Interval
    <3>3. \A i \in 1..(k + 1) : s[i] = 1
      BY <2>2, <2>3
    <3> QED
      BY <3>1, <3>2, <3>3
  <2>5. SumFunctionOnSet(s, 1..(k + 1)) = s[k + 1] + SumFunctionOnSet(s, (1..(k + 1)) \ {k + 1})
    BY <2>4, SumRemove
  <2>6. s[k + 1] = 1 /\ SumFunctionOnSet(s, (1..(k + 1)) \ {k + 1}) = k
    BY <2>1, <2>4
  <2> QED
    BY <2>1, <2>5, <2>6
<1> HIDE DEF T
<1>4. T \subseteq Nat
  BY DEF T
<1>5. T = Nat
  BY <1>2, <1>3, <1>4, SetInduction
<1>6. n \in T
  BY <1>1, <1>5
<1> QED
  BY <1>1, <1>6 DEF T, SumFunction

(* What two finite sets cover has at most as many elements as they have.   *)
LEMMA UnionAtMost ==
    ASSUME NEW A, NEW B, NEW C, IsFiniteSet(A), IsFiniteSet(B), C \subseteq A \cup B
    PROVE  /\ Cardinality(C) <= Cardinality(A) + Cardinality(B) /\ IsFiniteSet(C)
           /\ Cardinality(A) \in Nat /\ Cardinality(B) \in Nat /\ Cardinality(C) \in Nat
<1>1. IsFiniteSet(A \cup B) /\ IsFiniteSet(A \cap B)
  BY FS_Union, FS_Intersection
<1>2. Cardinality(A \cup B) = Cardinality(A) + Cardinality(B) - Cardinality(A \cap B)
  BY FS_Union
<1>3. IsFiniteSet(C) /\ Cardinality(C) <= Cardinality(A \cup B)
  BY <1>1, FS_Subset
<1>4. /\ Cardinality(A) \in Nat /\ Cardinality(B) \in Nat /\ Cardinality(C) \in Nat
      /\ Cardinality(A \cap B) \in Nat /\ Cardinality(A \cup B) \in Nat
  BY <1>1, <1>3, FS_CardinalityType
<1> QED
  BY <1>2, <1>3, <1>4

(* A union of sets is no larger than the sum of bounds on their sizes.     *)
LEMMA UnionBound ==
    ASSUME NEW S, IsFiniteSet(S), NEW f, NEW R,
           \A x \in S : f[x] \in Nat /\ IsFiniteSet(R[x]) /\ Cardinality(R[x]) <= f[x]
    PROVE  LET U == UNION {R[x] : x \in S}
           IN  IsFiniteSet(U) /\ Cardinality(U) <= SumFunctionOnSet(f, S)
<1> DEFINE U(s) == UNION {R[x] : x \in s}
           T == {n \in Nat : \A s \in SUBSET S : Cardinality(s) = n =>
                    IsFiniteSet(U(s)) /\ Cardinality(U(s)) <= SumFunctionOnSet(f, s)}
<1>1. 0 \in T
  <2> SUFFICES ASSUME NEW s \in SUBSET S, Cardinality(s) = 0
               PROVE  IsFiniteSet(U(s)) /\ Cardinality(U(s)) <= SumFunctionOnSet(f, s)
    OBVIOUS
  <2>1. s = {}
    BY SubsetFacts
  <2>2. U(s) = {}
    BY <2>1
  <2> QED
    BY <2>1, <2>2, SumEmpty, FS_EmptySet
<1>2. ASSUME NEW n \in T PROVE n + 1 \in T
  <2> SUFFICES ASSUME NEW s \in SUBSET S, Cardinality(s) = n + 1
               PROVE  IsFiniteSet(U(s)) /\ Cardinality(U(s)) <= SumFunctionOnSet(f, s)
    OBVIOUS
  <2> DEFINE c == Chosen(s)
             r == s \ {c}
  <2>1. s # {} /\ c \in s /\ r \in SUBSET S /\ Cardinality(r) = n /\ IsFiniteSet(s)
    BY SubsetFacts
  <2>2. SumFunctionOnSet(f, s) = f[c] + SumFunctionOnSet(f, r)
    BY <2>1, SumFirst
  <2>3. IsFiniteSet(U(r)) /\ Cardinality(U(r)) <= SumFunctionOnSet(f, r)
    BY <2>1
  <2>4. U(s) = U(r) \cup R[c]
    BY <2>1
  <2>5. f[c] \in Nat /\ IsFiniteSet(R[c]) /\ Cardinality(R[c]) <= f[c]
    BY <2>1
  <2>6. SumFunctionOnSet(f, r) \in Nat
    <3>1. IsFiniteSet(r) /\ \A x \in r : f[x] \in Nat
      BY <2>1, FS_Subset
    <3> HIDE DEF r
    <3> QED
      BY <3>1, SumType
  <2> HIDE DEF c, r, U, T
  <2>7. /\ IsFiniteSet(U(r) \cup R[c])
        /\ Cardinality(U(r) \cup R[c]) =
                Cardinality(U(r)) + Cardinality(R[c]) - Cardinality(U(r) \cap R[c])
        /\ Cardinality(U(r)) \in Nat /\ Cardinality(R[c]) \in Nat
    BY <2>3, <2>5, FS_Union, FS_CardinalityType
  <2>8. Cardinality(U(r) \cap R[c]) \in Nat
    BY <2>3, FS_Subset, FS_CardinalityType
  <2> QED
    BY <2>2, <2>3, <2>4, <2>5, <2>6, <2>7, <2>8
<1> HIDE DEF T
<1>3. T \subseteq Nat
  BY DEF T
<1>4. T = Nat
  BY <1>1, <1>2, <1>3, SetInduction
<1>5. Cardinality(S) \in T
  BY <1>4, FS_CardinalityType
<1> QED
  BY <1>5 DEF T

-----------------------------------------------------------------------------
(* What h takes on 1..n is no more than n values.                          *)
LEMMA ImageBound ==
    ASSUME NEW n \in Nat, NEW h
    PROVE  /\ IsFiniteSet({h[i] : i \in 1..n})
           /\ Cardinality({h[i] : i \in 1..n}) <= n
           /\ Cardinality({h[i] : i \in 1..n}) \in Nat
<1> DEFINE V == {h[i] : i \in 1..n}
           k == [i \in 1..n |-> h[i]]
<1>1. k \in Surjection(1..n, V)
  BY DEF Surjection
<1>2. IsFiniteSet(1..n) /\ Cardinality(1..n) = n
  BY FS_Interval
<1>3. IsFiniteSet(V) /\ Cardinality(V) <= n
  BY <1>1, <1>2, FS_Surjection
<1> QED
  BY <1>3, FS_CardinalityType

(* Recursion over 1..n: the values of f start at a, and each index takes   *)
(* a step.                                                                 *)
StepsWithin(n, V, step) == \A i \in 1..n : \A v \in V : step[<<i, v>>] \in V
(* f[i] is what i steps make of a.                                         *)
Iterates(n, V, a, step, f) ==
    /\ f \in [0..n -> V] /\ f[0] = a
    /\ \A i \in 1..n : f[i] = step[<<i, f[i - 1]>>]

(* There is such a function.                                               *)
LEMMA IterationExists ==
    ASSUME NEW n \in Nat, NEW V, NEW a \in V, NEW step, StepsWithin(n, V, step)
    PROVE  \E f : Iterates(n, V, a, step, f)
<1> USE DEF StepsWithin
<1> DEFINE P(m, f) == f[0] = a /\ \A i \in 1..m : f[i] = step[<<i, f[i - 1]>>]
           T == {m \in Nat : m <= n => \E f \in [0..m -> V] : P(m, f)}
<1>1. 0 \in T
  <2> DEFINE f == [i \in 0..0 |-> a]
  <2>1. f \in [0..0 -> V] /\ P(0, f)
    OBVIOUS
  <2> QED
    BY <2>1
<1>2. ASSUME NEW m \in T PROVE m + 1 \in T
  <2> SUFFICES ASSUME m + 1 <= n PROVE \E f \in [0..(m + 1) -> V] : P(m + 1, f)
    OBVIOUS
  <2>1. PICK f \in [0..m -> V] : P(m, f)
    OBVIOUS
  <2> DEFINE next == step[<<m + 1, f[m]>>]
             g == [i \in 0..(m + 1) |-> IF i <= m THEN f[i] ELSE next]
  <2>2. next \in V
    <3>1. m + 1 \in 1..n /\ f[m] \in V
      OBVIOUS
    <3> QED
      BY <3>1
  <2>3. g \in [0..(m + 1) -> V] /\ g[m + 1] = next /\ \A i \in 0..m : g[i] = f[i]
    BY <2>2
  <2>4. ASSUME NEW i \in 1..(m + 1) PROVE g[i] = step[<<i, g[i - 1]>>]
    <3> HIDE DEF g
    <3>1. CASE i = m + 1
      <4>1. g[i - 1] = f[m]
        BY <3>1, <2>3
      <4> QED
        BY <4>1, <3>1, <2>3
    <3>2. CASE i # m + 1
      <4>1. i \in 1..m /\ g[i] = f[i] /\ g[i - 1] = f[i - 1]
        BY <3>2, <2>3
      <4> QED
        BY <4>1, <2>1
    <3> QED
      BY <3>1, <3>2
  <2>5. g[0] = a
    BY <2>1, <2>3
  <2> HIDE DEF g
  <2> QED
    BY <2>3, <2>4, <2>5
<1> HIDE DEF T
<1>3. T \subseteq Nat
  BY DEF T
<1>4. T = Nat
  BY <1>1, <1>2, <1>3, SetInduction
<1>5. n \in T
  BY <1>4
<1>6. PICK f \in [0..n -> V] : P(n, f)
  BY <1>5 DEF T
<1> QED
  BY <1>6 DEF Iterates

(* Induction along an index: a set that holds 0, and every successor up to *)
(* n, holds 0..n.                                                          *)
LEMMA IndexInduction ==
    ASSUME NEW n \in Nat, NEW T, 0 \in T, \A i \in 1..n : i - 1 \in T => i \in T
    PROVE  0..n \subseteq T
<1> DEFINE W == {i \in Nat : i <= n => i \in T}
<1>1. 0 \in W
  OBVIOUS
<1>2. ASSUME NEW i \in W PROVE i + 1 \in W
  <2>1. CASE i + 1 <= n
    <3>1. i + 1 \in 1..n /\ (i + 1) - 1 \in T
      BY <2>1
    <3> QED
      BY <3>1
  <2>2. CASE ~(i + 1 <= n)
    BY <2>2
  <2> QED
    BY <2>1, <2>2
<1> HIDE DEF W
<1>3. W \subseteq Nat
  BY DEF W
<1>4. W = Nat
  BY <1>1, <1>2, <1>3, SetInduction
<1> QED
  BY <1>4 DEF W

-----------------------------------------------------------------------------
(* A function on the indices of a sequence is a sequence.                  *)
LEMMA SameIndices ==
    ASSUME NEW S, NEW s \in Seq(S), NEW R, NEW g \in [DOMAIN s -> R]
    PROVE  g \in Seq(R) /\ DOMAIN g = DOMAIN s
<1>1. DOMAIN s = 1..Len(s) /\ Len(s) \in Nat
  OBVIOUS
<1>2. g \in [1..Len(s) -> R]
  BY <1>1
<1> QED
  BY <1>1, <1>2, IsASeq

(* Sequence u is s followed by t, element by element.                      *)
Joins(u, s, t) ==
    /\ Len(u) = Len(s) + Len(t)
    /\ \A i \in 1..Len(s) : u[i] = s[i]
    /\ \A i \in 1..Len(t) : u[Len(s) + i] = t[i]

(* It is then their concatenation, and the concatenation is it.            *)
LEMMA ConcatJoins ==
    ASSUME NEW S, NEW s \in Seq(S), NEW t \in Seq(S)
    PROVE  s \o t \in Seq(S) /\ Joins(s \o t, s, t)
BY DEF Joins

(* What joins two sequences is their concatenation.                        *)
LEMMA JoinIsConcat ==
    ASSUME NEW S, NEW s \in Seq(S), NEW t \in Seq(S), NEW u \in Seq(S), Joins(u, s, t)
    PROVE  u = s \o t
<1> DEFINE v == s \o t
           n == Len(s)
           m == Len(t)
<1>1. v \in Seq(S) /\ Joins(v, s, t) /\ n \in Nat /\ m \in Nat
  BY ConcatJoins
<1> HIDE DEF v, n, m
<1>2. Len(u) = n + m /\ Len(v) = n + m
  BY <1>1 DEF Joins, n, m
<1>3. ASSUME NEW i \in 1..(n + m) PROVE u[i] = v[i]
  <2>1. CASE i \in 1..n
    BY <1>1, <2>1 DEF Joins, n
  <2>2. CASE i \notin 1..n
    <3> DEFINE j == i - n
    <3>1. j \in 1..m /\ n + j = i
      BY <1>1, <2>2
    <3> HIDE DEF j
    <3>2. u[n + j] = t[j] /\ v[n + j] = t[j]
      BY <1>1, <3>1 DEF Joins, n, m
    <3> QED
      BY <3>1, <3>2
  <2> QED
    BY <2>1, <2>2
<1>4. u = v
  BY <1>1, <1>2, <1>3
<1> QED
  BY <1>4 DEF v

(* The elements of sequences built from others.                            *)
LEMMA ToSetAppend ==
    ASSUME NEW S, NEW s \in Seq(S), NEW x \in S
    PROVE  /\ Append(s, x) \in Seq(S) /\ Len(Append(s, x)) = Len(s) + 1
           /\ ToSet(Append(s, x)) = ToSet(s) \cup {x}
<1>1. Append(s, x) \in Seq(S) /\ Len(Append(s, x)) = Len(s) + 1
  OBVIOUS
<1>2. \A i \in 1..Len(s) : Append(s, x)[i] = s[i]
  OBVIOUS
<1>3. Append(s, x)[Len(s) + 1] = x
  OBVIOUS
<1>4. 1..(Len(s) + 1) = (1..Len(s)) \cup {Len(s) + 1}
  OBVIOUS
<1>5. ToSet(Append(s, x)) = {Append(s, x)[i] : i \in (1..Len(s)) \cup {Len(s) + 1}}
  BY <1>1, <1>4 DEF ToSet
<1> QED
  BY <1>1, <1>2, <1>3, <1>5 DEF ToSet

(* The elements of a concatenation are those of its parts.                 *)
LEMMA ToSetConcat ==
    ASSUME NEW S, NEW s \in Seq(S), NEW t \in Seq(S)
    PROVE  ToSet(s \o t) = ToSet(s) \cup ToSet(t)
<1>1. s \o t \in Seq(S) /\ Len(s \o t) = Len(s) + Len(t)
  OBVIOUS
<1>2. \A i \in 1..Len(s) : (s \o t)[i] = s[i]
  OBVIOUS
<1>3. \A i \in 1..Len(t) : (s \o t)[Len(s) + i] = t[i]
  OBVIOUS
<1>4. ASSUME NEW i \in 1..(Len(s) + Len(t))
      PROVE  i \in 1..Len(s) \/ \E j \in 1..Len(t) : i = Len(s) + j
  <2>1. i > Len(s) => i - Len(s) \in 1..Len(t) /\ i = Len(s) + (i - Len(s))
    OBVIOUS
  <2> QED
    BY <2>1
<1>5. ToSet(s \o t) \subseteq ToSet(s) \cup ToSet(t)
  BY <1>1, <1>2, <1>3, <1>4 DEF ToSet
<1>6. ToSet(s) \subseteq ToSet(s \o t)
  BY <1>1, <1>2 DEF ToSet
<1>7. ToSet(t) \subseteq ToSet(s \o t)
  <2> SUFFICES ASSUME NEW j \in 1..Len(t) PROVE t[j] \in ToSet(s \o t)
    BY DEF ToSet
  <2>1. Len(s) + j \in DOMAIN (s \o t)
    BY <1>1
  <2> QED
    BY <1>3, <2>1 DEF ToSet
<1> QED
  BY <1>5, <1>6, <1>7

(* f[i] joins the first i of the sequences of ss.                          *)
Accumulates(S, ss, f) ==
    /\ f \in [0..Len(ss) -> Seq(S)]
    /\ \A i \in 1..Len(ss) : f[i] = f[i - 1] \o ss[i]

(* What FlattenSeq of SequencesExt computes: the last of these.            *)
LEMMA FlattenSteps ==
    ASSUME NEW S, NEW ss \in Seq(Seq(S))
    PROVE  \E f : Accumulates(S, ss, f) /\ f[0] = << >> /\ FlattenSeq(ss) = f[Len(ss)]
<1> DEFINE n == Len(ss)
           step == [p \in (1..n) \X Seq(S) |-> p[2] \o ss[p[1]]]
<1>1. n \in Nat /\ DOMAIN ss = 1..n /\ \A i \in 1..n : ss[i] \in Seq(S)
  OBVIOUS
<1> HIDE DEF n
<1>2. StepsWithin(n, Seq(S), step)
  <2> SUFFICES ASSUME NEW i \in 1..n, NEW v \in Seq(S) PROVE step[<<i, v>>] \in Seq(S)
    BY DEF StepsWithin
  <2>1. ss[i] \in Seq(S) /\ step[<<i, v>>] = v \o ss[i]
    BY <1>1
  <2> QED
    BY <2>1
<1>3. PICK f : Iterates(n, Seq(S), << >>, step, f)
  <2>1. << >> \in Seq(S)
    OBVIOUS
  <2> HIDE DEF step
  <2> QED
    BY <1>1, <1>2, <2>1, IterationExists
<1>4. ASSUME NEW i \in 1..n
      PROVE  f[i - 1] \in Seq(S) /\ f[i] = f[i - 1] \o ss[i]
  <2>1. i - 1 \in 0..n
    BY <1>1
  <2>2. f[i - 1] \in Seq(S) /\ f[i] = step[<<i, f[i - 1]>>]
    BY <2>1, <1>3 DEF Iterates
  <2>3. <<i, f[i - 1]>> \in (1..n) \X Seq(S)
    BY <2>2
  <2> QED
    BY <2>2, <2>3
<1>5. Accumulates(S, ss, f) /\ f[0] = << >>
  BY <1>3, <1>4 DEF Accumulates, Iterates, n
<1>6. FlattenSeq(ss) = f[n]
  <2>1. CASE n = 0
    <3>1. FlattenSeq(ss) = << >>
      BY <2>1 DEF FlattenSeq, n
    <3> QED
      BY <3>1, <2>1, <1>5
  <2>2. CASE n # 0
    <3> DEFINE Eq(h) == h = [i \in 1..n |-> IF i = 1 THEN ss[i] ELSE h[i - 1] \o ss[i]]
               g == [i \in 1..n |-> f[i]]
    <3>1. Eq(g)
      <4>1. f[1] = ss[1]
        <5>1. 1 \in 1..n /\ 1 - 1 = 0
          BY <1>1, <2>2
        <5>2. f[1] = f[0] \o ss[1] /\ ss[1] \in Seq(S) /\ f[0] = << >>
          BY <1>1, <1>4, <1>5, <5>1
        <5> QED
          BY <5>2
      <4>2. ASSUME NEW i \in 1..n, i # 1
            PROVE  i - 1 \in 1..n /\ f[i] = f[i - 1] \o ss[i]
        <5>1. i - 1 \in 1..n
          BY <1>1, <4>2
        <5> QED
          BY <1>4, <5>1
      <4>3. \A i \in 1..n : g[i] = IF i = 1 THEN ss[i] ELSE g[i - 1] \o ss[i]
        BY <4>1, <4>2
      <4> QED
        BY <4>3
    <3>2. PICK h : h = (CHOOSE k : Eq(k)) /\ Eq(h)
      BY <3>1
    <3>3. FlattenSeq(ss) = h[n]
      BY <2>2, <3>2 DEF FlattenSeq, n
    <3>4. \A i \in 1..n : h[i] = IF i = 1 THEN ss[i] ELSE h[i - 1] \o ss[i]
      BY <3>2
    <3>5. \A i \in 1..n : g[i] = IF i = 1 THEN ss[i] ELSE g[i - 1] \o ss[i]
      BY <3>1
    <3>6. g[n] = f[n]
      BY <1>1, <2>2
    <3> HIDE DEF Eq, g
    <3> DEFINE T == {i \in 0..n : i # 0 => h[i] = g[i]}
    <3>7. \A i \in 1..n : i - 1 \in T => i \in T
      BY <3>4, <3>5, <1>1
    <3>8. 0 \in T
      BY <1>1
    <3> HIDE DEF T
    <3>9. 0..n \subseteq T
      BY <1>1, <3>7, <3>8, IndexInduction
    <3>10. n \in T
      BY <1>1, <3>9
    <3> QED
      BY <3>3, <3>6, <3>10, <2>2 DEF T
  <2> QED
    BY <2>1, <2>2
<1> QED
  BY <1>5, <1>6 DEF n

(* Joining from any start.                                                 *)
LEMMA FlattenFrom ==
    ASSUME NEW S, NEW ss \in Seq(Seq(S)), NEW h, Accumulates(S, ss, h)
    PROVE  FlattenSeq(ss) \in Seq(S) /\ h[Len(ss)] = h[0] \o FlattenSeq(ss)
<1> DEFINE n == Len(ss)
<1>1. PICK f : Accumulates(S, ss, f) /\ f[0] = << >> /\ FlattenSeq(ss) = f[n]
  BY FlattenSteps
<1>2. n \in Nat /\ \A i \in 1..n : ss[i] \in Seq(S)
  OBVIOUS
<1> HIDE DEF n
<1>3. /\ f \in [0..n -> Seq(S)] /\ h \in [0..n -> Seq(S)]
      /\ \A i \in 1..n : f[i] = f[i - 1] \o ss[i] /\ h[i] = h[i - 1] \o ss[i]
  BY <1>1 DEF Accumulates, n
<1> DEFINE T == {i \in 0..n : h[i] = h[0] \o f[i]}
<1>4. 0 \in T
  <2>1. h[0] \in Seq(S) /\ 0 \in 0..n
    BY <1>2, <1>3
  <2>2. h[0] \o << >> = h[0]
    BY <2>1
  <2> QED
    BY <2>1, <2>2, <1>1
<1>5. ASSUME NEW i \in 1..n, i - 1 \in T PROVE i \in T
  <2> DEFINE a == h[0]
             b == f[i - 1]
             c == ss[i]
  <2>1. a \in Seq(S) /\ b \in Seq(S) /\ c \in Seq(S)
    BY <1>2, <1>3
  <2>2. h[i] = (a \o b) \o c /\ f[i] = b \o c
    BY <1>3, <1>5
  <2> HIDE DEF a, b, c
  <2>3. (a \o b) \o c = a \o (b \o c)
    BY <2>1
  <2>4. i \in 0..n
    BY <1>2
  <2> QED
    BY <2>2, <2>3, <2>4 DEF a
<1>6. n \in T
  <2> HIDE DEF T
  <2>1. 0..n \subseteq T
    BY <1>2, <1>4, <1>5, IndexInduction
  <2> QED
    BY <2>1, <1>2
<1>7. f[n] \in Seq(S)
  BY <1>2, <1>3
<1> QED
  BY <1>1, <1>6, <1>7 DEF n

(* The elements of the result are those of all the sequences.              *)
LEMMA FlattenFacts ==
    ASSUME NEW S, NEW ss \in Seq(Seq(S))
    PROVE  /\ FlattenSeq(ss) \in Seq(S)
           /\ ToSet(FlattenSeq(ss)) = UNION {ToSet(ss[i]) : i \in DOMAIN ss}
<1> DEFINE n == Len(ss)
           U(i) == UNION {ToSet(ss[j]) : j \in 1..i}
<1>1. PICK f : Accumulates(S, ss, f) /\ f[0] = << >> /\ FlattenSeq(ss) = f[n]
  BY FlattenSteps
<1>2. n \in Nat /\ DOMAIN ss = 1..n /\ \A i \in 1..n : ss[i] \in Seq(S)
  OBVIOUS
<1> HIDE DEF n
<1>3. f \in [0..n -> Seq(S)] /\ \A i \in 1..n : f[i] = f[i - 1] \o ss[i]
  BY <1>1 DEF Accumulates, n
<1> DEFINE T == {i \in 0..n : ToSet(f[i]) = U(i)}
<1>4. 0 \in T
  <2>1. ToSet(<< >>) = {}
    BY DEF ToSet
  <2>2. U(0) = {}
    OBVIOUS
  <2> QED
    BY <2>1, <2>2, <1>1, <1>2
<1>5. ASSUME NEW i \in 1..n, i - 1 \in T PROVE i \in T
  <2>1. f[i - 1] \in Seq(S) /\ ss[i] \in Seq(S) /\ f[i] = f[i - 1] \o ss[i]
    BY <1>2, <1>3
  <2>2. ToSet(f[i]) = ToSet(f[i - 1]) \cup ToSet(ss[i])
    BY <2>1, ToSetConcat
  <2>3. U(i) = U(i - 1) \cup ToSet(ss[i])
    <3>1. 1..i = (1..(i - 1)) \cup {i}
      BY <1>2
    <3> QED
      BY <3>1
  <2> HIDE DEF U
  <2>4. ToSet(f[i - 1]) = U(i - 1)
    BY <1>5
  <2>5. ToSet(f[i]) = U(i) /\ i \in 0..n
    BY <1>2, <2>2, <2>3, <2>4
  <2> QED
    BY <2>5
<1>6. n \in T
  <2> HIDE DEF T
  <2>1. 0..n \subseteq T
    BY <1>2, <1>4, <1>5, IndexInduction
  <2> QED
    BY <2>1, <1>2
<1>7. f[n] \in Seq(S)
  BY <1>2, <1>3
<1> QED
  BY <1>1, <1>2, <1>6, <1>7

(* A sequence is a prefix and a rest.                                      *)
LEMMA SplitFacts ==
    ASSUME NEW S, NEW s \in Seq(S), NEW k \in 0..Len(s)
    PROVE  /\ SubSeq(s, 1, k) \in Seq(S) /\ Len(SubSeq(s, 1, k)) = k
           /\ SubSeq(s, k + 1, Len(s)) \in Seq(S)
           /\ Len(SubSeq(s, k + 1, Len(s))) = Len(s) - k
           /\ ToSet(s) = ToSet(SubSeq(s, 1, k)) \cup ToSet(SubSeq(s, k + 1, Len(s)))
<1> DEFINE p == SubSeq(s, 1, k)
           q == SubSeq(s, k + 1, Len(s))
<1>1. p \in Seq(S) /\ Len(p) = k /\ q \in Seq(S) /\ Len(q) = Len(s) - k
  OBVIOUS
<1>2. s = p \o q
  <2>1. p \o q \in Seq(S) /\ Len(p \o q) = Len(s)
    <3> HIDE DEF p, q
    <3>1. p \o q \in Seq(S) /\ Len(p \o q) = Len(p) + Len(q)
      BY <1>1
    <3>2. Len(s) \in Nat
      OBVIOUS
    <3> QED
      BY <1>1, <3>1, <3>2
  <2>2. ASSUME NEW i \in 1..Len(s) PROVE (p \o q)[i] = s[i]
    <3>1. CASE i <= k
      <4>1. p[i] = s[i]
        BY <3>1
      <4> HIDE DEF p, q
      <4> QED
        BY <1>1, <3>1, <4>1
    <3>2. CASE i > k
      <4>1. q[i - k] = s[i]
        BY <3>2
      <4> HIDE DEF p, q
      <4> QED
        BY <1>1, <3>2, <4>1
    <3>3. i <= k \/ i > k
      OBVIOUS
    <3> HIDE DEF p, q
    <3> QED
      BY <3>1, <3>2, <3>3
  <2> HIDE DEF p, q
  <2> QED
    BY <2>1, <2>2, SeqEqual
<1>3. ToSet(p \o q) = ToSet(p) \cup ToSet(q)
  <2> HIDE DEF p, q
  <2> QED
    BY <1>1, ToSetConcat
<1> QED
  BY <1>1, <1>2, <1>3

(* RemoveAt takes out one element.                                         *)
LEMMA RemoveAtFacts ==
    ASSUME NEW S, NEW s \in Seq(S), NEW k \in 1..Len(s)
    PROVE  /\ RemoveAt(s, k) \in Seq(S) /\ Len(RemoveAt(s, k)) = Len(s) - 1
           /\ ToSet(s) = ToSet(RemoveAt(s, k)) \cup {s[k]}
<1> DEFINE p == SubSeq(s, 1, k - 1)
           q == SubSeq(s, k + 1, Len(s))
<1>1. p \in Seq(S) /\ Len(p) = k - 1 /\ q \in Seq(S) /\ Len(q) = Len(s) - k
  OBVIOUS
<1>2. RemoveAt(s, k) = p \o q
  BY DEF RemoveAt
<1>3. p \o q \in Seq(S) /\ Len(p \o q) = Len(s) - 1
  <2> HIDE DEF p, q
  <2>1. p \o q \in Seq(S) /\ Len(p \o q) = Len(p) + Len(q)
    BY <1>1
  <2>2. Len(s) \in Nat
    OBVIOUS
  <2> QED
    BY <1>1, <2>1, <2>2
<1>4. ToSet(p \o q) = ToSet(p) \cup ToSet(q)
  <2> HIDE DEF p, q
  <2> QED
    BY <1>1, ToSetConcat
<1>5. k - 1 \in 0..Len(s) /\ k \in 0..Len(s) /\ s[k] \in S
  OBVIOUS
<1>6. SubSeq(s, 1, k) = Append(p, s[k])
  OBVIOUS
<1>7. ToSet(SubSeq(s, 1, k)) = ToSet(p) \cup {s[k]}
  BY <1>1, <1>5, <1>6, ToSetAppend
<1>8. ToSet(s) = ToSet(SubSeq(s, 1, k)) \cup ToSet(q)
  BY <1>5, SplitFacts
<1> QED
  BY <1>2, <1>3, <1>4, <1>7, <1>8
=============================================================================
