---------------------------- MODULE FiniteProofs ----------------------------
(***************************************************************************)
(* What several proofs need to know of finite sets: the sums of Sums may   *)
(* be taken in any order and change by what one of their terms changes;    *)
(* the order of FlowRank is a total one, so that a finite set of flows can *)
(* be listed best first.                                                   *)
(*                                                                         *)
(* The library's induction theorems take an operator, which the provers    *)
(* cannot instantiate, so induction is stated here over a set: the set Q   *)
(* of the values for which a claim holds is all of them.                   *)
(***************************************************************************)
EXTENDS Sums, FlowRank, FiniteSetTheorems, SequenceTheorems, WellFoundedInduction, TLAPS

\* Every non-empty set of natural numbers has a least element.
LEMMA LeastNatural ==
    ASSUME NEW T, T \subseteq Nat, T # {}
    PROVE  \E x \in T : \A y \in T : x <= y
<1> DEFINE R == OpToRel(<, Nat)
<1>1. IsWellFoundedOn(R, Nat)
  BY NatLessThanWellFounded
<1>2. \A x, y \in Nat : y < x => <<y, x>> \in R
  BY DEF OpToRel
<1> HIDE DEF R
<1>3. PICK x \in T : \A y \in T : ~ (<<y, x>> \in R)
  BY <1>1, WFMin
<1>4. ASSUME NEW y \in T PROVE x <= y
  <2>1. x \in Nat /\ y \in Nat
    OBVIOUS
  <2>2. ~(y < x)
    BY <2>1, <1>2, <1>3
  <2> QED BY <2>1, <2>2
<1> QED BY <1>4

\* Induction over the subsets of a finite set, with a set in place of a predicate.
LEMMA SubsetInduction ==
    ASSUME NEW S, IsFiniteSet(S), NEW Q,
           \A s \in SUBSET S : (\A x \in s : s \ {x} \in Q) => s \in Q
    PROVE  \A s \in SUBSET S : s \in Q
<1> SUFFICES ASSUME NEW u \in SUBSET S, u \notin Q PROVE FALSE
  OBVIOUS
<1> DEFINE Bad == {s \in SUBSET S : s \notin Q}
           T == {Cardinality(s) : s \in Bad}
<1>1. \A s \in SUBSET S : IsFiniteSet(s) /\ Cardinality(s) \in Nat
  BY FS_Subset, FS_CardinalityType
<1>2. T \subseteq Nat /\ T # {}
  BY <1>1
<1>3. PICK c \in T : \A y \in T : c <= y
  BY <1>2, LeastNatural
<1>4. PICK s \in Bad : c = Cardinality(s)
  OBVIOUS
<1>5. ASSUME NEW x \in s PROVE s \ {x} \in Q
  <2>1. s \ {x} \in SUBSET S
    OBVIOUS
  <2>2. Cardinality(s \ {x}) = c - 1
    BY <1>1, <1>4, FS_RemoveElement
  <2>3. c \in Nat
    BY <1>1, <1>4
  <2>4. s \ {x} \notin Bad
    BY <1>3, <2>2, <2>3
  <2> QED BY <2>1, <2>4
<1> QED BY <1>5

\* Induction over the natural numbers, with a set in place of a predicate.
LEMMA NatSetInduction ==
    ASSUME NEW Q, 0 \in Q, \A m \in Nat : m \in Q => m + 1 \in Q
    PROVE  \A m \in Nat : m \in Q
<1> SUFFICES ASSUME NEW u \in Nat, u \notin Q PROVE FALSE
  OBVIOUS
<1> DEFINE T == {m \in Nat : m \notin Q}
<1>1. PICK c \in T : \A y \in T : c <= y
  <2>1. T \subseteq Nat /\ T # {}
    OBVIOUS
  <2> HIDE DEF T
  <2> QED BY <2>1, LeastNatural
<1>2. c - 1 \in Nat /\ c - 1 \notin T
  BY <1>1
<1>3. c - 1 + 1 \in Q
  BY <1>2
<1> QED BY <1>3

-----------------------------------------------------------------------------
\* The element that the sum of s takes first, and the recursion equation of the sums.
Pick(s) == CHOOSE x \in s : TRUE
Eqn(f, D, h) ==
    h = [s \in D |-> IF s = {} THEN 0 ELSE f[Pick(s)] + h[s \ {Pick(s)}]]

\* The element taken first is one of s.
LEMMA PickIn == ASSUME NEW s, s # {} PROVE Pick(s) \in s
BY DEF Pick

\* The recursion equation has a solution over the subsets of a finite set: it is built
\* for the subsets of at most c elements, c = 0, 1, 2 ...
LEMMA SumsExist ==
    ASSUME NEW f, NEW S, IsFiniteSet(S)
    PROVE  \E h : Eqn(f, SUBSET S, h)
<1> DEFINE L(c) == {s \in SUBSET S : Cardinality(s) <= c}
           Q == {c \in Nat : \E h : Eqn(f, L(c), h)}
<1>1. \A s \in SUBSET S : IsFiniteSet(s) /\ Cardinality(s) \in Nat
  BY FS_Subset, FS_CardinalityType
<1>2. 0 \in Q
  <2> DEFINE h == [s \in L(0) |-> 0]
  <2>1. \A s \in L(0) : s = {}
    BY <1>1, FS_EmptySet
  <2>2. Eqn(f, L(0), h)
    BY <2>1 DEF Eqn
  <2> QED BY <2>2
<1>3. ASSUME NEW c \in Nat, c \in Q PROVE c + 1 \in Q
  <2>1. PICK h : Eqn(f, L(c), h)
    BY <1>3
  <2> DEFINE g == [s \in L(c + 1) |-> IF s = {} THEN 0 ELSE f[Pick(s)] + h[s \ {Pick(s)}]]
  <2>2. ASSUME NEW s \in L(c + 1), s # {} PROVE h[s \ {Pick(s)}] = g[s \ {Pick(s)}]
    <3> DEFINE t == s \ {Pick(s)}
    <3>1. Cardinality(t) = Cardinality(s) - 1
      BY <1>1, <2>2, PickIn, FS_RemoveElement
    <3>2. t \in L(c) /\ t \in L(c + 1)
      BY <1>1, <3>1
    <3> QED BY <2>1, <3>2 DEF Eqn
  <2>3. Eqn(f, L(c + 1), g)
    BY <2>2 DEF Eqn
  <2>4. \E k : Eqn(f, L(c + 1), k)
    <3> HIDE DEF g, L
    <3> QED BY <2>3
  <2> HIDE DEF g, L
  <2> QED BY <2>4
<1>4. \A c \in Nat : c \in Q
  <2> HIDE DEF Q
  <2> QED BY <1>2, <1>3, NatSetInduction
<1>5. Cardinality(S) \in Nat
  BY FS_CardinalityType
<1>6. L(Cardinality(S)) = SUBSET S
  BY FS_Subset
<1> QED BY <1>4, <1>5, <1>6

\* TotalOver is that solution, so the recursion of the library's fold may be used.
LEMMA TotalIsSum ==
    ASSUME NEW f, NEW S, IsFiniteSet(S)
    PROVE  \E h : Eqn(f, SUBSET S, h) /\ TotalOver(f, S) = h[S]
<1> DEFINE g == CHOOSE h : Eqn(f, SUBSET S, h)
<1>1. Eqn(f, SUBSET S, g)
  BY SumsExist
<1>2. TotalOver(f, S) = g[S]
  BY Zenon DEF TotalOver, MapThenSumSet, MapThenFoldSet, Eqn, Pick
<1> HIDE DEF g
<1> QED BY <1>1, <1>2

\* The sums of two functions that agree on s are the same.
LEMMA SumsAgree ==
    ASSUME NEW f, NEW g, NEW S, NEW T, NEW h, NEW k,
           Eqn(f, SUBSET S, h), Eqn(g, SUBSET T, k),
           NEW u \in SUBSET S, u \in SUBSET T, IsFiniteSet(u),
           \A x \in u : f[x] = g[x]
    PROVE  h[u] = k[u]
<1> DEFINE Q == {s \in SUBSET u : h[s] = k[s]}
<1>1. ASSUME NEW s \in SUBSET u, \A x \in s : s \ {x} \in Q PROVE s \in Q
  <2>1. s \in SUBSET S /\ s \in SUBSET T
    OBVIOUS
  <2>2. CASE s = {}
    BY <2>1, <2>2 DEF Eqn
  <2>3. CASE s # {}
    <3>1. Pick(s) \in s
      BY <2>3, PickIn
    <3>2. h[s \ {Pick(s)}] = k[s \ {Pick(s)}]
      BY <3>1, <1>1
    <3>3. f[Pick(s)] = g[Pick(s)]
      BY <3>1
    <3>4. h[s] = f[Pick(s)] + h[s \ {Pick(s)}]
      BY <2>1, <2>3 DEF Eqn
    <3>5. k[s] = g[Pick(s)] + k[s \ {Pick(s)}]
      BY <2>1, <2>3 DEF Eqn
    <3> QED BY <3>2, <3>3, <3>4, <3>5
  <2> QED BY <2>2, <2>3
<1>2. \A s \in SUBSET u : s \in Q
  <2> HIDE DEF Q
  <2> QED BY <1>1, SubsetInduction
<1> QED BY <1>2

\* A sum of integers is an integer.
LEMMA SumsInt ==
    ASSUME NEW f, NEW S, IsFiniteSet(S), NEW h, Eqn(f, SUBSET S, h),
           \A x \in S : f[x] \in Int
    PROVE  \A s \in SUBSET S : h[s] \in Int
<1> DEFINE Q == {s \in SUBSET S : h[s] \in Int}
<1>1. ASSUME NEW s \in SUBSET S, \A x \in s : s \ {x} \in Q PROVE s \in Q
  <2>1. CASE s = {}
    BY <2>1 DEF Eqn
  <2>2. CASE s # {}
    <3>1. Pick(s) \in s
      BY <2>2, PickIn
    <3>2. h[s] = f[Pick(s)] + h[s \ {Pick(s)}]
      BY <2>2 DEF Eqn
    <3> QED BY <3>1, <3>2, <1>1
  <2> QED BY <2>1, <2>2
<1>2. \A s \in SUBSET S : s \in Q
  <2> HIDE DEF Q
  <2> QED BY <1>1, SubsetInduction
<1> QED BY <1>2

\* A sum does not depend on the order of its terms.
LEMMA SumsTakeAny ==
    ASSUME NEW f, NEW S, IsFiniteSet(S), NEW h, Eqn(f, SUBSET S, h),
           \A x \in S : f[x] \in Int,
           NEW u \in SUBSET S, NEW v \in u
    PROVE  h[u] = f[v] + h[u \ {v}]
<1> DEFINE Q == {s \in SUBSET S : \A x \in s : h[s] = f[x] + h[s \ {x}]}
<1>1. ASSUME NEW s \in SUBSET S, \A x \in s : s \ {x} \in Q PROVE s \in Q
  <2> SUFFICES ASSUME NEW x \in s PROVE h[s] = f[x] + h[s \ {x}]
    OBVIOUS
  <2> DEFINE y == Pick(s)
  <2>1. y \in s
    BY PickIn
  <2>2. h[s] = f[y] + h[s \ {y}]
    BY DEF Eqn
  <2> HIDE DEF y
  <2>3. CASE x # y
    <3> DEFINE r == (s \ {x}) \ {y}
    <3>1. s \ {x} \in Q /\ s \ {y} \in Q /\ r = (s \ {y}) \ {x}
      BY <1>1, <2>1
    <3>2. h[s \ {x}] = f[y] + h[r]
      BY <3>1, <2>1, <2>3
    <3>3. h[s \ {y}] = f[x] + h[r]
      BY <3>1, <2>1, <2>3
    <3>4. f[x] \in Int /\ f[y] \in Int /\ h[r] \in Int
      <4>1. r \in SUBSET S
        OBVIOUS
      <4> QED BY <2>1, <4>1, SumsInt
    <3> HIDE DEF r
    <3> QED BY <2>2, <3>2, <3>3, <3>4
  <2> QED BY <2>2, <2>3
<1>2. \A s \in SUBSET S : s \in Q
  <2> HIDE DEF Q
  <2> QED BY <1>1, SubsetInduction
<1> QED BY <1>2

-----------------------------------------------------------------------------
\* The empty sum is zero.
LEMMA TotalOfNone == ASSUME NEW f PROVE TotalOver(f, {}) = 0
<1>1. PICK h : Eqn(f, SUBSET {}, h) /\ TotalOver(f, {}) = h[{}]
  BY TotalIsSum, FS_EmptySet
<1>2. {} \in SUBSET {}
  OBVIOUS
<1> QED BY <1>1, <1>2 DEF Eqn

\* Functions with the same values over S have the same sum.
LEMMA TotalSame ==
    ASSUME NEW f, NEW g, NEW S, IsFiniteSet(S), \A x \in S : f[x] = g[x]
    PROVE  TotalOver(f, S) = TotalOver(g, S)
<1>1. PICK h : Eqn(f, SUBSET S, h) /\ TotalOver(f, S) = h[S]
  BY TotalIsSum
<1>2. PICK k : Eqn(g, SUBSET S, k) /\ TotalOver(g, S) = k[S]
  BY TotalIsSum
<1>3. S \in SUBSET S
  OBVIOUS
<1>4. h[S] = k[S]
  BY <1>1, <1>2, <1>3, SumsAgree
<1> QED BY <1>1, <1>2, <1>4

\* Any term may be split off.
LEMMA TotalTake ==
    ASSUME NEW f, NEW S, IsFiniteSet(S), \A x \in S : f[x] \in Int
    PROVE  /\ TotalOver(f, S) \in Int
           /\ \A x \in S : /\ TotalOver(f, S \ {x}) \in Int
                           /\ TotalOver(f, S) = f[x] + TotalOver(f, S \ {x})
<1>1. PICK h : Eqn(f, SUBSET S, h) /\ TotalOver(f, S) = h[S]
  BY TotalIsSum
<1>2. TotalOver(f, S) \in Int
  BY <1>1, SumsInt
<1>3. ASSUME NEW x \in S
      PROVE  TotalOver(f, S \ {x}) \in Int /\ TotalOver(f, S) = f[x] + TotalOver(f, S \ {x})
  <2> DEFINE R == S \ {x}
  <2>1. R \in SUBSET S /\ R \in SUBSET R /\ IsFiniteSet(R)
    BY FS_RemoveElement
  <2>2. PICK k : Eqn(f, SUBSET R, k) /\ TotalOver(f, R) = k[R]
    BY <2>1, TotalIsSum
  <2>3. h[R] = k[R]
    <3> HIDE DEF R
    <3>1. Eqn(f, SUBSET S, h) /\ Eqn(f, SUBSET R, k) /\ \A y \in R : f[y] = f[y]
      BY <1>1, <2>2
    <3> QED BY <3>1, <2>1, SumsAgree
  <2>4. h[R] \in Int
    BY <1>1, <2>1, SumsInt
  <2>5. S \in SUBSET S
    OBVIOUS
  <2>6. h[S] = f[x] + h[S \ {x}]
    <3>1. Eqn(f, SUBSET S, h)
      BY <1>1
    <3> HIDE DEF R
    <3> QED BY <2>5, <3>1, SumsTakeAny
  <2>7. h[S] = f[x] + h[R]
    BY <2>6
  <2> HIDE DEF R
  <2>8. TotalOver(f, R) \in Int /\ TotalOver(f, S) = f[x] + TotalOver(f, R)
    BY <1>1, <2>2, <2>3, <2>4, <2>7
  <2> QED BY <2>8 DEF R
<1> QED BY <1>2, <1>3

\* A sum changes by what one of its terms changes.
LEMMA TotalStep ==
    ASSUME NEW f, NEW g, NEW S, IsFiniteSet(S), NEW x,
           \A y \in S : f[y] \in Int /\ g[y] \in Int,
           \A y \in S : y # x => g[y] = f[y]
    PROVE  TotalOver(g, S) = TotalOver(f, S) + (IF x \in S THEN g[x] - f[x] ELSE 0)
<1>1. CASE x \notin S
  <2>1. TotalOver(g, S) = TotalOver(f, S)
    BY <1>1, TotalSame
  <2>2. TotalOver(f, S) \in Int
    BY TotalTake
  <2> QED BY <1>1, <2>1, <2>2
<1>2. CASE x \in S
  <2> DEFINE R == S \ {x}
  <2>1. TotalOver(g, R) = TotalOver(f, R)
    BY TotalSame, FS_RemoveElement
  <2>2. TotalOver(f, S) = f[x] + TotalOver(f, R) /\ TotalOver(f, R) \in Int
    BY <1>2, TotalTake
  <2>3. TotalOver(g, S) = g[x] + TotalOver(g, R)
    BY <1>2, TotalTake
  <2>4. f[x] \in Int /\ g[x] \in Int
    BY <1>2
  <2> HIDE DEF R
  <2> QED BY <1>2, <2>1, <2>2, <2>3, <2>4
<1> QED BY <1>1, <1>2

\* One term grows by d, or is added to the sum.
LEMMA TotalGrows ==
    ASSUME NEW D, IsFiniteSet(D), NEW x, NEW d \in Int, NEW f, NEW g,
           \A k \in D : f[k] \in Int,
           \A k \in D : k # x => g[k] = f[k],
           g[x] = (IF x \in D THEN f[x] ELSE 0) + d
    PROVE  /\ TotalOver(f, D) \in Int
           /\ TotalOver(g, D \cup {x}) = TotalOver(f, D) + d
<1> DEFINE E == D \cup {x}
<1>1. IsFiniteSet(E)
  BY FS_AddElement
<1>2. \A k \in E : g[k] \in Int
  OBVIOUS
<1>3. TotalOver(f, D) \in Int
  BY TotalTake
<1>4. CASE x \in D
  <2>1. E = D /\ g[x] - f[x] = d
    BY <1>4
  <2>2. TotalOver(g, D) = TotalOver(f, D) + (IF x \in D THEN g[x] - f[x] ELSE 0)
    BY <1>2, TotalStep
  <2> QED BY <1>3, <1>4, <2>1, <2>2
<1>5. CASE x \notin D
  <2>1. E \ {x} = D /\ x \in E /\ g[x] = d
    BY <1>5
  <2>2. TotalOver(g, D) = TotalOver(f, D)
    BY <1>5, TotalSame
  <2> HIDE DEF E
  <2>3. \A y \in E : TotalOver(g, E) = g[y] + TotalOver(g, E \ {y})
    BY <1>1, <1>2, TotalTake
  <2>4. TotalOver(g, E) = g[x] + TotalOver(g, D)
    BY <2>1, <2>3
  <2>5. TotalOver(g, E) = TotalOver(f, D) + d
    BY <1>3, <2>1, <2>2, <2>4
  <2> QED BY <1>3, <2>5 DEF E
<1> QED BY <1>4, <1>5

\* A sum may be taken over other names of its terms.
LEMMA TotalRenamed ==
    ASSUME NEW S, IsFiniteSet(S), NEW T, NEW f, NEW g, NEW b,
           \A x \in S : b[x] \in T,
           \A y \in T : \E x \in S : b[x] = y,
           \A x, y \in S : b[x] = b[y] => x = y,
           \A x \in S : g[x] = f[b[x]] /\ g[x] \in Int
    PROVE  TotalOver(g, S) = TotalOver(f, T)
<1> DEFINE Im(u) == {b[x] : x \in u}
           Q == {u \in SUBSET S : /\ IsFiniteSet(Im(u))
                                  /\ TotalOver(g, u) = TotalOver(f, Im(u))}
<1>1. ASSUME NEW u \in SUBSET S, \A x \in u : u \ {x} \in Q PROVE u \in Q
  <2>1. CASE u = {}
    <3>1. Im(u) = {}
      BY <2>1
    <3> QED BY <2>1, <3>1, TotalOfNone, FS_EmptySet
  <2>2. CASE u # {}
    <3>1. PICK x \in u : TRUE
      BY <2>2
    <3>2. b[x] \in Im(u) /\ Im(u \ {x}) = Im(u) \ {b[x]}
      OBVIOUS
    <3>3. IsFiniteSet(u) /\ IsFiniteSet(Im(u))
      <4>1. IsFiniteSet(u)
        BY FS_Subset
      <4>2. u \ {x} \in Q
        BY <1>1, <3>1
      <4>3. PICK v : v = Im(u \ {x})
        OBVIOUS
      <4>4. IsFiniteSet(v)
        BY <4>2, <4>3
      <4>5. Im(u) = v \cup {b[x]}
        BY <3>1, <4>3
      <4>6. IsFiniteSet(v \cup {b[x]})
        BY <4>4, FS_AddElement
      <4> QED BY <4>1, <4>5, <4>6
    <3>4. (\A y \in u : g[y] \in Int) /\ (\A z \in Im(u) : f[z] \in Int)
      OBVIOUS
    <3>5. TotalOver(g, u \ {x}) = TotalOver(f, Im(u \ {x}))
      BY <1>1, <3>1
    <3> HIDE DEF Im
    <3>6. TotalOver(g, u) = g[x] + TotalOver(g, u \ {x})
      BY <3>3, <3>4, TotalTake
    <3>7. TotalOver(f, Im(u)) = f[b[x]] + TotalOver(f, Im(u) \ {b[x]})
      BY <3>2, <3>3, <3>4, TotalTake
    <3>8. g[x] = f[b[x]]
      OBVIOUS
    <3> QED BY <3>2, <3>3, <3>5, <3>6, <3>7, <3>8
  <2> QED BY <2>1, <2>2
<1>2. \A u \in SUBSET S : u \in Q
  <2> HIDE DEF Q
  <2> QED BY <1>1, SubsetInduction
<1>3. TotalOver(g, S) = TotalOver(f, Im(S))
  BY <1>2
<1>4. Im(S) = T
  OBVIOUS
<1> QED BY <1>3, <1>4

-----------------------------------------------------------------------------
(***************************************************************************)
(* Ranks                                                                   *)
(***************************************************************************)
\* The first difference of two different tuples decides for one of them.
LEMMA LexTotal ==
    ASSUME NEW N \in Nat, NEW a \in [1 .. N -> Int], NEW b \in [1 .. N -> Int], a # b
    PROVE  LexBefore(a, b) \/ LexBefore(b, a)
<1> DEFINE T == {n \in 1 .. N : a[n] # b[n]}
<1>1. T \subseteq Nat /\ T # {}
  OBVIOUS
<1>2. PICK n \in T : \A m \in T : n <= m
  <2> HIDE DEF T
  <2> QED BY <1>1, LeastNatural
<1>3. n \in 1 .. N /\ a[n] # b[n] /\ a[n] \in Int /\ b[n] \in Int
  BY <1>2
<1>4. \A m \in 1 .. n - 1 : a[m] = b[m]
  BY <1>2
<1>5. a[n] < b[n] \/ b[n] < a[n]
  BY <1>3
<1> QED BY <1>3, <1>4, <1>5 DEF LexBefore

\* It does not decide for both.
LEMMA LexOnce ==
    ASSUME NEW N \in Nat, NEW a \in [1 .. N -> Int], NEW b \in [1 .. N -> Int],
           LexBefore(a, b)
    PROVE  ~LexBefore(b, a)
<1> SUFFICES ASSUME LexBefore(b, a) PROVE FALSE
  OBVIOUS
<1>1. PICK n \in 1 .. N : a[n] < b[n] /\ \A m \in 1 .. n - 1 : a[m] = b[m]
  BY DEF LexBefore
<1>2. PICK k \in 1 .. N : b[k] < a[k] /\ \A m \in 1 .. k - 1 : b[m] = a[m]
  BY DEF LexBefore
<1>3. a[n] \in Int /\ b[n] \in Int /\ a[k] \in Int /\ b[k] \in Int
  OBVIOUS
<1>4. CASE n < k
  BY <1>1, <1>2, <1>3, <1>4
<1>5. CASE k < n
  BY <1>1, <1>2, <1>3, <1>5
<1>6. CASE n = k
  BY <1>1, <1>2, <1>3, <1>6
<1> QED BY <1>4, <1>5, <1>6

\* The order of tuples is transitive.
LEMMA LexTransitive ==
    ASSUME NEW N \in Nat, NEW a \in [1 .. N -> Int], NEW b \in [1 .. N -> Int],
           NEW c \in [1 .. N -> Int], LexBefore(a, b), LexBefore(b, c)
    PROVE  LexBefore(a, c)
<1>1. PICK n \in 1 .. N : a[n] < b[n] /\ \A m \in 1 .. n - 1 : a[m] = b[m]
  BY DEF LexBefore
<1>2. PICK k \in 1 .. N : b[k] < c[k] /\ \A m \in 1 .. k - 1 : b[m] = c[m]
  BY DEF LexBefore
<1>3. /\ a[n] \in Int /\ b[n] \in Int /\ c[n] \in Int
      /\ a[k] \in Int /\ b[k] \in Int /\ c[k] \in Int
  OBVIOUS
<1>4. CASE n < k
  <2>1. a[n] < c[n] /\ \A m \in 1 .. n - 1 : a[m] = c[m]
    BY <1>1, <1>2, <1>3, <1>4
  <2> QED BY <2>1 DEF LexBefore
<1>5. CASE k < n
  <2>1. a[k] < c[k] /\ \A m \in 1 .. k - 1 : a[m] = c[m]
    BY <1>1, <1>2, <1>3, <1>5
  <2> QED BY <2>1 DEF LexBefore
<1>6. CASE n = k
  <2>1. a[n] < c[n] /\ \A m \in 1 .. n - 1 : a[m] = c[m]
    BY <1>1, <1>2, <1>3, <1>6
  <2> QED BY <2>1 DEF LexBefore
<1> QED BY <1>4, <1>5, <1>6

\* The tuple that the order compares.
RankFields(f) == <<-f.bytes, -f.packets, f.first_ts>> \o key_fields(f.key)

\* The elements of a tuple of three followed by one of seven.
LEMMA ThreeAndSeven ==
    ASSUME NEW x \in Seq(Int), NEW y \in Seq(Int), Len(x) = 3, Len(y) = 7
    PROVE  /\ x \o y \in [1 .. 10 -> Int]
           /\ \A n \in 1 .. 3 : (x \o y)[n] = x[n]
           /\ \A n \in 4 .. 10 : (x \o y)[n] = y[n - 3]
<1>1. /\ x \o y \in Seq(Int) /\ Len(x \o y) = Len(x) + Len(y)
      /\ \A n \in 1 .. Len(x) + Len(y) :
           (x \o y)[n] = IF n <= Len(x) THEN x[n] ELSE y[n - Len(x)]
  BY ONLY ConcatProperties, x \in Seq(Int), y \in Seq(Int), Zenon
<1>2. PICK z : z = x \o y
  OBVIOUS
<1>3. /\ z \in Seq(Int) /\ Len(z) = Len(x) + Len(y)
      /\ \A n \in 1 .. Len(x) + Len(y) : z[n] = IF n <= Len(x) THEN x[n] ELSE y[n - Len(x)]
  BY ONLY <1>1, <1>2, Zenon
<1>4. z \in [1 .. Len(z) -> Int]
  BY ONLY <1>3, LenProperties, Zenon
<1>5. Len(z) = 10
  BY <1>3
<1>6. z \in [1 .. 10 -> Int]
  BY ONLY <1>4, <1>5, Zenon
<1>7. /\ \A n \in 1 .. 3 : z[n] = x[n]
      /\ \A n \in 4 .. 10 : z[n] = y[n - 3]
  BY <1>3
<1> QED BY ONLY <1>2, <1>6, <1>7, Zenon

\* The ten numbers that the order of a flow looks at.
LEMMA RankFieldsAre ==
    ASSUME NEW f, Rankable(f)
    PROVE  LET r == RankFields(f)
               k == f.key IN
           /\ r \in [1 .. 10 -> Int]
           /\ r[1] = -f.bytes /\ r[2] = -f.packets /\ r[3] = f.first_ts
           /\ r[4] = k.teid /\ r[5] = k.version /\ r[6] = IPPROTO_NUM[k.proto]
           /\ r[7] = k.a.addr /\ r[8] = k.a.port /\ r[9] = k.b.addr /\ r[10] = k.b.port
<1> DEFINE k == f.key
           x == <<-f.bytes, -f.packets, f.first_ts>>
           y == key_fields(k)
<1>1. /\ k.teid \in Nat /\ k.version \in Nat /\ k.proto \in DOMAIN IPPROTO_NUM
      /\ k.a.addr \in Nat /\ k.a.port \in Nat /\ k.b.addr \in Nat /\ k.b.port \in Nat
  BY DEF Rankable, Key, Endpoint
<1>2. IPPROTO_NUM[k.proto] \in Int
  BY <1>1 DEF IPPROTO_NUM
<1>3. /\ x \in Seq(Int) /\ Len(x) = 3
      /\ x[1] = -f.bytes /\ x[2] = -f.packets /\ x[3] = f.first_ts
  BY DEF Rankable
<1>4. /\ y \in Seq(Int) /\ Len(y) = 7
      /\ y[1] = k.teid /\ y[2] = k.version /\ y[3] = IPPROTO_NUM[k.proto]
      /\ y[4] = k.a.addr /\ y[5] = k.a.port /\ y[6] = k.b.addr /\ y[7] = k.b.port
  <2> HIDE DEF k
  <2> QED BY <1>1, <1>2 DEF key_fields
<1> HIDE DEF x, y
<1>5. PICK z : z = x \o y
  OBVIOUS
<1>6. /\ z \in [1 .. 10 -> Int]
      /\ \A n \in 1 .. 3 : z[n] = x[n]
      /\ \A n \in 4 .. 10 : z[n] = y[n - 3]
  BY ONLY <1>3, <1>4, <1>5, ThreeAndSeven, Zenon
<1>7. RankFields(f) = z
  BY <1>5 DEF RankFields, x, y
<1>8. /\ z[1] = x[1] /\ z[2] = x[2] /\ z[3] = x[3] /\ z[4] = y[1] /\ z[5] = y[2]
      /\ z[6] = y[3] /\ z[7] = y[4] /\ z[8] = y[5] /\ z[9] = y[6] /\ z[10] = y[7]
  BY ONLY <1>6
<1> HIDE DEF k
<1>9. /\ z[1] = -f.bytes /\ z[2] = -f.packets /\ z[3] = f.first_ts
      /\ z[4] = k.teid /\ z[5] = k.version /\ z[6] = IPPROTO_NUM[k.proto]
      /\ z[7] = k.a.addr /\ z[8] = k.a.port /\ z[9] = k.b.addr /\ z[10] = k.b.port
  BY ONLY <1>3, <1>4, <1>8, Zenon
<1> QED BY ONLY <1>6, <1>7, <1>9, Zenon DEF k

\* No flow ranks above itself or above one that ranks above it.
LEMMA RankOnce ==
    ASSUME NEW f, NEW g, Rankable(f), Rankable(g), rank_above(f, g)
    PROVE  ~rank_above(g, f)
<1>1. RankFields(f) \in [1 .. 10 -> Int] /\ RankFields(g) \in [1 .. 10 -> Int]
  BY RankFieldsAre
<1>2. LexBefore(RankFields(f), RankFields(g))
  BY DEF rank_above, RankFields
<1>3. ~LexBefore(RankFields(g), RankFields(f))
  <2>1. 10 \in Nat
    OBVIOUS
  <2> QED BY ONLY <1>1, <1>2, <2>1, LexOnce, Zenon
<1> QED BY ONLY <1>3, Zenon DEF rank_above, RankFields

\* What ranks above f ranks above all that f ranks above.
LEMMA RankTransitive ==
    ASSUME NEW f, NEW g, NEW h, Rankable(f), Rankable(g), Rankable(h),
           rank_above(f, g), rank_above(g, h)
    PROVE  rank_above(f, h)
<1>1. /\ RankFields(f) \in [1 .. 10 -> Int] /\ RankFields(g) \in [1 .. 10 -> Int]
      /\ RankFields(h) \in [1 .. 10 -> Int]
  BY RankFieldsAre
<1>2. LexBefore(RankFields(f), RankFields(g)) /\ LexBefore(RankFields(g), RankFields(h))
  BY DEF rank_above, RankFields
<1>3. LexBefore(RankFields(f), RankFields(h))
  <2>1. 10 \in Nat
    OBVIOUS
  <2> QED BY ONLY <1>1, <1>2, <2>1, LexTransitive, Zenon
<1> QED BY ONLY <1>3, Zenon DEF rank_above, RankFields

\* Two flows with different keys never tie: rank_cmp() compares every field of the key.
LEMMA RankTotal ==
    ASSUME NEW f, NEW g, Rankable(f), Rankable(g), f.key # g.key
    PROVE  rank_above(f, g) \/ rank_above(g, f)
<1> DEFINE k == f.key
           l == g.key
           r == RankFields(f)
           q == RankFields(g)
<1>1. k \in Key /\ l \in Key /\ k # l
  BY DEF Rankable
<1>2. /\ r \in [1 .. 10 -> Int]
      /\ r[4] = k.teid /\ r[5] = k.version /\ r[6] = IPPROTO_NUM[k.proto]
      /\ r[7] = k.a.addr /\ r[8] = k.a.port /\ r[9] = k.b.addr /\ r[10] = k.b.port
  BY RankFieldsAre
<1>3. /\ q \in [1 .. 10 -> Int]
      /\ q[4] = l.teid /\ q[5] = l.version /\ q[6] = IPPROTO_NUM[l.proto]
      /\ q[7] = l.a.addr /\ q[8] = l.a.port /\ q[9] = l.b.addr /\ q[10] = l.b.port
  BY RankFieldsAre
<1> HIDE DEF k, l, r, q
<1>4. r # q
  <2> SUFFICES ASSUME r = q PROVE k = l
    BY <1>1
  <2>1. /\ k.teid = l.teid /\ k.version = l.version
        /\ IPPROTO_NUM[k.proto] = IPPROTO_NUM[l.proto]
        /\ k.a.addr = l.a.addr /\ k.a.port = l.a.port
        /\ k.b.addr = l.b.addr /\ k.b.port = l.b.port
    BY ONLY <1>2, <1>3, r = q, Zenon
  <2>2. k.proto = l.proto
    BY <1>1, <2>1 DEF Key, IPPROTO_NUM
  <2>3. k.a \in Endpoint /\ l.a \in Endpoint /\ k.b \in Endpoint /\ l.b \in Endpoint
    BY <1>1 DEF Key
  <2>4. k.a = l.a /\ k.b = l.b
    BY <2>1, <2>3 DEF Endpoint
  <2> QED BY <1>1, <2>1, <2>2, <2>4 DEF Key
<1>5. LexBefore(r, q) \/ LexBefore(q, r)
  <2>1. 10 \in Nat
    OBVIOUS
  <2> QED BY ONLY <1>2, <1>3, <1>4, <2>1, LexTotal, Zenon
<1> QED BY ONLY <1>5, Zenon DEF rank_above, RankFields, r, q

\* A set of flows that can be ranked: no two of them have the same key.
RankableSet(S) ==
    /\ IsFiniteSet(S)
    /\ \A f \in S : Rankable(f)
    /\ \A f, g \in S : f.key = g.key => f = g

\* One of the flows ranks below all the others.
LEMMA WeakestExists ==
    ASSUME NEW S, RankableSet(S), S # {}
    PROVE  \E x \in S : \A y \in S \ {x} : rank_above(y, x)
<1> DEFINE Q == {u \in SUBSET S : u # {} => \E x \in u : \A y \in u \ {x} : rank_above(y, x)}
<1>1. ASSUME NEW u \in SUBSET S, \A x \in u : u \ {x} \in Q PROVE u \in Q
  <2> SUFFICES ASSUME u # {} PROVE \E x \in u : \A y \in u \ {x} : rank_above(y, x)
    OBVIOUS
  <2>1. PICK z \in u : TRUE
    OBVIOUS
  <2>2. CASE u \ {z} = {}
    BY <2>1, <2>2
  <2>3. CASE u \ {z} # {}
    <3>1. PICK x \in u \ {z} : \A y \in (u \ {z}) \ {x} : rank_above(y, x)
      BY <1>1, <2>1, <2>3
    <3>2. Rankable(x) /\ Rankable(z) /\ x.key # z.key /\ (\A y \in u : Rankable(y))
      BY <2>1, <3>1 DEF RankableSet
    <3>3. CASE rank_above(z, x)
      BY <2>1, <3>1, <3>3
    <3>4. CASE rank_above(x, z)
      <4>1. \A y \in u \ {z} : rank_above(y, z)
        BY <3>1, <3>2, <3>4, RankTransitive
      <4> QED BY <2>1, <4>1
    <3> QED BY <3>2, <3>3, <3>4, RankTotal
  <2> QED BY <2>2, <2>3
<1>2. IsFiniteSet(S)
  BY DEF RankableSet
<1>3. S \in Q
  <2> HIDE DEF Q
  <2> QED BY <1>1, <1>2, SubsetInduction
<1> QED BY <1>3

\* A listing of S, best first.
BestFirst(s, S) ==
    /\ s \in [1 .. Cardinality(S) -> S]
    /\ \A j, n \in 1 .. Cardinality(S) : j < n => rank_above(s[j], s[n])

\* Every set that can be ranked has one.
LEMMA ListingExists ==
    ASSUME NEW S, RankableSet(S)
    PROVE  \E s : BestFirst(s, S)
<1> DEFINE Q == {u \in SUBSET S : \E s : BestFirst(s, u)}
<1>0. IsFiniteSet(S)
  BY DEF RankableSet
<1>1. ASSUME NEW u \in SUBSET S, \A x \in u : u \ {x} \in Q PROVE \E s : BestFirst(s, u)
  <2>1. RankableSet(u) /\ IsFiniteSet(u)
    BY FS_Subset DEF RankableSet
  <2>2. CASE u = {}
    <3>1. Cardinality(u) = 0
      BY <2>2, FS_EmptySet
    <3>2. BestFirst([n \in {} |-> 0], u)
      BY <2>2, <3>1 DEF BestFirst
    <3> QED BY <3>2
  <2>3. CASE u # {}
    <3>1. PICK x \in u : \A y \in u \ {x} : rank_above(y, x)
      BY <2>1, <2>3, WeakestExists
    <3>2. PICK N : N = Cardinality(u)
      OBVIOUS
    <3>3. N \in Nat \ {0} /\ Cardinality(u \ {x}) = N - 1
      BY <2>1, <3>1, <3>2, FS_CardinalityType, FS_RemoveElement, FS_EmptySet
    <3>4. PICK s : BestFirst(s, u \ {x})
      BY <1>1, <3>1
    <3>5. /\ s \in [1 .. N - 1 -> u \ {x}]
          /\ \A j, n \in 1 .. N - 1 : j < n => rank_above(s[j], s[n])
      BY <3>3, <3>4 DEF BestFirst
    <3> DEFINE t == [n \in 1 .. N |-> IF n = N THEN x ELSE s[n]]
    <3>6. t \in [1 .. N -> u]
      BY <3>1, <3>3, <3>5
    <3>7. ASSUME NEW j \in 1 .. N, NEW n \in 1 .. N, j < n PROVE rank_above(t[j], t[n])
      <4>1. j \in 1 .. N - 1 /\ t[j] = s[j] /\ s[j] \in u \ {x}
        BY <3>3, <3>5, <3>7
      <4>2. CASE n = N
        BY <3>1, <4>1, <4>2
      <4>3. CASE n # N
        <5>1. n \in 1 .. N - 1 /\ t[n] = s[n]
          BY <3>3, <4>3
        <5> QED BY <3>5, <3>7, <4>1, <5>1
      <4> QED BY <4>2, <4>3
    <3> HIDE DEF t
    <3>8. BestFirst(t, u)
      BY <3>2, <3>6, <3>7 DEF BestFirst
    <3> QED BY <3>8
  <2> QED BY <2>2, <2>3
<1>2. S \in Q
  <2>1. \A u \in SUBSET S : (\A x \in u : u \ {x} \in Q) => u \in Q
    BY <1>1
  <2> HIDE DEF Q
  <2> QED BY <1>0, <2>1, SubsetInduction
<1> QED BY <1>2

\* A listing holds every flow once.
LEMMA ListingIsWhole ==
    ASSUME NEW S, RankableSet(S), NEW s, BestFirst(s, S)
    PROVE  /\ \A j, n \in 1 .. Cardinality(S) : s[j] = s[n] => j = n
           /\ \A x \in S : \E n \in 1 .. Cardinality(S) : s[n] = x
<1>1. PICK N : N = Cardinality(S)
  OBVIOUS
<1>2. N \in Nat /\ IsFiniteSet(S) /\ s \in [1 .. N -> S]
  BY <1>1, FS_CardinalityType DEF RankableSet, BestFirst
<1>3. \A j, n \in 1 .. N : s[j] = s[n] => j = n
  <2> SUFFICES ASSUME NEW j \in 1 .. N, NEW n \in 1 .. N, s[j] = s[n], j < n PROVE FALSE
    BY <1>2
  <2>1. rank_above(s[j], s[n]) /\ Rankable(s[j])
    BY <1>1, <1>2 DEF BestFirst, RankableSet
  <2> QED BY <2>1, RankOnce
<1>4. IsFiniteSet(1 .. N) /\ Cardinality(1 .. N) = N
  BY <1>2, FS_Interval
<1>5. s \in Injection(1 .. N, S)
  BY <1>2, <1>3 DEF Injection, IsInjective
<1>6. s \in Surjection(1 .. N, S)
  BY <1>1, <1>2, <1>4, <1>5, FS_Injection
<1>7. \A x \in S : \E n \in 1 .. N : s[n] = x
  BY <1>2, <1>6 DEF Surjection
<1> QED BY <1>1, <1>3, <1>7

=============================================================================
