------------------------------ MODULE FiniteSums ------------------------------
(***************************************************************************)
(* Lemmas about sums over finite sets, for MapThenSumSet of the community  *)
(* modules: FiniteSetsExt defines it and states no fact about it.          *)
(***************************************************************************)
EXTENDS FiniteSetsExt, FiniteSetTheorems, WellFoundedInduction, TLAPS

-----------------------------------------------------------------------------
(* Sets of numbers.                                                        *)

LEMMA Smallest ==
    ASSUME NEW S \in SUBSET Nat, S # {}
    PROVE  \E m \in S : \A k \in S : m <= k
<1> DEFINE R == OpToRel(<, Nat)
<1>1. IsWellFoundedOn(R, Nat)
  BY NatLessThanWellFounded
<1> HIDE DEF R
<1>2. \E x \in S : \A y \in S : <<y, x>> \notin R
  BY <1>1, WFMin
<1>3. ASSUME NEW x \in Nat, NEW y \in Nat, y < x
      PROVE  <<y, x>> \in R
  BY <1>3 DEF R, OpToRel
<1>4. PICK x \in S : \A y \in S : <<y, x>> \notin R
  BY <1>2
<1>5. \A k \in S : k \in Nat /\ x \in Nat /\ ~(k < x)
  BY <1>3, <1>4
<1> QED
  BY <1>5

LEMMA Largest ==
    ASSUME NEW n \in Nat, NEW S \in SUBSET (0..n), S # {}
    PROVE  Max(S) \in S /\ \A k \in S : k <= Max(S)
<1> DEFINE T == {k \in Nat : n - k \in S}
<1>1. T \in SUBSET Nat
  OBVIOUS
<1>2. T # {}
  <2>1. PICK k \in S : TRUE
    OBVIOUS
  <2>2. n - k \in Nat /\ n - (n - k) = k
    OBVIOUS
  <2> QED
    BY <2>1, <2>2
<1>3. PICK m \in T : \A k \in T : m <= k
  BY <1>1, <1>2, Smallest
<1>4. ASSUME NEW k \in S PROVE k <= n - m
  <2>1. n - k \in T
    OBVIOUS
  <2> QED
    BY <2>1, <1>3
<1>5. \E x \in S : \A y \in S : x >= y
  BY <1>3, <1>4
<1> QED
  BY <1>5 DEF Max

-----------------------------------------------------------------------------
(* Sums over finite sets.                                                  *)

\* A family of subsets that has the empty set, and every subset that is built from
\* members of the family by one element, has all of them.
LEMMA SubsetInduction ==
    ASSUME NEW S, IsFiniteSet(S), NEW Good \in SUBSET (SUBSET S), {} \in Good,
           \A T \in SUBSET S : T # {} /\ (\A x \in T : T \ {x} \in Good) => T \in Good
    PROVE  \A T \in SUBSET S : T \in Good
<1> SUFFICES ASSUME \E T \in SUBSET S : T \notin Good
             PROVE  FALSE
  OBVIOUS
<1> DEFINE Counts == {n \in Nat : \E T \in SUBSET S : T \notin Good /\ Cardinality(T) = n}
<1>1. \A T \in SUBSET S : IsFiniteSet(T) /\ Cardinality(T) \in Nat
  BY FS_Subset, FS_CardinalityType
<1>2. Counts \in SUBSET Nat /\ Counts # {}
  BY <1>1
<1>3. PICK n \in Counts : \A k \in Counts : n <= k
  BY <1>2, Smallest
<1>4. PICK T \in SUBSET S : T \notin Good /\ Cardinality(T) = n
  OBVIOUS
<1>5. ASSUME NEW x \in T PROVE T \ {x} \in Good
  <2>1. Cardinality(T \ {x}) = n - 1
    BY <1>1, <1>4, FS_RemoveElement
  <2>2. T \ {x} \in SUBSET S /\ n \in Nat
    OBVIOUS
  <2>3. n - 1 \in Nat
    BY <1>1, <2>1, <2>2
  <2>4. T \ {x} \notin Good => n - 1 \in Counts
    BY <2>1, <2>2, <2>3
  <2>5. n - 1 \notin Counts
    BY <1>3, <2>2
  <2> QED
    BY <2>4, <2>5
<1> QED
  BY <1>4, <1>5

Sum(f, S) == MapThenSumSet(LAMBDA x : f[x], S)

Picked(s) == CHOOSE x \in s : TRUE

\* g is the sum of f over every set of a family.
Adds(f, Family, g) ==
    g = [s \in Family |-> IF s = {} THEN 0 ELSE f[Picked(s)] + g[s \ {Picked(s)}]]

LEMMA SumIs ==
    ASSUME NEW f, NEW S
    PROVE  Sum(f, S) = (CHOOSE g : Adds(f, SUBSET S, g))[S]
BY DEF Sum, MapThenSumSet, MapThenFoldSet, Adds, Picked

UpTo(S, n) == {s \in SUBSET S : Cardinality(s) <= n}

LEMMA SumsExist ==
    ASSUME NEW f, NEW S, IsFiniteSet(S)
    PROVE  \E g : Adds(f, SUBSET S, g)
<1> DEFINE Wrong == {n \in Nat : ~\E g : Adds(f, UpTo(S, n), g)}
<1>1. \A T \in SUBSET S : IsFiniteSet(T) /\ Cardinality(T) \in Nat
  BY FS_Subset, FS_CardinalityType
<1>2. \A T \in SUBSET S : Cardinality(T) <= Cardinality(S)
  BY FS_Subset
<1>3. UpTo(S, Cardinality(S)) = SUBSET S
  BY <1>2 DEF UpTo
<1>4. CASE Wrong = {}
  <2>1. Cardinality(S) \in Nat
    BY <1>1
  <2>2. \E g : Adds(f, UpTo(S, Cardinality(S)), g)
    BY <1>4, <2>1
  <2> QED
    BY <1>3, <2>2
<1>5. CASE Wrong # {}
  <2>1. Wrong \in SUBSET Nat
    OBVIOUS
  <2>2. PICK n \in Wrong : \A k \in Wrong : n <= k
    BY <2>1, <1>5, Smallest
  <2>3. CASE n = 0
    <3> DEFINE g == [s \in UpTo(S, 0) |-> 0]
    <3>1. ASSUME NEW s \in UpTo(S, 0) PROVE s = {}
      <4>1. s \in SUBSET S /\ Cardinality(s) = 0
        BY <1>1 DEF UpTo
      <4> QED
        BY <4>1, <1>1, FS_EmptySet
    <3>2. g = [s \in UpTo(S, 0) |-> IF s = {} THEN 0 ELSE f[Picked(s)] + g[s \ {Picked(s)}]]
      BY <3>1
    <3> QED
      BY <2>3, <3>2 DEF Adds
  <2>4. CASE n # 0
    <3>1. n \in Nat /\ n - 1 \in Nat /\ n - 1 \notin Wrong
      BY <2>1, <2>2, <2>4
    <3>2. PICK h : Adds(f, UpTo(S, n - 1), h)
      BY <3>1
    <3> DEFINE g == [s \in UpTo(S, n) |->
                        IF s = {} THEN 0 ELSE f[Picked(s)] + h[s \ {Picked(s)}]]
    <3>3. ASSUME NEW s \in UpTo(S, n - 1) PROVE g[s] = h[s]
      <4>1. s \in UpTo(S, n)
        BY <1>1, <3>1 DEF UpTo
      <4> QED
        BY <3>2, <4>1 DEF Adds
    <3>4. ASSUME NEW s \in UpTo(S, n), s # {} PROVE s \ {Picked(s)} \in UpTo(S, n - 1)
      <4>1. Picked(s) \in s
        BY <3>4 DEF Picked
      <4>2. s \in SUBSET S /\ Cardinality(s) <= n
        BY DEF UpTo
      <4>3. Cardinality(s \ {Picked(s)}) = Cardinality(s) - 1
        BY <1>1, <4>1, <4>2, FS_RemoveElement
      <4>4. Cardinality(s \ {Picked(s)}) <= n - 1
        BY <1>1, <3>1, <4>2, <4>3
      <4> QED
        BY <4>2, <4>4 DEF UpTo
    <3> HIDE DEF g
    <3>5. g = [s \in UpTo(S, n) |-> IF s = {} THEN 0 ELSE f[Picked(s)] + g[s \ {Picked(s)}]]
      BY <3>3, <3>4 DEF g
    <3> QED
      BY <3>5, <2>2 DEF Adds
  <2> QED
    BY <2>3, <2>4
<1> QED
  BY <1>4, <1>5

LEMMA SumStep ==
    ASSUME NEW f, NEW S, IsFiniteSet(S)
    PROVE  /\ Sum(f, {}) = 0
           /\ S # {} => Sum(f, S) = f[Picked(S)] + Sum(f, S \ {Picked(S)})
<1>1. ASSUME NEW T, IsFiniteSet(T)
      PROVE  \E g : Adds(f, SUBSET T, g) /\ Sum(f, T) = g[T]
  <2>1. \E g : Adds(f, SUBSET T, g)
    BY <1>1, SumsExist
  <2> DEFINE g == CHOOSE g : Adds(f, SUBSET T, g)
  <2>2. Adds(f, SUBSET T, g)
    BY <2>1
  <2> HIDE DEF g
  <2>3. Sum(f, T) = g[T]
    BY SumIs DEF g
  <2> QED
    BY <2>2, <2>3
<1>2. Sum(f, {}) = 0
  <2>1. PICK g : Adds(f, SUBSET {}, g) /\ Sum(f, {}) = g[{}]
    BY <1>1, FS_EmptySet
  <2> QED
    BY <2>1 DEF Adds
<1>3. ASSUME S # {}
      PROVE  Sum(f, S) = f[Picked(S)] + Sum(f, S \ {Picked(S)})
  <2> DEFINE R == S \ {Picked(S)}
  <2>1. IsFiniteSet(R) /\ R \in SUBSET S
    BY FS_RemoveElement
  <2> HIDE DEF R
  <2>2. PICK g : Adds(f, SUBSET S, g) /\ Sum(f, S) = g[S]
    BY <1>1
  <2>3. PICK h : Adds(f, SUBSET R, h) /\ Sum(f, R) = h[R]
    BY <1>1, <2>1
  <2> DEFINE Good == {T \in SUBSET R : g[T] = h[T]}
  <2>4. {} \in Good
    BY <2>1, <2>2, <2>3 DEF Adds
  <2>5. ASSUME NEW T \in SUBSET R, T # {}, \A x \in T : T \ {x} \in Good
        PROVE  T \in Good
    <3>1. Picked(T) \in T
      BY <2>5 DEF Picked
    <3>2. g[T \ {Picked(T)}] = h[T \ {Picked(T)}]
      BY <3>1, <2>5
    <3>3. g[T] = f[Picked(T)] + g[T \ {Picked(T)}]
      BY <2>1, <2>2, <2>5 DEF Adds
    <3>4. h[T] = f[Picked(T)] + h[T \ {Picked(T)}]
      BY <2>3, <2>5 DEF Adds
    <3> QED
      BY <3>2, <3>3, <3>4
  <2>6. Good \in SUBSET (SUBSET R)
    OBVIOUS
  <2> HIDE DEF Good
  <2>7. \A T \in SUBSET R : T \in Good
    BY <2>1, <2>4, <2>5, <2>6, SubsetInduction
  <2>8. g[R] = h[R]
    BY <2>7 DEF Good
  <2>9. g[S] = f[Picked(S)] + g[R]
    BY <1>3, <2>2 DEF Adds, R
  <2> QED
    BY <2>2, <2>3, <2>8, <2>9 DEF R
<1> QED
  BY <1>2, <1>3

LEMMA SumIsNat ==
    ASSUME NEW f, NEW S, IsFiniteSet(S), \A x \in S : f[x] \in Nat
    PROVE  Sum(f, S) \in Nat
<1> DEFINE Good == {T \in SUBSET S : Sum(f, T) \in Nat}
<1>1. {} \in Good
  <2>1. Sum(f, {}) = 0
    BY SumStep
  <2> QED
    BY <2>1
<1>2. ASSUME NEW T \in SUBSET S, T # {}, \A x \in T : T \ {x} \in Good
      PROVE  T \in Good
  <2>1. Picked(T) \in T
    BY <1>2 DEF Picked
  <2>2. Sum(f, T) = f[Picked(T)] + Sum(f, T \ {Picked(T)})
    BY <1>2, SumStep, FS_Subset
  <2>3. Sum(f, T \ {Picked(T)}) \in Nat /\ f[Picked(T)] \in Nat
    BY <1>2, <2>1
  <2> QED
    BY <2>2, <2>3
<1>3. Good \in SUBSET (SUBSET S)
  OBVIOUS
<1> HIDE DEF Good
<1>4. \A T \in SUBSET S : T \in Good
  BY <1>1, <1>2, <1>3, SubsetInduction
<1> QED
  BY <1>4 DEF Good

\* Which element is taken first makes no difference.
LEMMA SumRemove ==
    ASSUME NEW f, NEW S, IsFiniteSet(S), \A x \in S : f[x] \in Nat
    PROVE  \A y \in S : Sum(f, S) = f[y] + Sum(f, S \ {y})
<1> DEFINE Good == {T \in SUBSET S : \A y \in T : Sum(f, T) = f[y] + Sum(f, T \ {y})}
<1>1. {} \in Good
  OBVIOUS
<1>2. ASSUME NEW T \in SUBSET S, T # {}, \A x \in T : T \ {x} \in Good
      PROVE  T \in Good
  <2> DEFINE c == Picked(T)
  <2>1. c \in T
    BY <1>2 DEF Picked
  <2>2. IsFiniteSet(T)
    BY FS_Subset
  <2>3. Sum(f, T) = f[c] + Sum(f, T \ {c})
    BY <1>2, <2>2, SumStep
  <2> HIDE DEF c
  <2>4. ASSUME NEW y \in T, y # c PROVE Sum(f, T) = f[y] + Sum(f, T \ {y})
    <3> DEFINE R == (T \ {c}) \ {y}
    <3>1. Sum(f, T \ {c}) = f[y] + Sum(f, R)
      BY <1>2, <2>1, <2>4
    <3>2. Sum(f, T \ {y}) = f[c] + Sum(f, (T \ {y}) \ {c})
      BY <1>2, <2>1, <2>4
    <3>3. (T \ {y}) \ {c} = R
      OBVIOUS
    <3>4. IsFiniteSet(R) /\ \A x \in R : f[x] \in Nat
      BY <2>2, FS_Subset
    <3>5. Sum(f, R) \in Nat /\ f[c] \in Nat /\ f[y] \in Nat
      BY <3>4, <2>1, SumIsNat
    <3> HIDE DEF R
    <3> QED
      BY <2>3, <3>1, <3>2, <3>3, <3>5
  <2> QED
    BY <2>3, <2>4
<1>3. Good \in SUBSET (SUBSET S)
  OBVIOUS
<1> HIDE DEF Good
<1>4. \A T \in SUBSET S : T \in Good
  BY <1>1, <1>2, <1>3, SubsetInduction
<1> QED
  BY <1>4 DEF Good

LEMMA SumOfSubset ==
    ASSUME NEW f, NEW S, IsFiniteSet(S), \A x \in S : f[x] \in Nat
    PROVE  \A T \in SUBSET S : Sum(f, T) <= Sum(f, S)
<1> DEFINE Good == {R \in SUBSET S : \A T \in SUBSET R : Sum(f, T) <= Sum(f, R)}
<1>1. {} \in Good
  <2>1. Sum(f, {}) = 0
    BY SumStep
  <2>2. \A T \in SUBSET {} : T = {}
    OBVIOUS
  <2> QED
    BY <2>1, <2>2
<1>2. ASSUME NEW R \in SUBSET S, R # {}, \A x \in R : R \ {x} \in Good
      PROVE  R \in Good
  <2>1. IsFiniteSet(R) /\ \A x \in R : f[x] \in Nat
    BY FS_Subset
  <2>2. Sum(f, R) \in Nat
    BY <2>1, SumIsNat
  <2>3. ASSUME NEW T \in SUBSET R, T # R PROVE Sum(f, T) <= Sum(f, R)
    <3>1. PICK x \in R : x \notin T
      BY <2>3
    <3>2. T \in SUBSET (R \ {x})
      BY <3>1
    <3>3. Sum(f, T) <= Sum(f, R \ {x})
      BY <1>2, <3>1, <3>2
    <3>4. Sum(f, R) = f[x] + Sum(f, R \ {x})
      BY <2>1, SumRemove
    <3>5. IsFiniteSet(T) /\ IsFiniteSet(R \ {x})
      BY <2>1, <3>2, FS_Subset
    <3>6. Sum(f, T) \in Nat /\ Sum(f, R \ {x}) \in Nat
      BY <2>1, <3>5, SumIsNat
    <3> QED
      BY <2>1, <3>1, <3>3, <3>4, <3>6
  <2>4. ASSUME NEW T \in SUBSET R PROVE Sum(f, T) <= Sum(f, R)
    BY <2>2, <2>3
  <2> QED
    BY <2>4
<1>3. Good \in SUBSET (SUBSET S)
  OBVIOUS
<1> HIDE DEF Good
<1>4. \A T \in SUBSET S : T \in Good
  BY <1>1, <1>2, <1>3, SubsetInduction
<1> QED
  BY <1>4 DEF Good

LEMMA SumSame ==
    ASSUME NEW f, NEW g, NEW S, IsFiniteSet(S), \A x \in S : f[x] = g[x]
    PROVE  Sum(f, S) = Sum(g, S)
<1> DEFINE Good == {T \in SUBSET S : Sum(f, T) = Sum(g, T)}
<1>1. {} \in Good
  <2>1. Sum(f, {}) = 0 /\ Sum(g, {}) = 0
    BY SumStep
  <2> QED
    BY <2>1
<1>2. ASSUME NEW T \in SUBSET S, T # {}, \A x \in T : T \ {x} \in Good
      PROVE  T \in Good
  <2>1. Picked(T) \in T
    BY <1>2 DEF Picked
  <2>2. IsFiniteSet(T)
    BY FS_Subset
  <2>3. Sum(f, T) = f[Picked(T)] + Sum(f, T \ {Picked(T)})
    BY <1>2, <2>2, SumStep
  <2>4. Sum(g, T) = g[Picked(T)] + Sum(g, T \ {Picked(T)})
    BY <1>2, <2>2, SumStep
  <2>5. Sum(f, T \ {Picked(T)}) = Sum(g, T \ {Picked(T)})
    BY <1>2, <2>1
  <2>6. f[Picked(T)] = g[Picked(T)]
    BY <2>1
  <2>7. Sum(f, T) = Sum(g, T)
    BY <2>3, <2>4, <2>5, <2>6
  <2> QED
    BY <2>7
<1>3. Good \in SUBSET (SUBSET S)
  OBVIOUS
<1> HIDE DEF Good
<1>4. \A T \in SUBSET S : T \in Good
  BY <1>1, <1>2, <1>3, SubsetInduction
<1> QED
  BY <1>4 DEF Good

LEMMA SumAdds ==
    ASSUME NEW f, NEW g, NEW h, NEW S, IsFiniteSet(S),
           \A x \in S : g[x] \in Nat /\ h[x] \in Nat /\ f[x] = g[x] + h[x]
    PROVE  Sum(f, S) = Sum(g, S) + Sum(h, S)
<1> DEFINE Good == {T \in SUBSET S : Sum(f, T) = Sum(g, T) + Sum(h, T)}
<1>1. {} \in Good
  <2>1. Sum(f, {}) = 0 /\ Sum(g, {}) = 0 /\ Sum(h, {}) = 0
    BY SumStep
  <2> QED
    BY <2>1
<1>2. ASSUME NEW T \in SUBSET S, T # {}, \A x \in T : T \ {x} \in Good
      PROVE  T \in Good
  <2> DEFINE c == Picked(T)
             R == T \ {c}
  <2>1. c \in T
    BY <1>2 DEF Picked
  <2>2. IsFiniteSet(T) /\ IsFiniteSet(R)
    BY FS_Subset
  <2>3. /\ Sum(f, T) = f[c] + Sum(f, R)
        /\ Sum(g, T) = g[c] + Sum(g, R)
        /\ Sum(h, T) = h[c] + Sum(h, R)
    BY <1>2, <2>2, SumStep
  <2>4. Sum(f, R) = Sum(g, R) + Sum(h, R)
    BY <1>2, <2>1
  <2>5. c \in S /\ \A x \in R : x \in S
    BY <2>1
  <2>6. Sum(g, R) \in Nat /\ Sum(h, R) \in Nat
    BY <2>2, <2>5, SumIsNat
  <2> HIDE DEF c, R
  <2>7. Sum(f, T) = Sum(g, T) + Sum(h, T)
    BY <2>3, <2>4, <2>5, <2>6
  <2> QED
    BY <2>7
<1>3. Good \in SUBSET (SUBSET S)
  OBVIOUS
<1> HIDE DEF Good
<1>4. \A T \in SUBSET S : T \in Good
  BY <1>1, <1>2, <1>3, SubsetInduction
<1> QED
  BY <1>4 DEF Good

\* The sum over a part is the sum over the whole of what belongs to the part.
LEMMA SumOfPart ==
    ASSUME NEW f, NEW S, IsFiniteSet(S), NEW P \in SUBSET S, \A x \in P : f[x] \in Nat
    PROVE  Sum(f, P) = Sum([x \in S |-> IF x \in P THEN f[x] ELSE 0], S)
<1> DEFINE g == [x \in S |-> IF x \in P THEN f[x] ELSE 0]
           Good == {T \in SUBSET S : Sum(f, T \cap P) = Sum(g, T)}
<1>1. {} \in Good
  <2>1. Sum(f, {}) = 0 /\ Sum(g, {}) = 0
    BY SumStep
  <2>2. {} \cap P = {}
    OBVIOUS
  <2> QED
    BY <2>1, <2>2
<1>2. ASSUME NEW T \in SUBSET S, T # {}, \A x \in T : T \ {x} \in Good
      PROVE  T \in Good
  <2> DEFINE c == Picked(T)
             R == T \ {c}
  <2>1. c \in T
    BY <1>2 DEF Picked
  <2>2. IsFiniteSet(T) /\ IsFiniteSet(T \cap P) /\ IsFiniteSet(R \cap P)
    BY FS_Subset
  <2>3. Sum(g, T) = g[c] + Sum(g, R)
    BY <1>2, <2>2, SumStep
  <2>4. Sum(f, R \cap P) = Sum(g, R)
    BY <1>2, <2>1
  <2>5. g[c] = IF c \in P THEN f[c] ELSE 0
    BY <2>1
  <2>6. ASSUME c \in P PROVE Sum(f, T \cap P) = f[c] + Sum(f, R \cap P)
    <3>1. c \in T \cap P /\ (T \cap P) \ {c} = R \cap P
      BY <2>1, <2>6
    <3>2. \A x \in T \cap P : f[x] \in Nat
      OBVIOUS
    <3> HIDE DEF c, R
    <3> QED
      BY <2>2, <3>1, <3>2, SumRemove
  <2>7. ASSUME c \notin P PROVE Sum(f, T \cap P) = Sum(f, R \cap P)
    <3>1. T \cap P = R \cap P
      BY <2>7
    <3> QED
      BY <3>1
  <2>8. Sum(f, R \cap P) \in Nat
    BY <2>2, SumIsNat
  <2> HIDE DEF c, R, g
  <2>9. Sum(f, T \cap P) = Sum(g, T)
    <3>1. CASE c \in P
      BY <2>3, <2>4, <2>5, <2>6, <3>1
    <3>2. CASE c \notin P
      BY <2>3, <2>4, <2>5, <2>7, <2>8, <3>2
    <3> QED
      BY <3>1, <3>2
  <2> QED
    BY <2>9
<1>3. Good \in SUBSET (SUBSET S)
  OBVIOUS
<1> HIDE DEF Good, g
<1>4. \A T \in SUBSET S : T \in Good
  BY <1>1, <1>2, <1>3, SubsetInduction
<1>5. Sum(f, S \cap P) = Sum(g, S)
  BY <1>4 DEF Good
<1>6. S \cap P = P
  OBVIOUS
<1> QED
  BY <1>5, <1>6 DEF g

LEMMA SumSplit ==
    ASSUME NEW f, NEW S, NEW T, IsFiniteSet(S), IsFiniteSet(T), S \cap T = {},
           \A x \in S \cup T : f[x] \in Nat
    PROVE  Sum(f, S \cup T) = Sum(f, S) + Sum(f, T)
<1> DEFINE U == S \cup T
           g == [x \in U |-> IF x \in S THEN f[x] ELSE 0]
           h == [x \in U |-> IF x \in T THEN f[x] ELSE 0]
<1>1. IsFiniteSet(U) /\ S \in SUBSET U /\ T \in SUBSET U
  BY FS_Union
<1>2. \A x \in U : g[x] \in Nat /\ h[x] \in Nat /\ f[x] = g[x] + h[x]
  OBVIOUS
<1>3. Sum(f, S) = Sum(g, U)
  <2> HIDE DEF U
  <2>1. \A x \in S : f[x] \in Nat
    OBVIOUS
  <2> QED
    BY <1>1, <2>1, SumOfPart
<1>4. Sum(f, T) = Sum(h, U)
  <2> HIDE DEF U
  <2>1. \A x \in T : f[x] \in Nat
    OBVIOUS
  <2> QED
    BY <1>1, <2>1, SumOfPart
<1> HIDE DEF g, h
<1>5. Sum(f, U) = Sum(g, U) + Sum(h, U)
  BY <1>1, <1>2, SumAdds
<1> QED
  BY <1>3, <1>4, <1>5

\* The members of a set of positions, n places further.
Moved(T, n) == {i + n : i \in T}

LEMMA SumMoved ==
    ASSUME NEW f, NEW g, NEW S \in SUBSET Nat, IsFiniteSet(S), NEW n \in Nat,
           \A i \in S : f[i] \in Nat /\ g[i + n] = f[i]
    PROVE  Sum(g, Moved(S, n)) = Sum(f, S)
<1> DEFINE Good == {T \in SUBSET S : IsFiniteSet(Moved(T, n)) /\ Sum(g, Moved(T, n)) = Sum(f, T)}
<1>1. {} \in Good
  <2>1. Sum(f, {}) = 0 /\ Sum(g, {}) = 0
    BY SumStep
  <2>2. Moved({}, n) = {}
    BY DEF Moved
  <2> QED
    BY <2>1, <2>2, FS_EmptySet
<1>2. ASSUME NEW T \in SUBSET S, T # {}, \A x \in T : T \ {x} \in Good
      PROVE  T \in Good
  <2> DEFINE c == Picked(T)
             R == T \ {c}
  <2>1. c \in T /\ c \in S
    BY <1>2 DEF Picked
  <2>2. IsFiniteSet(T)
    BY FS_Subset
  <2>3. Sum(f, T) = f[c] + Sum(f, R)
    BY <1>2, <2>2, SumStep
  <2>4. IsFiniteSet(Moved(R, n)) /\ Sum(g, Moved(R, n)) = Sum(f, R)
    BY <1>2, <2>1
  <2>5. c \in Nat /\ R \in SUBSET Nat
    BY <2>1
  <2>6. R \cup {c} = T /\ c \notin R
    BY <2>1
  <2> HIDE DEF c, R
  <2>7. /\ Moved(T, n) = Moved(R, n) \cup {c + n}
        /\ c + n \notin Moved(R, n)
    BY <2>5, <2>6 DEF Moved
  <2>8. IsFiniteSet(Moved(T, n))
    BY <2>4, <2>7, FS_AddElement
  <2>9. \A y \in Moved(T, n) : g[y] \in Nat
    BY DEF Moved
  <2>10. Sum(g, Moved(T, n)) = g[c + n] + Sum(g, Moved(T, n) \ {c + n})
    <3>1. c + n \in Moved(T, n)
      BY <2>7
    <3> QED
      BY <2>8, <2>9, <3>1, SumRemove
  <2>11. Moved(T, n) \ {c + n} = Moved(R, n)
    BY <2>7
  <2>12. Sum(g, Moved(T, n)) = Sum(f, T)
    BY <2>1, <2>3, <2>4, <2>10, <2>11
  <2> QED
    BY <2>8, <2>12
<1>3. Good \in SUBSET (SUBSET S)
  OBVIOUS
<1> HIDE DEF Good
<1>4. \A T \in SUBSET S : T \in Good
  BY <1>1, <1>2, <1>3, SubsetInduction
<1> QED
  BY <1>4 DEF Good
=============================================================================
