------------------------------- MODULE Counting -------------------------------
(***************************************************************************)
(* Sums and counts over finite sets of any size, for the proofs about what *)
(* dashboards count and scores weigh.  The library states induction for a  *)
(* predicate; here it is stated for a set, that of what has the property.  *)
(***************************************************************************)
EXTENDS Integers, Functions, FiniteSetTheorems, WellFoundedInduction, TLAPS

\* A set of numbers has a least one.
LEMMA LeastNumber ==
    ASSUME NEW T, T \subseteq Nat, T # {}
    PROVE  \E x \in T : \A y \in T : x \leq y
<1> DEFINE R == {p \in Nat \X Nat : p[1] < p[2]}
<1>1. R = OpToRel(<, Nat)
  BY Zenon DEF OpToRel
<1>2. IsWellFoundedOn(R, Nat)
  BY <1>1, NatLessThanWellFounded, Zenon
<1>3. PICK x \in T : \A y \in T : ~ (<<y, x>> \in R)
  <2> HIDE DEF R
  <2>1. QED  BY <1>2, WFMin
<1>4. ASSUME NEW y \in T PROVE x \leq y
  <2>1. <<y, x>> \in Nat \X Nat /\ (<<y, x>>[1] < <<y, x>>[2] <=> y < x)
    OBVIOUS
  <2>2. QED  BY <1>3, <2>1
<1>5. QED  BY <1>4

\* What holds of a number when it holds of all that are smaller holds of all.
LEMMA SmallerFirst ==
    ASSUME NEW T, \A n \in Nat : (\A k \in Nat : k < n => k \in T) => n \in T
    PROVE  Nat \subseteq T
<1> SUFFICES ASSUME Nat \ T # {} PROVE FALSE
  OBVIOUS
<1>1. PICK n \in Nat \ T : \A k \in Nat \ T : n \leq k
  BY LeastNumber
<1>2. \A k \in Nat : k < n => k \in T
  BY <1>1
<1>3. QED  BY <1>1, <1>2

\* What holds of the empty set, and of a set with another element when it holds
\* of the set, holds of all finite sets.
LEMMA OneMoreElement ==
    ASSUME NEW S, IsFiniteSet(S), NEW C, {} \in C,
           \A s \in SUBSET S, x \in S : s \in C /\ x \notin s => s \cup {x} \in C
    PROVE  S \in C
<1> DEFINE T == {n \in Nat : \A s \in SUBSET S : Cardinality(s) = n => s \in C}
<1>1. ASSUME NEW n \in Nat, \A k \in Nat : k < n => k \in T PROVE n \in T
  <2>1. ASSUME NEW s \in SUBSET S, Cardinality(s) = n PROVE s \in C
    <3>1. CASE s = {}
      BY <3>1
    <3>2. CASE s # {}
      <4>1. PICK x \in s : TRUE
        BY <3>2
      <4>2. IsFiniteSet(s)
        BY FS_Subset
      <4>3. Cardinality(s) \in Nat /\ Cardinality(s \ {x}) = Cardinality(s) - 1 /\ Cardinality(s \ {x}) \in Nat
        BY <4>2, FS_RemoveElement, FS_CardinalityType
      <4>4. s \ {x} \in C
        BY <1>1, <2>1, <4>3
      <4>5. (s \ {x}) \cup {x} \in C
        BY <4>4
      <4>6. QED  BY <4>5
    <3>3. QED  BY <3>1, <3>2
  <2>2. QED  BY <2>1
<1>2. Nat \subseteq T
  <2> HIDE DEF T
  <2>1. QED  BY <1>1, SmallerFirst
<1>3. Cardinality(S) \in Nat
  BY FS_CardinalityType
<1>4. QED  BY <1>2, <1>3

-----------------------------------------------------------------------------
(* SumFunctionOnSet.                                                       *)

Pick(s) == CHOOSE x \in s : TRUE

\* g sums up f, on subsets of S.
Sums(g, f, S) == g = [s \in SUBSET S |-> IF s = {} THEN 0 ELSE f[Pick(s)] + g[s \ {Pick(s)}]]

LEMMA SumIsChosen ==
    ASSUME NEW f, NEW S
    PROVE  SumFunctionOnSet(f, S) = (CHOOSE g : Sums(g, f, S))[S]
BY DEF SumFunctionOnSet, FoldFunctionOnSet, MapThenFoldSet, Pick, Sums

LEMMA PickRemoved ==
    ASSUME NEW s, IsFiniteSet(s), s # {}
    PROVE  /\ Pick(s) \in s /\ IsFiniteSet(s \ {Pick(s)})
           /\ Cardinality(s) \in Nat /\ Cardinality(s \ {Pick(s)}) \in Nat
           /\ Cardinality(s \ {Pick(s)}) = Cardinality(s) - 1
BY FS_RemoveElement, FS_CardinalityType DEF Pick

LEMMA SumsExist ==
    ASSUME NEW f, NEW S, IsFiniteSet(S)
    PROVE  \E g : Sums(g, f, S)
<1> DEFINE D(n) == {s \in SUBSET S : Cardinality(s) \leq n}
           Partial(g, n) == g = [s \in D(n) |-> IF s = {} THEN 0 ELSE f[Pick(s)] + g[s \ {Pick(s)}]]
           T == {n \in Nat : \E g : Partial(g, n)}
<1>1. ASSUME NEW s \in SUBSET S PROVE IsFiniteSet(s) /\ Cardinality(s) \in Nat /\ Cardinality(s) \leq Cardinality(S)
  BY FS_Subset, FS_CardinalityType
<1>2. ASSUME NEW n \in Nat, \A k \in Nat : k < n => k \in T PROVE n \in T
  <2>1. CASE n = 0
    <3>1. D(0) = {{}}
      BY <1>1, FS_EmptySet
    <3>2. Partial([s \in D(0) |-> 0], 0)
      BY <3>1
    <3>3. QED  BY <2>1, <3>2
  <2>2. CASE n # 0
    <3>1. n - 1 \in T
      <4>1. n - 1 \in Nat /\ n - 1 < n
        BY <2>2
      <4> HIDE DEF T
      <4>2. QED  BY <1>2, <4>1
    <3>2. PICK h : Partial(h, n - 1)
      BY <3>1
    <3> DEFINE g == [s \in D(n) |-> IF s = {} THEN 0 ELSE f[Pick(s)] + h[s \ {Pick(s)}]]
    <3>3. ASSUME NEW s \in D(n), s # {} PROVE s \ {Pick(s)} \in D(n - 1)
      BY <1>1, <3>3, PickRemoved
    <3>4. ASSUME NEW s \in D(n - 1) PROVE s \in D(n) /\ g[s] = h[s]
      <4>1. s \in D(n)
        BY <1>1
      <4>2. h[s] = IF s = {} THEN 0 ELSE f[Pick(s)] + h[s \ {Pick(s)}]
        BY <3>2
      <4>3. QED  BY <4>1, <4>2
    <3>5. Partial(g, n)
      BY <3>3, <3>4
    <3>6. QED  BY <3>5
  <2>3. QED  BY <2>1, <2>2
<1>3. Nat \subseteq T
  <2> HIDE DEF T
  <2>1. QED  BY <1>2, SmallerFirst
<1>4. Cardinality(S) \in T
  BY <1>3, FS_CardinalityType
<1>5. D(Cardinality(S)) = SUBSET S
  BY <1>1
<1>6. QED  BY <1>4, <1>5 DEF Sums

LEMMA SumsAgree ==
    ASSUME NEW f, NEW S, NEW R, IsFiniteSet(S), IsFiniteSet(R),
           NEW g, NEW h, Sums(g, f, S), Sums(h, f, R)
    PROVE  \A s \in SUBSET (S \cap R) : g[s] = h[s]
<1> DEFINE T == {n \in Nat : \A s \in SUBSET (S \cap R) : Cardinality(s) = n => g[s] = h[s]}
<1>1. ASSUME NEW n \in Nat, \A k \in Nat : k < n => k \in T PROVE n \in T
  <2>1. ASSUME NEW s \in SUBSET (S \cap R), Cardinality(s) = n PROVE g[s] = h[s]
    <3>1. CASE s = {}
      BY <3>1 DEF Sums
    <3>2. CASE s # {}
      <4>1. IsFiniteSet(s)
        BY FS_Subset
      <4>2. g[s \ {Pick(s)}] = h[s \ {Pick(s)}]
        <5>1. /\ Cardinality(s \ {Pick(s)}) \in Nat /\ Cardinality(s \ {Pick(s)}) < n
              /\ s \ {Pick(s)} \in SUBSET (S \cap R)
          BY <2>1, <3>2, <4>1, PickRemoved
        <5>2. Cardinality(s \ {Pick(s)}) \in T
          <6> HIDE DEF T
          <6>1. QED  BY <1>1, <5>1
        <5>3. QED  BY <5>1, <5>2
      <4>3. QED  BY <3>2, <4>2 DEF Sums
    <3>3. QED  BY <3>1, <3>2
  <2>2. QED  BY <2>1
<1>2. Nat \subseteq T
  <2> HIDE DEF T
  <2>1. QED  BY <1>1, SmallerFirst
<1>3. \A s \in SUBSET (S \cap R) : Cardinality(s) \in Nat
  BY FS_Subset, FS_CardinalityType
<1>4. QED  BY <1>2, <1>3

\* The sum of nothing, and of a set from the element chosen first.
LEMMA SumRecursion ==
    ASSUME NEW f, NEW S, IsFiniteSet(S)
    PROVE  /\ SumFunctionOnSet(f, {}) = 0
           /\ S # {} => SumFunctionOnSet(f, S) = f[Pick(S)] + SumFunctionOnSet(f, S \ {Pick(S)})
<1> DEFINE G(R) == CHOOSE g : Sums(g, f, R)
<1>1. ASSUME NEW R, IsFiniteSet(R) PROVE Sums(G(R), f, R) /\ SumFunctionOnSet(f, R) = G(R)[R]
  BY <1>1, SumsExist, SumIsChosen
<1>2. SumFunctionOnSet(f, {}) = 0
  <2>1. Sums(G({}), f, {}) /\ SumFunctionOnSet(f, {}) = G({})[{}]
    BY <1>1, FS_EmptySet
  <2> HIDE DEF G
  <2>2. QED  BY <2>1 DEF Sums
<1>3. ASSUME S # {} PROVE SumFunctionOnSet(f, S) = f[Pick(S)] + SumFunctionOnSet(f, S \ {Pick(S)})
  <2> DEFINE R == S \ {Pick(S)}
  <2>1. IsFiniteSet(R) /\ R \in SUBSET (S \cap R) /\ R \in SUBSET S /\ S \in SUBSET S
    BY <1>3, PickRemoved
  <2>2. Sums(G(S), f, S) /\ Sums(G(R), f, R)
    BY <1>1, <2>1
  <2> HIDE DEF G
  <2>3. G(S)[R] = G(R)[R]
    <3> HIDE DEF R
    <3>1. QED  BY <2>1, <2>2, SumsAgree
  <2>4. G(S)[S] = f[Pick(S)] + G(S)[R]
    BY <1>3, <2>1, <2>2 DEF Sums
  <2>5. SumFunctionOnSet(f, S) = G(S)[S] /\ SumFunctionOnSet(f, R) = G(R)[R]
    BY <1>1, <2>1
  <2>6. QED  BY <2>3, <2>4, <2>5
<1>4. QED  BY <1>2, <1>3

\* An element more adds its value, whichever the sum is taken from first.
LEMMA SumOneMore ==
    ASSUME NEW f, NEW S, IsFiniteSet(S), NEW x, x \notin S,
           \A y \in S \cup {x} : f[y] \in Int
    PROVE  /\ SumFunctionOnSet(f, S) \in Int
           /\ SumFunctionOnSet(f, S \cup {x}) = f[x] + SumFunctionOnSet(f, S)
<1> DEFINE Sum(s) == SumFunctionOnSet(f, s)
           All == S \cup {x}
           Adds(s) == Sum(s) \in Int /\ \A y \in All \ s : Sum(s \cup {y}) = f[y] + Sum(s)
           T == {n \in Nat : \A s \in SUBSET All : Cardinality(s) = n => Adds(s)}
<1>1. ASSUME NEW s \in SUBSET All PROVE IsFiniteSet(s) /\ Cardinality(s) \in Nat
  BY FS_AddElement, FS_Subset, FS_CardinalityType
<1>2. Sum({}) = 0 /\ \A s \in SUBSET All : s # {} => Sum(s) = f[Pick(s)] + Sum(s \ {Pick(s)})
  BY <1>1, SumRecursion
<1>3. ASSUME NEW n \in Nat, \A k \in Nat : k < n => k \in T PROVE n \in T
  <2>1. ASSUME NEW r \in SUBSET All, Cardinality(r) < n PROVE Adds(r)
    <3>1. Cardinality(r) \in T
      <4> HIDE DEF T
      <4>1. QED  BY <1>1, <1>3, <2>1
    <3>2. QED  BY <3>1
  <2>2. ASSUME NEW s \in SUBSET All, Cardinality(s) = n PROVE Adds(s)
    <3> HIDE DEF Sum
    <3>1. ASSUME s # {}
          PROVE  /\ Pick(s) \in s /\ s \ {Pick(s)} \in SUBSET All /\ Cardinality(s \ {Pick(s)}) < n
                 /\ f[Pick(s)] \in Int /\ Sum(s \ {Pick(s)}) \in Int
                 /\ Sum(s) = f[Pick(s)] + Sum(s \ {Pick(s)})
      <4>1. Pick(s) \in s /\ s \ {Pick(s)} \in SUBSET All /\ Cardinality(s \ {Pick(s)}) < n
        BY <1>1, <2>2, <3>1, PickRemoved
      <4>2. Sum(s \ {Pick(s)}) \in Int
        BY <2>1, <4>1
      <4>3. QED  BY <1>2, <3>1, <4>1, <4>2
    <3>2. Sum(s) \in Int
      BY <1>2, <3>1
    <3>3. ASSUME NEW y \in All \ s PROVE Sum(s \cup {y}) = f[y] + Sum(s)
      <4> DEFINE t == s \cup {y}
                 p == Pick(t)
      <4>1. t \in SUBSET All /\ t # {} /\ IsFiniteSet(t) /\ p \in t /\ f[y] \in Int
        BY <1>1 DEF Pick
      <4>2. Sum(t) = f[p] + Sum(t \ {p})
        BY <1>2, <4>1
      <4>3. CASE p = y
        <5>1. t \ {p} = s
          BY <4>3
        <5>2. QED  BY <4>2, <4>3, <5>1
      <4>4. CASE p # y
        <5> DEFINE r == s \ {p}
        <5>1. p \in s /\ r \in SUBSET All /\ IsFiniteSet(s)
          BY <1>1, <4>1, <4>4
        <5>2. Cardinality(r) < n /\ y \in All \ r /\ p \in All \ r
          <6>1. Cardinality(r) = Cardinality(s) - 1
            BY <5>1, FS_RemoveElement
          <6>2. QED  BY <2>2, <5>1, <6>1
        <5>3. Sum(r) \in Int /\ Sum(r \cup {y}) = f[y] + Sum(r) /\ Sum(r \cup {p}) = f[p] + Sum(r)
          BY <2>1, <5>1, <5>2
        <5>4. t \ {p} = r \cup {y} /\ s = r \cup {p}
          BY <4>4, <5>1
        <5>5. f[p] \in Int
          BY <5>1
        <5>6. Sum(s) = f[p] + Sum(r) /\ Sum(t) = f[p] + (f[y] + Sum(r))
          BY <4>2, <5>3, <5>4
        <5>7. QED  BY <4>1, <5>3, <5>5, <5>6
      <4>5. QED  BY <4>3, <4>4
    <3>4. QED  BY <3>2, <3>3
  <2>3. QED  BY <2>2
<1>4. Nat \subseteq T
  <2> HIDE DEF T
  <2>1. QED  BY <1>3, SmallerFirst
<1>5. Adds(S)
  BY <1>1, <1>4
<1>6. QED  BY <1>5

\* The same, for a function on a set that does not change.
LEMMA SumStep ==
    ASSUME NEW S, IsFiniteSet(S), NEW f, \A x \in S : f[x] \in Int,
           NEW s \in SUBSET S, NEW x \in S, x \notin s
    PROVE  /\ SumFunctionOnSet(f, s) \in Int
           /\ SumFunctionOnSet(f, s \cup {x}) = f[x] + SumFunctionOnSet(f, s)
<1>1. IsFiniteSet(s)
  BY FS_Subset
<1>2. \A y \in s \cup {x} : f[y] \in Int
  OBVIOUS
<1>3. QED  BY <1>1, <1>2, SumOneMore

LEMMA SumOfNone == ASSUME NEW f PROVE SumFunctionOnSet(f, {}) = 0
BY FS_EmptySet, SumRecursion

LEMMA SumType ==
    ASSUME NEW S, IsFiniteSet(S), NEW f, \A x \in S : f[x] \in Int
    PROVE  SumFunctionOnSet(f, S) \in Int
<1> DEFINE C == {s \in SUBSET S : SumFunctionOnSet(f, s) \in Int}
<1>1. {} \in C
  BY SumOfNone
<1>2. ASSUME NEW s \in SUBSET S, NEW x \in S, s \in C, x \notin s PROVE s \cup {x} \in C
  BY <1>2, SumStep
<1>3. S \in C
  <2> HIDE DEF C
  <2>1. QED  BY <1>1, <1>2, OneMoreElement
<1>4. QED  BY <1>3

\* A sum of terms that are each between those of two others is between theirs.
LEMMA SumAtMost ==
    ASSUME NEW S, IsFiniteSet(S), NEW f, NEW g,
           \A x \in S : f[x] \in Int /\ g[x] \in Int /\ f[x] \leq g[x]
    PROVE  SumFunctionOnSet(f, S) \leq SumFunctionOnSet(g, S)
<1> DEFINE C == {s \in SUBSET S : SumFunctionOnSet(f, s) \leq SumFunctionOnSet(g, s)}
<1>1. {} \in C
  BY SumOfNone
<1>2. ASSUME NEW s \in SUBSET S, NEW x \in S, s \in C, x \notin s PROVE s \cup {x} \in C
  <2>1. /\ SumFunctionOnSet(f, s) \in Int /\ SumFunctionOnSet(f, s \cup {x}) = f[x] + SumFunctionOnSet(f, s)
        /\ SumFunctionOnSet(g, s) \in Int /\ SumFunctionOnSet(g, s \cup {x}) = g[x] + SumFunctionOnSet(g, s)
    BY <1>2, SumStep
  <2>2. f[x] \in Int /\ g[x] \in Int /\ f[x] \leq g[x]
    OBVIOUS
  <2>3. QED  BY <1>2, <2>1, <2>2
<1>3. S \in C
  <2> HIDE DEF C
  <2>1. QED  BY <1>1, <1>2, OneMoreElement
<1>4. QED  BY <1>3

LEMMA SumSame ==
    ASSUME NEW S, IsFiniteSet(S), NEW f, NEW g, \A x \in S : f[x] \in Int /\ g[x] = f[x]
    PROVE  SumFunctionOnSet(g, S) = SumFunctionOnSet(f, S)
<1>1. SumFunctionOnSet(f, S) \in Int /\ SumFunctionOnSet(g, S) \in Int
  BY SumType
<1>2. SumFunctionOnSet(f, S) \leq SumFunctionOnSet(g, S)
  BY SumAtMost
<1>3. SumFunctionOnSet(g, S) \leq SumFunctionOnSet(f, S)
  BY SumAtMost
<1>4. QED  BY <1>1, <1>2, <1>3

LEMMA SumPlus ==
    ASSUME NEW S, IsFiniteSet(S), NEW f, NEW g, NEW h,
           \A x \in S : f[x] \in Int /\ g[x] \in Int /\ h[x] = f[x] + g[x]
    PROVE  SumFunctionOnSet(h, S) = SumFunctionOnSet(f, S) + SumFunctionOnSet(g, S)
<1> DEFINE C == {s \in SUBSET S : SumFunctionOnSet(h, s) = SumFunctionOnSet(f, s) + SumFunctionOnSet(g, s)}
<1>1. {} \in C
  BY SumOfNone
<1>2. ASSUME NEW s \in SUBSET S, NEW x \in S, s \in C, x \notin s PROVE s \cup {x} \in C
  <2>1. \A y \in S : f[y] \in Int /\ g[y] \in Int /\ h[y] \in Int
    OBVIOUS
  <2>2. /\ SumFunctionOnSet(f, s) \in Int /\ SumFunctionOnSet(f, s \cup {x}) = f[x] + SumFunctionOnSet(f, s)
        /\ SumFunctionOnSet(g, s) \in Int /\ SumFunctionOnSet(g, s \cup {x}) = g[x] + SumFunctionOnSet(g, s)
    BY <1>2, <2>1, SumStep
  <2>3. SumFunctionOnSet(h, s \cup {x}) = h[x] + SumFunctionOnSet(h, s)
    BY <1>2, <2>1, SumStep
  <2>4. f[x] \in Int /\ g[x] \in Int /\ h[x] = f[x] + g[x]
    OBVIOUS
  <2>5. QED  BY <1>2, <2>2, <2>3, <2>4
<1>3. S \in C
  <2> HIDE DEF C
  <2>1. QED  BY <1>1, <1>2, OneMoreElement
<1>4. QED  BY <1>3

LEMMA SumTimes ==
    ASSUME NEW S, IsFiniteSet(S), NEW f, NEW g, NEW k \in Int,
           \A x \in S : f[x] \in Int /\ g[x] = k * f[x]
    PROVE  SumFunctionOnSet(g, S) = k * SumFunctionOnSet(f, S)
<1> DEFINE C == {s \in SUBSET S : SumFunctionOnSet(g, s) = k * SumFunctionOnSet(f, s)}
<1>1. {} \in C
  BY SumOfNone
<1>2. ASSUME NEW s \in SUBSET S, NEW x \in S, s \in C, x \notin s PROVE s \cup {x} \in C
  <2> DEFINE a == SumFunctionOnSet(f, s)
             b == f[x]
  <2>1. /\ SumFunctionOnSet(f, s) \in Int /\ SumFunctionOnSet(f, s \cup {x}) = f[x] + SumFunctionOnSet(f, s)
        /\ SumFunctionOnSet(g, s \cup {x}) = g[x] + SumFunctionOnSet(g, s)
    BY <1>2, SumStep
  <2>2. a \in Int /\ b \in Int /\ SumFunctionOnSet(g, s \cup {x}) = k * b + k * a
    BY <1>2, <2>1
  <2>3. k * (b + a) = k * b + k * a
    <3> HIDE DEF a, b
    <3>1. QED  BY <2>2
  <2>4. QED  BY <2>1, <2>2, <2>3
<1>3. S \in C
  <2> HIDE DEF C
  <2>1. QED  BY <1>1, <1>2, OneMoreElement
<1>4. QED  BY <1>3

\* A sum of equal values.
LEMMA SumOfEqual ==
    ASSUME NEW S, IsFiniteSet(S), NEW f, NEW k \in Int, \A x \in S : f[x] = k
    PROVE  /\ Cardinality(S) \in Nat
           /\ SumFunctionOnSet(f, S) = k * Cardinality(S)
<1> DEFINE C == {s \in SUBSET S : SumFunctionOnSet(f, s) = k * Cardinality(s)}
<1>1. {} \in C
  BY FS_EmptySet, SumOfNone
<1>2. ASSUME NEW s \in SUBSET S, NEW x \in S, s \in C, x \notin s PROVE s \cup {x} \in C
  <2>1. IsFiniteSet(s) /\ Cardinality(s) \in Nat /\ Cardinality(s \cup {x}) = Cardinality(s) + 1
    BY <1>2, FS_Subset, FS_CardinalityType, FS_AddElement
  <2>2. SumFunctionOnSet(f, s \cup {x}) = k + SumFunctionOnSet(f, s)
    BY <1>2, SumStep
  <2>3. SumFunctionOnSet(f, s) = k * Cardinality(s)
    BY <1>2
  <2>4. k + k * Cardinality(s) = k * (Cardinality(s) + 1)
    BY <2>1, SMT
  <2>5. QED  BY <2>1, <2>2, <2>3, <2>4
<1> HIDE DEF C
<1>3. S \in C
  BY <1>1, <1>2, OneMoreElement
<1>4. QED  BY <1>3, FS_CardinalityType DEF C

LEMMA SumOfZeros ==
    ASSUME NEW S, IsFiniteSet(S), NEW f, \A x \in S : f[x] = 0
    PROVE  SumFunctionOnSet(f, S) = 0
<1>1. SumFunctionOnSet(f, S) = 0 * SumFunctionOnSet(f, S)
  BY SumTimes
<1>2. SumFunctionOnSet(f, S) \in Int
  BY SumType
<1>3. QED  BY <1>1, <1>2

\* Of two sets that have nothing in common.
LEMMA SumUnion ==
    ASSUME NEW S, NEW R, IsFiniteSet(S), IsFiniteSet(R), S \cap R = {},
           NEW f, \A x \in S \cup R : f[x] \in Int
    PROVE  /\ IsFiniteSet(S \cup R)
           /\ SumFunctionOnSet(f, S \cup R) = SumFunctionOnSet(f, S) + SumFunctionOnSet(f, R)
<1> DEFINE C == {s \in SUBSET R : SumFunctionOnSet(f, S \cup s) = SumFunctionOnSet(f, S) + SumFunctionOnSet(f, s)}
<1>0. IsFiniteSet(S \cup R) /\ SumFunctionOnSet(f, S) \in Int
  BY FS_Union, SumType
<1>1. {} \in C
  <2>1. S \cup {} = S
    OBVIOUS
  <2>2. QED  BY <1>0, <2>1, SumOfNone
<1>2. ASSUME NEW s \in SUBSET R, NEW x \in R, s \in C, x \notin s PROVE s \cup {x} \in C
  <2>1. S \cup s \in SUBSET (S \cup R) /\ x \notin S \cup s /\ S \cup (s \cup {x}) = (S \cup s) \cup {x}
    BY <1>2
  <2>2. SumFunctionOnSet(f, (S \cup s) \cup {x}) = f[x] + SumFunctionOnSet(f, S \cup s)
    <3> DEFINE All == S \cup R
               some == S \cup s
    <3>1. IsFiniteSet(All) /\ some \in SUBSET All /\ x \in All /\ x \notin some /\ \A y \in All : f[y] \in Int
      BY <1>0, <2>1
    <3> HIDE DEF All, some
    <3>2. SumFunctionOnSet(f, some \cup {x}) = f[x] + SumFunctionOnSet(f, some)
      BY <3>1, SumStep
    <3>3. QED  BY <3>2 DEF some
  <2>3. SumFunctionOnSet(f, s) \in Int /\ SumFunctionOnSet(f, s \cup {x}) = f[x] + SumFunctionOnSet(f, s)
    BY <1>2, SumStep
  <2>4. f[x] \in Int
    OBVIOUS
  <2> DEFINE a == SumFunctionOnSet(f, S)
             b == SumFunctionOnSet(f, s)
             c == SumFunctionOnSet(f, S \cup s)
             d == SumFunctionOnSet(f, s \cup {x})
             e == SumFunctionOnSet(f, S \cup (s \cup {x}))
  <2>5. c = a + b
    BY <1>2
  <2>6. e = f[x] + c
    BY <2>1, <2>2, Zenon
  <2>7. a \in Int /\ b \in Int /\ d = f[x] + b
    BY <1>0, <2>3
  <2>8. e = a + d
    <3> HIDE DEF a, b, c, d, e
    <3>1. QED  BY <2>4, <2>5, <2>6, <2>7
  <2>9. QED  BY <2>8
<1>3. R \in C
  <2> HIDE DEF C
  <2>1. QED  BY <1>1, <1>2, OneMoreElement
<1>4. QED  BY <1>0, <1>3

\* What is not negative does not add up to less when there is more of it.
LEMMA SumOfPart ==
    ASSUME NEW S, IsFiniteSet(S), NEW f, \A x \in S : f[x] \in Nat, NEW s \in SUBSET S
    PROVE  SumFunctionOnSet(f, s) \leq SumFunctionOnSet(f, S)
<1> DEFINE rest == S \ s
           zero == [x \in rest |-> 0]
<1>1. IsFiniteSet(s) /\ IsFiniteSet(rest) /\ s \cap rest = {} /\ S = s \cup rest
  BY FS_Subset
<1>2. SumFunctionOnSet(f, S) = SumFunctionOnSet(f, s) + SumFunctionOnSet(f, rest)
  BY <1>1, SumUnion
<1>3. SumFunctionOnSet(zero, rest) = 0
  BY <1>1, SumOfZeros
<1>4. SumFunctionOnSet(zero, rest) \leq SumFunctionOnSet(f, rest)
  BY <1>1, SumAtMost
<1>5. SumFunctionOnSet(f, s) \in Int /\ SumFunctionOnSet(f, rest) \in Int
  BY <1>1, SumType
<1> HIDE DEF zero, rest
<1>6. QED  BY <1>2, <1>3, <1>4, <1>5

LEMMA SumOfOne ==
    ASSUME NEW f, NEW x, f[x] \in Int
    PROVE  IsFiniteSet({x}) /\ SumFunctionOnSet(f, {x}) = f[x]
<1>1. IsFiniteSet({}) /\ IsFiniteSet({x}) /\ {} \cup {x} = {x}
  BY FS_EmptySet, FS_Singleton
<1>2. SumFunctionOnSet(f, {} \cup {x}) = f[x] + SumFunctionOnSet(f, {})
  BY <1>1, SumOneMore
<1>3. QED  BY <1>1, <1>2, SumOfNone

\* When all but one are zero, the sum is that one.
LEMMA SumOnly ==
    ASSUME NEW S, IsFiniteSet(S), NEW x \in S, NEW f, f[x] \in Int, \A y \in S \ {x} : f[y] = 0
    PROVE  SumFunctionOnSet(f, S) = f[x]
<1>1. IsFiniteSet(S \ {x}) /\ S = (S \ {x}) \cup {x}
  BY FS_Subset
<1>2. SumFunctionOnSet(f, S \ {x}) = 0
  BY <1>1, SumOfZeros
<1>3. \A y \in (S \ {x}) \cup {x} : f[y] \in Int
  OBVIOUS
<1>4. SumFunctionOnSet(f, (S \ {x}) \cup {x}) = f[x] + SumFunctionOnSet(f, S \ {x})
  BY <1>1, <1>3, SumOneMore
<1>5. SumFunctionOnSet(f, S) = f[x] + 0
  BY <1>1, <1>2, <1>4, Zenon
<1>6. QED  BY <1>5

\* A sum does not depend on the names of its terms.
LEMMA SumRenamed ==
    ASSUME NEW S, IsFiniteSet(S), NEW b, \A x, y \in S : b[x] = b[y] => x = y,
           NEW f, NEW g, \A x \in S : g[x] \in Int /\ f[b[x]] = g[x],
           NEW R, \A y : y \in R <=> \E x \in S : y = b[x]
    PROVE  SumFunctionOnSet(f, R) = SumFunctionOnSet(g, S)
<1> DEFINE of(s) == {b[x] : x \in s}
           C == {s \in SUBSET S : IsFiniteSet(of(s)) /\ SumFunctionOnSet(f, of(s)) = SumFunctionOnSet(g, s)}
<1>1. {} \in C
  <2>1. of({}) = {}
    OBVIOUS
  <2> HIDE DEF of
  <2>2. QED  BY <2>1, SumOfNone, FS_EmptySet
<1>2. ASSUME NEW s \in SUBSET S, NEW x \in S, s \in C, x \notin s PROVE s \cup {x} \in C
  <2>1. of(s \cup {x}) = of(s) \cup {b[x]} /\ b[x] \notin of(s)
    BY <1>2
  <2>2. \A y \in of(s) \cup {b[x]} : f[y] \in Int
    OBVIOUS
  <2>3. IsFiniteSet(of(s)) /\ SumFunctionOnSet(f, of(s)) = SumFunctionOnSet(g, s)
    BY <1>2
  <2>4. SumFunctionOnSet(g, s \cup {x}) = g[x] + SumFunctionOnSet(g, s)
    BY <1>2, SumStep
  <2>5. f[b[x]] = g[x]
    OBVIOUS
  <2> HIDE DEF of
  <2>6. IsFiniteSet(of(s) \cup {b[x]})
        /\ SumFunctionOnSet(f, of(s) \cup {b[x]}) = f[b[x]] + SumFunctionOnSet(f, of(s))
    <3> DEFINE T == of(s)
               y == b[x]
    <3>1. IsFiniteSet(T) /\ y \notin T /\ \A z \in T \cup {y} : f[z] \in Int
      BY <2>1, <2>2, <2>3
    <3> HIDE DEF T, y
    <3>2. SumFunctionOnSet(f, T \cup {y}) = f[y] + SumFunctionOnSet(f, T)
      BY <3>1, SumOneMore
    <3>3. IsFiniteSet(T \cup {y})
      BY <3>1, FS_AddElement
    <3>4. QED  BY <3>2, <3>3 DEF T, y
  <2>7. QED  BY <2>1, <2>3, <2>4, <2>5, <2>6
<1>3. S \in C
  <2> HIDE DEF C
  <2>1. QED  BY <1>1, <1>2, OneMoreElement
<1>4. R = of(S)
  OBVIOUS
<1> HIDE DEF of
<1>5. QED  BY <1>3, <1>4

\* A sum term by term: n is the sum of f on S.
Adds(f, S, n) ==
    IsFiniteSet(S) /\ (\A y \in S : f[y] \in Int) /\ n \in Int /\ SumFunctionOnSet(f, S) = n

LEMMA NoneAdd == ASSUME NEW f PROVE Adds(f, {}, 0)
BY FS_EmptySet, SumOfNone DEF Adds

LEMMA OneMoreAdds ==
    ASSUME NEW f, NEW S, NEW n, Adds(f, S, n), NEW x, x \notin S, NEW k \in Int, f[x] = k,
           NEW R, R = S \cup {x}
    PROVE  Adds(f, R, n + k)
<1>1. /\ IsFiniteSet(S \cup {x}) /\ \A y \in S \cup {x} : f[y] \in Int
      /\ IsFiniteSet(S) /\ SumFunctionOnSet(f, S) = n /\ n \in Int
  BY FS_AddElement DEF Adds
<1>2. SumFunctionOnSet(f, S \cup {x}) = k + n
  BY <1>1, SumOneMore
<1>3. n + k = k + n /\ n + k \in Int
  BY <1>1
<1>4. QED  BY <1>1, <1>2, <1>3, Zenon DEF Adds

LEMMA FirstAdds ==
    ASSUME NEW f, NEW x, NEW k \in Int, f[x] = k
    PROVE  Adds(f, {x}, k)
BY SumOfOne DEF Adds

\* Of finitely many values one is the largest.
LEMMA LargestValue ==
    ASSUME NEW S, IsFiniteSet(S), S # {}, NEW f, \A x \in S : f[x] \in Int
    PROVE  \E x \in S : \A y \in S : f[y] \leq f[x]
<1> DEFINE C == {s \in SUBSET S : s # {} => \E x \in s : \A y \in s : f[y] \leq f[x]}
<1>1. {} \in C
  OBVIOUS
<1>2. ASSUME NEW s \in SUBSET S, NEW x \in S, s \in C, x \notin s PROVE s \cup {x} \in C
  <2>1. CASE s = {}
    BY <2>1
  <2>2. CASE s # {}
    <3>1. PICK z \in s : \A y \in s : f[y] \leq f[z]
      BY <1>2, <2>2
    <3>2. CASE f[z] \leq f[x]
      BY <3>1, <3>2
    <3>3. CASE ~ (f[z] \leq f[x])
      BY <3>1, <3>3
    <3>4. QED  BY <3>2, <3>3
  <2>3. QED  BY <2>1, <2>2
<1>3. S \in C
  <2> HIDE DEF C
  <2>1. QED  BY <1>1, <1>2, OneMoreElement
<1>4. QED  BY <1>3

-----------------------------------------------------------------------------
(* Rounding down.                                                          *)

LEMMA Quotient ==
    ASSUME NEW a \in Int, NEW b \in Int, b > 0
    PROVE  /\ a \div b \in Int
           /\ b * (a \div b) \leq a
           /\ a < b * (a \div b) + b
OBVIOUS

\* What is rounded down to is between the same whole numbers.
LEMMA QuotientBetween ==
    ASSUME NEW a \in Int, NEW b \in Int, b > 0, NEW k \in Int
    PROVE  /\ k * b \leq a => k \leq a \div b
           /\ a \leq k * b => a \div b \leq k
<1> DEFINE q == a \div b
<1>1. q \in Int /\ b * q \leq a /\ a < b * q + b
  BY Quotient
<1> HIDE DEF q
<1>2. ASSUME k * b \leq a, q < k PROVE FALSE
  <2>1. q + 1 \leq k
    BY <1>1, <1>2
  <2>2. b * (q + 1) \leq b * k
    BY <1>1, <2>1
  <2>3. b * (q + 1) = b * q + b /\ b * k = k * b
    BY <1>1
  <2>4. b * q \in Int /\ b * k \in Int
    BY <1>1
  <2>5. QED  BY <1>1, <1>2, <2>2, <2>3, <2>4
<1>3. ASSUME a \leq k * b, k < q PROVE FALSE
  <2>1. k + 1 \leq q
    BY <1>1, <1>3
  <2>2. b * (k + 1) \leq b * q
    BY <1>1, <2>1
  <2>3. b * (k + 1) = k * b + b /\ k * b \in Int /\ b * q \in Int
    BY <1>1
  <2>4. QED  BY <1>1, <1>3, <2>2, <2>3
<1>4. QED  BY <1>1, <1>2, <1>3 DEF q

LEMMA QuotientMonotone ==
    ASSUME NEW a \in Int, NEW c \in Int, a \leq c, NEW b \in Int, b > 0
    PROVE  a \div b \leq c \div b
<1> DEFINE q == a \div b
<1>1. q \in Int /\ b * q \leq a
  BY Quotient
<1> HIDE DEF q
<1>2. q * b \leq c
  BY <1>1
<1>3. q \leq c \div b
  BY <1>1, <1>2, QuotientBetween
<1>4. QED  BY <1>3 DEF q

\* What is not negative is not more when more share it.
LEMMA QuotientShared ==
    ASSUME NEW a \in Nat, NEW b \in Int, NEW c \in Int, b > 0, b \leq c
    PROVE  a \div c \leq a \div b
<1> DEFINE q == a \div c
<1>1. q \in Int /\ c * q \leq a /\ a < c * q + c /\ c > 0
  BY Quotient
<1> HIDE DEF q
<1>2. q >= 0
  <2>1. 0 * c \leq a
    BY <1>1
  <2>2. QED  BY <1>1, <2>1, QuotientBetween DEF q
<1>3. q * b \leq c * q
  BY <1>1, <1>2
<1>4. q * b \in Int /\ c * q \in Int
  BY <1>1
<1>5. q * b \leq a
  BY <1>1, <1>3, <1>4
<1>6. q \leq a \div b
  BY <1>1, <1>5, QuotientBetween
<1>7. QED  BY <1>6 DEF q

\* Rounding every term loses less than one each.
LEMMA SumRounded ==
    ASSUME NEW S, IsFiniteSet(S), NEW b \in Int, b > 0, NEW f, NEW g,
           \A x \in S : f[x] \in Int /\ g[x] = f[x] \div b
    PROVE  /\ SumFunctionOnSet(g, S) \leq SumFunctionOnSet(f, S) \div b
           /\ (SumFunctionOnSet(f, S) \div b) - Cardinality(S) \leq SumFunctionOnSet(g, S)
<1> DEFINE C == {s \in SUBSET S : /\ b * SumFunctionOnSet(g, s) \leq SumFunctionOnSet(f, s)
                                  /\ SumFunctionOnSet(f, s) \leq b * (SumFunctionOnSet(g, s) + Cardinality(s))}
<1>1. {} \in C
  BY SumOfNone, FS_EmptySet
<1>2. ASSUME NEW s \in SUBSET S, NEW x \in S, s \in C, x \notin s PROVE s \cup {x} \in C
  <2> DEFINE F == SumFunctionOnSet(f, s)
             G == SumFunctionOnSet(g, s)
             n == Cardinality(s)
  <2>1. \A y \in S : f[y] \in Int /\ g[y] \in Int
    BY Quotient
  <2>2. /\ F \in Int /\ SumFunctionOnSet(f, s \cup {x}) = f[x] + F
        /\ G \in Int /\ SumFunctionOnSet(g, s \cup {x}) = g[x] + G
    BY <1>2, <2>1, SumStep
  <2>3. n \in Nat /\ Cardinality(s \cup {x}) = n + 1
    BY <1>2, FS_Subset, FS_CardinalityType, FS_AddElement
  <2>4. b * g[x] \leq f[x] /\ f[x] < b * g[x] + b
    BY Quotient
  <2>5. b * G \leq F /\ F \leq b * (G + n)
    BY <1>2
  <2>6. s \cup {x} \in C <=> /\ b * (g[x] + G) \leq f[x] + F
                             /\ f[x] + F \leq b * ((g[x] + G) + (n + 1))
    BY <2>2, <2>3
  <2> HIDE DEF F, G, n
  <2>7. /\ b * (g[x] + G) = b * g[x] + b * G
        /\ b * ((g[x] + G) + (n + 1)) = b * g[x] + b + b * (G + n)
    <3> DEFINE h == g[x]
    <3>1. b \in Int /\ h \in Int /\ G \in Int /\ n \in Int
      BY <2>1, <2>2, <2>3
    <3> HIDE DEF h
    <3>2. /\ b * (h + G) = b * h + b * G
          /\ b * ((h + G) + (n + 1)) = b * h + b + b * (G + n)
      BY <3>1
    <3>3. QED  BY <3>2 DEF h
  <2>8. b * g[x] \in Int /\ b * G \in Int /\ b * (G + n) \in Int /\ f[x] \in Int
    BY <2>1, <2>2, <2>3
  <2>9. QED  BY <2>2, <2>4, <2>5, <2>6, <2>7, <2>8
<1>3. S \in C
  <2> HIDE DEF C
  <2>1. QED  BY <1>1, <1>2, OneMoreElement
<1>4. SumFunctionOnSet(f, S) \in Int /\ SumFunctionOnSet(g, S) \in Int /\ Cardinality(S) \in Nat
  BY Quotient, SumType, FS_CardinalityType
<1> DEFINE F == SumFunctionOnSet(f, S)
           G == SumFunctionOnSet(g, S)
           n == Cardinality(S)
<1>5. b * G \leq F /\ F \leq b * (G + n) /\ F \in Int /\ G \in Int /\ n \in Nat
  BY <1>3, <1>4
<1> HIDE DEF F, G, n
<1>6. G \leq F \div b
  BY <1>5, QuotientBetween
<1>7. F \div b \leq G + n
  BY <1>5, QuotientBetween
<1>8. (F \div b) - n \leq G
  BY <1>5, <1>7, Quotient
<1>9. QED  BY <1>6, <1>8 DEF F, G, n

-----------------------------------------------------------------------------
(* Counts.                                                                 *)

\* Every element has one value: counting those of each value counts them all.
LEMMA CountByValues ==
    ASSUME NEW S, IsFiniteSet(S), NEW T, IsFiniteSet(T), NEW f, \A x \in S : f[x] \in T,
           NEW parts, \A t \in T : \A x : x \in parts[t] <=> x \in S /\ f[x] = t,
           NEW counts, \A t \in T : counts[t] = Cardinality(parts[t])
    PROVE  SumFunctionOnSet(counts, T) = Cardinality(S)
<1> DEFINE Of(s, t) == {x \in s : f[x] = t}
           count(s) == [t \in T |-> Cardinality(Of(s, t))]
           C == {s \in SUBSET S : SumFunctionOnSet(count(s), T) = Cardinality(s)}
<1>0. ASSUME NEW s \in SUBSET S
      PROVE  /\ IsFiniteSet(s) /\ Cardinality(s) \in Nat
             /\ \A t \in T : IsFiniteSet(Of(s, t)) /\ count(s)[t] = Cardinality(Of(s, t)) /\ count(s)[t] \in Nat
  BY FS_Subset, FS_CardinalityType
<1>1. {} \in C
  <2>1. \A t \in T : count({})[t] = 0
    BY FS_EmptySet
  <2> HIDE DEF count
  <2>2. SumFunctionOnSet(count({}), T) = 0
    BY <2>1, SumOfZeros
  <2>3. QED  BY <2>2, FS_EmptySet
<1>2. ASSUME NEW s \in SUBSET S, NEW x \in S, s \in C, x \notin s PROVE s \cup {x} \in C
  <2> DEFINE r == s \cup {x}
             one == [t \in T |-> IF t = f[x] THEN 1 ELSE 0]
  <2>1. Cardinality(r) = Cardinality(s) + 1
    BY <1>0, <1>2, FS_AddElement
  <2>2. ASSUME NEW t \in T
        PROVE  count(s)[t] \in Int /\ one[t] \in Int /\ count(r)[t] = count(s)[t] + one[t]
    <3>0. /\ count(s)[t] = Cardinality(Of(s, t)) /\ count(s)[t] \in Nat
          /\ count(r)[t] = Cardinality(Of(r, t)) /\ one[t] = IF t = f[x] THEN 1 ELSE 0
      BY <1>0
    <3>1. CASE t = f[x]
      <4>1. Of(r, t) = Of(s, t) \cup {x} /\ x \notin Of(s, t)
        BY <1>2, <3>1
      <4>2. Cardinality(Of(s, t) \cup {x}) = Cardinality(Of(s, t)) + 1
        <5> HIDE DEF Of
        <5>1. QED  BY <1>0, <4>1, FS_AddElement
      <4> HIDE DEF count, one, Of, r
      <4>3. QED  BY <3>0, <3>1, <4>1, <4>2
    <3>2. CASE t # f[x]
      <4>1. Of(r, t) = Of(s, t)
        BY <3>2
      <4> HIDE DEF count, one, Of, r
      <4>2. QED  BY <3>0, <3>2, <4>1
    <3>3. QED  BY <3>1, <3>2
  <2>3. SumFunctionOnSet(one, T) = 1
    <3>1. f[x] \in T /\ one[f[x]] = 1 /\ \A t \in T \ {f[x]} : one[t] = 0
      OBVIOUS
    <3> HIDE DEF one
    <3>2. one[f[x]] \in Int
      BY <3>1
    <3>3. SumFunctionOnSet(one, T) = one[f[x]]
      BY <3>1, <3>2, SumOnly
    <3>4. QED  BY <3>1, <3>3
  <2>4. SumFunctionOnSet(count(r), T) = SumFunctionOnSet(count(s), T) + SumFunctionOnSet(one, T)
    <3> HIDE DEF count, one, r
    <3>1. QED  BY <2>2, SumPlus
  <2>5. SumFunctionOnSet(count(s), T) = Cardinality(s)
    BY <1>2
  <2>6. SumFunctionOnSet(count(r), T) = Cardinality(r)
    BY <2>1, <2>3, <2>4, <2>5
  <2>7. QED  BY <2>6
<1>3. S \in C
  <2> HIDE DEF C
  <2>1. QED  BY <1>1, <1>2, OneMoreElement
<1>4. ASSUME NEW t \in T PROVE count(S)[t] \in Int /\ counts[t] = count(S)[t]
  <2>1. parts[t] = Of(S, t)
    OBVIOUS
  <2>2. count(S)[t] = Cardinality(Of(S, t)) /\ count(S)[t] \in Nat
    BY <1>0
  <2> HIDE DEF count, Of
  <2>3. QED  BY <2>1, <2>2
<1>5. SumFunctionOnSet(counts, T) = SumFunctionOnSet(count(S), T)
  <2> HIDE DEF count
  <2>1. QED  BY <1>4, SumSame
<1>6. QED  BY <1>3, <1>5

\* Counting the elements below each one numbers them 0, 1, 2, ..., each number
\* once, when of any two one is below the other.
LEMMA RanksNumber ==
    ASSUME NEW S, IsFiniteSet(S), NEW below,
           \A x \in S : below[x] \subseteq S /\ x \notin below[x],
           \A x, y \in S : x # y => x \in below[y] \/ y \in below[x],
           \A x, y \in S : x \in below[y] => below[x] \subseteq below[y]
    PROVE  /\ Cardinality(S) \in Nat
           /\ \A x \in S : IsFiniteSet(below[x]) /\ Cardinality(below[x]) \in 0..(Cardinality(S) - 1)
           /\ \A x, y \in S : Cardinality(below[x]) = Cardinality(below[y]) => x = y
           /\ {Cardinality(below[x]) : x \in S} = 0..(Cardinality(S) - 1)
<1> DEFINE n == Cardinality(S)
           rank == [x \in S |-> Cardinality(below[x])]
<1>1. n \in Nat
  BY FS_CardinalityType
<1>2. \A x \in S : IsFiniteSet(below[x]) /\ Cardinality(below[x]) \in Nat
  BY FS_Subset, FS_CardinalityType
<1>3. ASSUME NEW x \in S PROVE Cardinality(below[x]) \in 0..(n - 1)
  <2>1. below[x] \subseteq S \ {x}
    OBVIOUS
  <2>2. IsFiniteSet(S \ {x}) /\ Cardinality(S \ {x}) = n - 1
    BY FS_RemoveElement
  <2>3. Cardinality(below[x]) \leq n - 1
    BY <2>1, <2>2, FS_Subset
  <2>4. QED  BY <1>1, <1>2, <2>3
<1>4. ASSUME NEW x \in S, NEW y \in S, x \in below[y]
      PROVE  Cardinality(below[x]) # Cardinality(below[y])
  <2>1. below[x] \subseteq below[y] /\ x \notin below[x]
    BY <1>4
  <2>2. QED  BY <1>2, <1>4, <2>1, FS_Subset
<1>5. \A x, y \in S : Cardinality(below[x]) = Cardinality(below[y]) => x = y
  BY <1>4
<1>6. {Cardinality(below[x]) : x \in S} = 0..(n - 1)
  <2>1. rank \in Injection(S, 0..(n - 1))
    <3>1. rank \in [S -> 0..(n - 1)]
      BY <1>3
    <3>2. IsInjective(rank)
      BY <1>5 DEF IsInjective
    <3>3. QED  BY <3>1, <3>2 DEF Injection
  <2>2. IsFiniteSet(0..(n - 1)) /\ Cardinality(0..(n - 1)) = n
    BY <1>1, FS_Interval
  <2>3. rank \in Surjection(S, 0..(n - 1))
    BY <2>1, <2>2, FS_Injection
  <2>4. \A k \in 0..(n - 1) : \E x \in S : rank[x] = k
    BY <2>3 DEF Surjection
  <2>5. QED  BY <1>3, <2>4
<1>7. QED  BY <1>1, <1>2, <1>3, <1>5, <1>6
=============================================================================
