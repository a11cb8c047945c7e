-------------------------- MODULE CollectionFacts ---------------------------
(***************************************************************************)
(* What sums and rankings over finite sets are, for the proofs about the   *)
(* statistics and about the sorted list of applications.                   *)
(*                                                                         *)
(* The induction theorems of the library speak of an arbitrary predicate;  *)
(* here the predicate is the set of the arguments that have it, which the  *)
(* existence of minimal elements (WFMin) is stated for.                    *)
(***************************************************************************)
EXTENDS Integers, FiniteSets, Functions, FiniteSetTheorems, TLAPS

-----------------------------------------------------------------------------
(* Induction.                                                                *)

LEMMA NumbersInduction ==
    ASSUME NEW Good, 0 \in Good, \A n \in Nat : n \in Good => n + 1 \in Good
    PROVE  \A n \in Nat : n \in Good
  <1> DEFINE Bad == {n \in Nat : n \notin Good}
             R == OpToRel(<, Nat)
  <1> SUFFICES ASSUME Bad # {} PROVE FALSE
    OBVIOUS
  <1>1. PICK n \in Bad : \A m \in Bad : <<m, n>> \notin R
    <2>1. IsWellFoundedOn(R, Nat)
      BY NatLessThanWellFounded
    <2> HIDE DEF R
    <2> QED
      BY <2>1, WFMin
  <1>2. n \in Nat \ {0} /\ n - 1 \in Nat
    OBVIOUS
  <1>3. <<n - 1, n>> \in R
    BY <1>2 DEF OpToRel
  <1>4. n - 1 \in Good
    BY <1>1, <1>2, <1>3
  <1> QED
    BY <1>2, <1>4

(* A property of finite sets that every set has whose subsets of one element *)
(* less have it.                                                             *)
LEMMA SubsetInduction ==
    ASSUME NEW S, IsFiniteSet(S), NEW Good, {} \in Good,
           \A T \in SUBSET S : T # {} /\ (\A x \in T : T \ {x} \in Good) => T \in Good
    PROVE  S \in Good
  <1> DEFINE Bad == {T \in SUBSET S : T \notin Good}
             R == StrictSubsetOrdering(S)
  <1> SUFFICES ASSUME Bad # {} PROVE FALSE
    OBVIOUS
  <1>1. PICK T \in Bad : \A U \in Bad : <<U, T>> \notin R
    <2>1. IsWellFoundedOn(R, SUBSET S)
      BY FS_StrictSubsetOrderingWellFounded, FS_FiniteSubsetsOfFinite
    <2> HIDE DEF R
    <2> QED
      BY <2>1, WFMin
  <1>2. ASSUME NEW x \in T PROVE T \ {x} \in Good
    <2>1. <<T \ {x}, T>> \in R
      BY DEF StrictSubsetOrdering
    <2> QED
      BY <1>1, <2>1
  <1> QED
    BY <1>2

-----------------------------------------------------------------------------
(* Sums.                                                                     *)

\* The element that a fold over `s` takes first.
First(s) == CHOOSE x \in s : TRUE

\* `g` adds up fun over each subset of S.
Adds(g, fun, S) ==
    g = [s \in SUBSET S |-> IF s = {} THEN 0 ELSE fun[First(s)] + g[s \ {First(s)}]]

LEMMA SumMeans ==
    ASSUME NEW fun, NEW S
    PROVE  SumFunctionOnSet(fun, S) = (CHOOSE g : Adds(g, fun, S))[S]
  BY DEF SumFunctionOnSet, FoldFunctionOnSet, MapThenFoldSet, Adds, First

LEMMA FirstFacts == ASSUME NEW s, s # {} PROVE First(s) \in s
  BY DEF First

\* Such a function exists: for sets of at most n elements, by induction on n.
LEMMA AddsExists ==
    ASSUME NEW fun, NEW S, IsFiniteSet(S)
    PROVE  \E g : Adds(g, fun, S)
  <1> DEFINE Body(g, s) == IF s = {} THEN 0 ELSE fun[First(s)] + g[s \ {First(s)}]
             Upto(n) == {s \in SUBSET S : Cardinality(s) <= n}
             Good == {n \in Nat : \E g : \A s \in Upto(n) : g[s] = Body(g, s)}
  <1>0. \A s \in SUBSET S : IsFiniteSet(s) /\ Cardinality(s) \in Nat /\ Cardinality(s) <= Cardinality(S)
    BY FS_Subset, FS_CardinalityType
  <1>1. 0 \in Good
    <2> DEFINE g == [s \in SUBSET S |-> 0]
    <2>1. ASSUME NEW s \in Upto(0) PROVE g[s] = Body(g, s)
      <3>1. s = {}
        BY <1>0, FS_EmptySet
      <3> QED
        BY <3>1
    <2> QED
      BY <2>1
  <1>2. ASSUME NEW n \in Nat, n \in Good PROVE n + 1 \in Good
    <2>1. PICK g : \A s \in Upto(n) : g[s] = Body(g, s)
      BY <1>2
    <2> DEFINE h == [s \in SUBSET S |-> IF s \in Upto(n) THEN g[s] ELSE Body(g, s)]
    <2>2. ASSUME NEW s \in Upto(n + 1) PROVE h[s] = Body(h, s)
      <3>1. CASE s = {}
        <4>1. h[s] = Body(g, s)
          BY <2>1
        <4> QED
          BY <3>1, <4>1
      <3>2. CASE s # {}
        <4> DEFINE t == s \ {First(s)}
        <4>1. t \in Upto(n)
          <5>1. Cardinality(t) = Cardinality(s) - 1
            BY <1>0, <3>2, FirstFacts, FS_RemoveElement
          <5> QED
            BY <1>0, <5>1
        <4>2. h[t] = g[t]
          BY <4>1
        <4>3. h[s] = Body(g, s)
          BY <2>1
        <4> QED
          BY <3>2, <4>2, <4>3
      <3> QED
        BY <3>1, <3>2
    <2>3. \E f : \A s \in Upto(n + 1) : f[s] = Body(f, s)
      <3> HIDE DEF h, Body, Upto
      <3> QED
        BY <2>2
    <2> QED
      BY <2>3
  <1>3. Cardinality(S) \in Good
    <2> HIDE DEF Good
    <2> QED
      BY <1>1, <1>2, FS_CardinalityType, NumbersInduction
  <1>4. PICK g : \A s \in SUBSET S : g[s] = Body(g, s)
    BY <1>0, <1>3
  <1> DEFINE h == [s \in SUBSET S |-> g[s]]
  <1>5. Adds(h, fun, S)
    <2>1. ASSUME NEW s \in SUBSET S PROVE h[s] = Body(h, s)
      BY <1>4, FirstFacts
    <2>2. h = [s \in SUBSET S |-> h[s]]
      OBVIOUS
    <2> HIDE DEF h
    <2> QED
      BY <2>1, <2>2 DEF Adds
  <1> QED
    BY <1>5

\* It does not depend on the set it is defined on.
LEMMA AddsAgree ==
    ASSUME NEW fun, NEW S, IsFiniteSet(S), NEW T \in SUBSET S,
           NEW g, Adds(g, fun, S), NEW h, Adds(h, fun, T)
    PROVE  g[T] = h[T]
  <1> DEFINE Good == {s \in SUBSET T : g[s] = h[s]}
  <1>1. \A s \in SUBSET T :
           /\ g[s] = IF s = {} THEN 0 ELSE fun[First(s)] + g[s \ {First(s)}]
           /\ h[s] = IF s = {} THEN 0 ELSE fun[First(s)] + h[s \ {First(s)}]
    BY DEF Adds
  <1>2. {} \in Good
    BY <1>1
  <1>3. ASSUME NEW s \in SUBSET T, s # {}, \A x \in s : s \ {x} \in Good
        PROVE  s \in Good
    BY <1>1, <1>3, FirstFacts
  <1>4. IsFiniteSet(T)
    BY FS_Subset
  <1>5. T \in Good
    <2> HIDE DEF Good
    <2> QED
      BY <1>2, <1>3, <1>4, SubsetInduction
  <1> QED
    BY <1>5

LEMMA SumEmpty == ASSUME NEW fun PROVE SumFunctionOnSet(fun, {}) = 0
  <1>1. \E g : Adds(g, fun, {})
    BY AddsExists, FS_EmptySet
  <1>2. Adds(CHOOSE g : Adds(g, fun, {}), fun, {})
    BY <1>1
  <1> QED
    BY <1>2, SumMeans DEF Adds

LEMMA SumFirst ==
    ASSUME NEW fun, NEW S, IsFiniteSet(S), S # {}
    PROVE  SumFunctionOnSet(fun, S) = fun[First(S)] + SumFunctionOnSet(fun, S \ {First(S)})
  <1> DEFINE T == S \ {First(S)}
             g == CHOOSE g : Adds(g, fun, S)
             h == CHOOSE h : Adds(h, fun, T)
  <1>1. IsFiniteSet(T) /\ T \in SUBSET S
    BY FS_Subset
  <1>2. Adds(g, fun, S)
    <2>1. \E x : Adds(x, fun, S)
      BY AddsExists
    <2> QED
      BY <2>1
  <1>3. Adds(h, fun, T)
    <2>1. \E x : Adds(x, fun, T)
      BY <1>1, AddsExists
    <2> QED
      BY <2>1
  <1>4. SumFunctionOnSet(fun, S) = g[S] /\ SumFunctionOnSet(fun, T) = h[T]
    BY SumMeans
  <1>5. g[T] = h[T]
    <2> HIDE DEF T, g, h
    <2> QED
      BY <1>1, <1>2, <1>3, AddsAgree
  <1>6. g[S] = fun[First(S)] + g[T]
    <2> HIDE DEF g
    <2> QED
      BY <1>2 DEF Adds
  <1> HIDE DEF g, h
  <1> QED
    BY <1>4, <1>5, <1>6

\* The values are integers, or natural numbers, and so is their sum.
LEMMA SumType ==
    ASSUME NEW fun, NEW S, IsFiniteSet(S), \A x \in S : fun[x] \in Int
    PROVE  SumFunctionOnSet(fun, S) \in Int
  <1> DEFINE Good == {T \in SUBSET S : SumFunctionOnSet(fun, T) \in Int}
  <1>1. {} \in Good
    BY SumEmpty
  <1>2. ASSUME NEW T \in SUBSET S, T # {}, \A x \in T : T \ {x} \in Good PROVE T \in Good
    <2>1. /\ First(T) \in T /\ fun[First(T)] \in Int
          /\ SumFunctionOnSet(fun, T \ {First(T)}) \in Int
      BY <1>2, FirstFacts
    <2>2. SumFunctionOnSet(fun, T) = fun[First(T)] + SumFunctionOnSet(fun, T \ {First(T)})
      BY <1>2, FS_Subset, SumFirst
    <2> QED
      BY <2>1, <2>2
  <1> HIDE DEF Good
  <1>3. S \in Good
    BY <1>1, <1>2, SubsetInduction
  <1> QED
    BY <1>3 DEF Good

\* Whichever element is taken first, the rest is the same.
LEMMA SumStep ==
    ASSUME NEW fun, NEW S, IsFiniteSet(S), \A x \in S : fun[x] \in Int, NEW a \in S
    PROVE  SumFunctionOnSet(fun, S) = fun[a] + SumFunctionOnSet(fun, S \ {a})
  <1> DEFINE Sum(T) == SumFunctionOnSet(fun, T)
             Good == {T \in SUBSET S : \A x \in T : Sum(T) = fun[x] + Sum(T \ {x})}
  <1>0. \A T \in SUBSET S : IsFiniteSet(T) /\ Sum(T) \in Int
    BY FS_Subset, SumType
  <1>1. {} \in Good
    OBVIOUS
  <1>2. ASSUME NEW T \in SUBSET S, T # {}, \A x \in T : T \ {x} \in Good PROVE T \in Good
    <2>1. ASSUME NEW x \in T PROVE Sum(T) = fun[x] + Sum(T \ {x})
      <3> DEFINE c == First(T)
      <3>1. c \in T /\ Sum(T) = fun[c] + Sum(T \ {c})
        BY <1>0, <1>2, FirstFacts, SumFirst
      <3>2. CASE x # c
        <4> DEFINE U == T \ {c, x}
        <4>1. (T \ {c}) \ {x} = U /\ (T \ {x}) \ {c} = U
          OBVIOUS
        <4>2. Sum(T \ {c}) = fun[x] + Sum(U)
          BY <1>2, <3>1, <3>2, <4>1
        <4>3. Sum(T \ {x}) = fun[c] + Sum(U)
          BY <1>2, <3>1, <3>2, <4>1
        <4>4. fun[x] \in Int /\ fun[c] \in Int /\ Sum(U) \in Int
          BY <1>0, <3>1
        <4> HIDE DEF U, Sum, c
        <4> QED
          BY <3>1, <4>2, <4>3, <4>4
      <3> QED
        BY <3>1, <3>2
    <2> QED
      BY <2>1
  <1> HIDE DEF Good
  <1>3. S \in Good
    BY <1>1, <1>2, SubsetInduction
  <1> QED
    BY <1>3 DEF Good

\* A sum grows with its values.
LEMMA SumMonotone ==
    ASSUME NEW f, NEW g, NEW S, IsFiniteSet(S),
           \A x \in S : f[x] \in Int /\ g[x] \in Int /\ f[x] <= g[x]
    PROVE  SumFunctionOnSet(f, S) <= SumFunctionOnSet(g, S)
  <1> DEFINE Good == {T \in SUBSET S : SumFunctionOnSet(f, T) <= SumFunctionOnSet(g, T)}
  <1>1. {} \in Good
    BY SumEmpty
  <1>2. ASSUME NEW T \in SUBSET S, T # {}, \A x \in T : T \ {x} \in Good PROVE T \in Good
    <2> DEFINE c == First(T)
               U == T \ {c}
    <2>1. c \in T /\ U \in SUBSET S /\ IsFiniteSet(U) /\ IsFiniteSet(T)
      BY <1>2, FirstFacts, FS_Subset
    <2>2. /\ SumFunctionOnSet(f, T) = f[c] + SumFunctionOnSet(f, U)
          /\ SumFunctionOnSet(g, T) = g[c] + SumFunctionOnSet(g, U)
      BY <1>2, <2>1, SumFirst
    <2>3. SumFunctionOnSet(f, U) \in Int /\ SumFunctionOnSet(g, U) \in Int
      BY <2>1, SumType
    <2>4. SumFunctionOnSet(f, U) <= SumFunctionOnSet(g, U)
      BY <1>2, <2>1
    <2>5. f[c] \in Int /\ g[c] \in Int /\ f[c] <= g[c]
      BY <2>1
    <2> HIDE DEF c, U
    <2>6. SumFunctionOnSet(f, T) <= SumFunctionOnSet(g, T)
      BY <2>2, <2>3, <2>4, <2>5
    <2> QED
      BY <2>6
  <1> HIDE DEF Good
  <1>3. S \in Good
    BY <1>1, <1>2, SubsetInduction
  <1> QED
    BY <1>3 DEF Good

\* Only the values over the set count.
LEMMA SumAgrees ==
    ASSUME NEW f, NEW g, NEW S, IsFiniteSet(S),
           \A x \in S : f[x] \in Int /\ f[x] = g[x]
    PROVE  SumFunctionOnSet(f, S) = SumFunctionOnSet(g, S)
  <1>1. /\ SumFunctionOnSet(f, S) <= SumFunctionOnSet(g, S)
        /\ SumFunctionOnSet(g, S) <= SumFunctionOnSet(f, S)
    BY SumMonotone
  <1>2. SumFunctionOnSet(f, S) \in Int /\ SumFunctionOnSet(g, S) \in Int
    BY SumType
  <1> QED
    BY <1>1, <1>2

LEMMA SumNatural ==
    ASSUME NEW fun, NEW S, IsFiniteSet(S), \A x \in S : fun[x] \in Nat
    PROVE  SumFunctionOnSet(fun, S) \in Nat
  <1> DEFINE Good == {T \in SUBSET S : SumFunctionOnSet(fun, T) \in Nat}
  <1>1. {} \in Good
    BY SumEmpty
  <1>2. ASSUME NEW T \in SUBSET S, T # {}, \A x \in T : T \ {x} \in Good PROVE T \in Good
    <2>1. /\ First(T) \in T /\ fun[First(T)] \in Nat
          /\ SumFunctionOnSet(fun, T \ {First(T)}) \in Nat
      BY <1>2, FirstFacts
    <2>2. SumFunctionOnSet(fun, T) = fun[First(T)] + SumFunctionOnSet(fun, T \ {First(T)})
      BY <1>2, FS_Subset, SumFirst
    <2> QED
      BY <2>1, <2>2
  <1> HIDE DEF Good
  <1>3. S \in Good
    BY <1>1, <1>2, SubsetInduction
  <1> QED
    BY <1>3 DEF Good

\* A set is added up part by part.
LEMMA SumSplit ==
    ASSUME NEW f, NEW S, IsFiniteSet(S), \A x \in S : f[x] \in Int, NEW T \in SUBSET S
    PROVE  SumFunctionOnSet(f, S) = SumFunctionOnSet(f, T) + SumFunctionOnSet(f, S \ T)
  <1> DEFINE Sum(U) == SumFunctionOnSet(f, U)
             Good == {U \in SUBSET T : Sum(S) = Sum(U) + Sum(S \ U)}
  <1>0. \A U \in SUBSET S : IsFiniteSet(U) /\ Sum(U) \in Int
    BY FS_Subset, SumType
  <1>1. {} \in Good
    <2>1. Sum({}) = 0 /\ Sum(S) \in Int /\ S \ {} = S
      BY <1>0, SumEmpty
    <2> QED
      BY <2>1
  <1>2. ASSUME NEW U \in SUBSET T, U # {}, \A x \in U : U \ {x} \in Good PROVE U \in Good
    <2> DEFINE c == First(U)
               V == U \ {c}
    <2>1. c \in U /\ V \in SUBSET S
      BY <1>2, FirstFacts
    <2>2. Sum(U) = f[c] + Sum(V)
      BY <1>0, <1>2, SumFirst
    <2>3. Sum(S \ V) = f[c] + Sum(S \ U)
      <3>1. (S \ V) \ {c} = S \ U /\ c \in S \ V
        BY <2>1
      <3>2. Sum(S \ V) = f[c] + Sum((S \ V) \ {c})
        BY <1>0, <3>1, SumStep
      <3> QED
        BY <3>1, <3>2
    <2>4. Sum(S) = Sum(V) + Sum(S \ V)
      BY <1>2, <2>1
    <2>5. f[c] \in Int /\ Sum(V) \in Int /\ Sum(S \ U) \in Int
      BY <1>0, <2>1
    <2> HIDE DEF c, V, Sum
    <2>6. Sum(S) = Sum(U) + Sum(S \ U)
      BY <2>2, <2>3, <2>4, <2>5
    <2> QED
      BY <2>6
  <1> HIDE DEF Good
  <1>3. T \in Good
    BY <1>1, <1>2, FS_Subset, SubsetInduction
  <1> QED
    BY <1>3 DEF Good

\* Leaving values out that are not negative makes a sum no larger.
LEMMA SumOfPart ==
    ASSUME NEW f, NEW S, IsFiniteSet(S), \A x \in S : f[x] \in Nat, NEW T \in SUBSET S
    PROVE  SumFunctionOnSet(f, T) <= SumFunctionOnSet(f, S)
  <1>1. /\ SumFunctionOnSet(f, T) \in Nat /\ SumFunctionOnSet(f, S \ T) \in Nat
        /\ SumFunctionOnSet(f, S) = SumFunctionOnSet(f, T) + SumFunctionOnSet(f, S \ T)
    BY FS_Subset, SumNatural, SumSplit
  <1> QED
    BY <1>1

\* Adding up in another order, or by other names, makes no difference.
LEMMA SumRenamed ==
    ASSUME NEW f, NEW S, IsFiniteSet(S), NEW g, NEW name,
           \A x \in S : f[x] \in Int /\ f[x] = g[name[x]],
           \A x, y \in S : name[x] = name[y] => x = y
    PROVE  SumFunctionOnSet(f, S) = SumFunctionOnSet(g, {name[x] : x \in S})
  <1> DEFINE Image(T) == {name[x] : x \in T}
             Good == {T \in SUBSET S : SumFunctionOnSet(f, T) = SumFunctionOnSet(g, Image(T))}
  <1>1. {} \in Good
    <2>1. Image({}) = {}
      OBVIOUS
    <2> QED
      BY <2>1, SumEmpty
  <1>2. ASSUME NEW T \in SUBSET S, T # {}, \A x \in T : T \ {x} \in Good PROVE T \in Good
    <2> DEFINE c == First(T)
               U == T \ {c}
               N == Image(T)
    <2>1. c \in T /\ U \in SUBSET S /\ IsFiniteSet(T)
      BY <1>2, FirstFacts, FS_Subset
    <2>2. SumFunctionOnSet(f, T) = f[c] + SumFunctionOnSet(f, U)
      BY <1>2, <2>1, SumFirst
    <2>3. IsFiniteSet(N) /\ \A n \in N : g[n] \in Int
      <3> DEFINE h == [x \in T |-> name[x]]
      <3>1. h \in Surjection(T, N)
        BY DEF Surjection
      <3> HIDE DEF h, N
      <3>2. IsFiniteSet(N)
        BY <2>1, <3>1, FS_Surjection
      <3> QED
        BY <3>2 DEF N
    <2>4. name[c] \in N /\ N \ {name[c]} = Image(U)
      BY <2>1
    <2> DEFINE M == Image(U)
               d == name[c]
    <2>5. SumFunctionOnSet(g, N) = g[d] + SumFunctionOnSet(g, M)
      <3> HIDE DEF N, M, d
      <3>1. d \in N /\ N \ {d} = M
        BY <2>4 DEF N, M, d
      <3>2. SumFunctionOnSet(g, N) = g[d] + SumFunctionOnSet(g, N \ {d})
        BY <2>3, <3>1, SumStep
      <3> QED
        BY <3>1, <3>2
    <2>6. SumFunctionOnSet(f, U) = SumFunctionOnSet(g, M) /\ f[c] = g[d]
      BY <1>2, <2>1
    <2>7. SumFunctionOnSet(f, T) = SumFunctionOnSet(g, N)
      BY <2>2, <2>5, <2>6
    <2> QED
      BY <2>7
  <1> HIDE DEF Good
  <1>3. S \in Good
    BY <1>1, <1>2, SubsetInduction
  <1> QED
    BY <1>3 DEF Good

\* If c * f[x] is d * g[x] but for at most e, so are the sums, but for e each.
LEMMA SumRounded ==
    ASSUME NEW f, NEW g, NEW S, IsFiniteSet(S), NEW c \in Int, NEW d \in Int, NEW e \in Int,
           \A x \in S : /\ f[x] \in Int /\ g[x] \in Int
                       /\ c * f[x] <= d * g[x] + e /\ d * g[x] - e <= c * f[x]
    PROVE  /\ c * SumFunctionOnSet(f, S) <= d * SumFunctionOnSet(g, S) + Cardinality(S) * e
           /\ d * SumFunctionOnSet(g, S) - Cardinality(S) * e <= c * SumFunctionOnSet(f, S)
  <1> DEFINE F(T) == SumFunctionOnSet(f, T)
             G(T) == SumFunctionOnSet(g, T)
             Good == {T \in SUBSET S : /\ c * F(T) <= d * G(T) + Cardinality(T) * e
                                       /\ d * G(T) - Cardinality(T) * e <= c * F(T)}
  <1>0. \A T \in SUBSET S :
          IsFiniteSet(T) /\ Cardinality(T) \in Nat /\ F(T) \in Int /\ G(T) \in Int
    BY FS_Subset, FS_CardinalityType, SumType
  <1>1. {} \in Good
    <2>1. F({}) = 0 /\ G({}) = 0 /\ Cardinality({}) = 0
      BY SumEmpty, FS_EmptySet
    <2>2. c * 0 = 0 /\ d * 0 = 0 /\ 0 * e = 0
      OBVIOUS
    <2> QED
      BY <2>1, <2>2
  <1>2. ASSUME NEW T \in SUBSET S, T # {}, \A x \in T : T \ {x} \in Good PROVE T \in Good
    <2> DEFINE x == First(T)
               U == T \ {x}
               n == Cardinality(U)
    <2>1. x \in T /\ U \in SUBSET S
      BY <1>2, FirstFacts
    <2>2. /\ F(T) = f[x] + F(U) /\ G(T) = g[x] + G(U)
          /\ Cardinality(T) = n + 1 /\ n \in Nat
      <3>1. F(T) = f[x] + F(U) /\ G(T) = g[x] + G(U)
        BY <1>0, <1>2, SumFirst
      <3>2. Cardinality(T) = n + 1 /\ n \in Nat
        BY <1>0, <2>1, FS_RemoveElement
      <3> QED
        BY <3>1, <3>2
    <2>3. /\ f[x] \in Int /\ g[x] \in Int /\ F(U) \in Int /\ G(U) \in Int
          /\ c * f[x] <= d * g[x] + e /\ d * g[x] - e <= c * f[x]
      BY <1>0, <2>1
    <2>4. c * F(U) <= d * G(U) + n * e /\ d * G(U) - n * e <= c * F(U)
      BY <1>2, <2>1
    <2> DEFINE p == F(U)
               q == G(U)
               y == f[x]
               z == g[x]
    <2> HIDE DEF p, q, y, z, n
    <2>5. /\ c * (y + p) = c * y + c * p /\ d * (z + q) = d * z + d * q
          /\ (n + 1) * e = n * e + e
      BY <2>2, <2>3 DEF p, q, y, z
    <2>6. /\ c * y \in Int /\ c * p \in Int /\ d * z \in Int /\ d * q \in Int /\ n * e \in Int
      BY <2>2, <2>3 DEF p, q, y, z
    <2>7. /\ c * (y + p) <= d * (z + q) + (n + 1) * e
          /\ d * (z + q) - (n + 1) * e <= c * (y + p)
      <3>1. c * y <= d * z + e /\ d * z - e <= c * y
        BY <2>3 DEF y, z
      <3>2. c * p <= d * q + n * e /\ d * q - n * e <= c * p
        BY <2>4 DEF p, q, n
      <3> DEFINE cy == c * y
                 cp == c * p
                 dz == d * z
                 dq == d * q
                 ne == n * e
      <3>3. /\ cy \in Int /\ cp \in Int /\ dz \in Int /\ dq \in Int /\ ne \in Int
            /\ cy <= dz + e /\ dz - e <= cy /\ cp <= dq + ne /\ dq - ne <= cp
        BY <2>6, <3>1, <3>2
      <3> HIDE DEF cy, cp, dz, dq, ne
      <3>4. cy + cp <= (dz + dq) + (ne + e) /\ (dz + dq) - (ne + e) <= cy + cp
        BY <3>3
      <3> QED
        BY <2>5, <3>4 DEF cy, cp, dz, dq, ne
    <2>8. /\ c * F(T) <= d * G(T) + Cardinality(T) * e
          /\ d * G(T) - Cardinality(T) * e <= c * F(T)
      BY <2>2, <2>7 DEF p, q, y, z
    <2> QED
      BY <2>8
  <1> HIDE DEF Good
  <1>3. S \in Good
    BY <1>1, <1>2, SubsetInduction
  <1> QED
    BY <1>3 DEF Good

-----------------------------------------------------------------------------
(* Rankings.                                                                 *)

\* R puts the elements of S in a row.
Orders(R, S) ==
    /\ \A x \in S : <<x, x>> \notin R
    /\ \A x, y \in S : x = y \/ <<x, y>> \in R \/ <<y, x>> \in R
    /\ \A x, y, z \in S : <<x, y>> \in R /\ <<y, z>> \in R => <<x, z>> \in R

\* Those that come before x.
Before(R, S, x) == {y \in S : <<y, x>> \in R}

\* Elements are ranked by how many come before them.
LEMMA RankOrder ==
    ASSUME NEW S, IsFiniteSet(S), NEW R, Orders(R, S), NEW x \in S, NEW y \in S, <<x, y>> \in R
    PROVE  /\ Cardinality(Before(R, S, x)) \in Nat /\ Cardinality(Before(R, S, y)) \in Nat
           /\ Cardinality(Before(R, S, x)) < Cardinality(Before(R, S, y))
  <1> DEFINE B == Before(R, S, x)
             C == Before(R, S, y)
  <1>1. IsFiniteSet(C) /\ Cardinality(C) \in Nat
    BY FS_Subset, FS_CardinalityType DEF Before
  <1>2. B \in SUBSET C /\ B # C
    BY DEF Before, Orders
  <1>3. IsFiniteSet(B) /\ Cardinality(B) \in Nat
    BY <1>1, <1>2, FS_Subset, FS_CardinalityType
  <1>4. Cardinality(B) < Cardinality(C)
    <2> HIDE DEF B, C
    <2> QED
      BY <1>1, <1>2, <1>3, FS_Subset
  <1> QED
    BY <1>1, <1>3, <1>4

(* The ranks of a finite set are 0, 1, ..., each the rank of one element.    *)
LEMMA RankFacts ==
    ASSUME NEW S, IsFiniteSet(S), NEW R, Orders(R, S)
    PROVE  /\ Cardinality(S) \in Nat
           /\ \A x \in S : Cardinality(Before(R, S, x)) \in 0 .. Cardinality(S) - 1
           /\ \A x, y \in S :
                 Cardinality(Before(R, S, x)) = Cardinality(Before(R, S, y)) => x = y
           /\ \A n \in 0 .. Cardinality(S) - 1 :
                 \E x \in S : Cardinality(Before(R, S, x)) = n
  <1> DEFINE N == Cardinality(S)
             rank == [x \in S |-> Cardinality(Before(R, S, x))]
  <1>1. N \in Nat
    BY FS_CardinalityType
  <1>2. ASSUME NEW x \in S PROVE rank[x] \in 0 .. N - 1
    <2>1. Before(R, S, x) \in SUBSET S /\ Before(R, S, x) # S
      BY DEF Before, Orders
    <2>2. IsFiniteSet(Before(R, S, x)) /\ Cardinality(Before(R, S, x)) \in Nat
      BY <2>1, FS_Subset, FS_CardinalityType
    <2> QED
      BY <1>1, <2>1, <2>2, FS_Subset
  <1>3. ASSUME NEW x \in S, NEW y \in S, rank[x] = rank[y] PROVE x = y
    <2>1. Cardinality(Before(R, S, x)) = Cardinality(Before(R, S, y))
      BY <1>3
    <2>2. <<x, y>> \notin R /\ <<y, x>> \notin R
      BY <2>1, RankOrder
    <2> QED
      BY <2>2 DEF Orders
  <1>4. rank \in Injection(S, 0 .. N - 1)
    BY <1>2, <1>3 DEF Injection, IsInjective
  <1>5. IsFiniteSet(0 .. N - 1) /\ Cardinality(0 .. N - 1) = N
    BY <1>1, FS_Interval
  <1>6. rank \in Surjection(S, 0 .. N - 1)
    <2> HIDE DEF rank
    <2> QED
      BY <1>4, <1>5, FS_Injection
  <1>7. \A n \in 0 .. N - 1 : \E x \in S : rank[x] = n
    BY <1>6 DEF Surjection
  <1> QED
    BY <1>1, <1>2, <1>3, <1>7

(* A list of the elements by rank shows the first ones, each once: one that  *)
(* is not on it comes after all that are, and if it is as long as the set is *)
(* large, all of them are.                                                   *)
LEMMA RankedList ==
    ASSUME NEW S, IsFiniteSet(S), NEW R, Orders(R, S), NEW size \in Nat,
           NEW list, DOMAIN list = 1 .. size,
           \A k \in 1 .. size : list[k] \in S /\ Cardinality(Before(R, S, list[k])) = k - 1
    PROVE  /\ \A j, k \in 1 .. size : list[j] = list[k] => j = k
           /\ \A k \in 1 .. size, x \in S :
                 (\E j \in 1 .. size : list[j] = x) \/ <<list[k], x>> \in R
           /\ size = Cardinality(S) => \A x \in S : \E j \in 1 .. size : list[j] = x
  <1> DEFINE Rank(x) == Cardinality(Before(R, S, x))
  <1>1. /\ Cardinality(S) \in Nat
        /\ \A x \in S : Rank(x) \in 0 .. Cardinality(S) - 1
        /\ \A x, y \in S : Rank(x) = Rank(y) => x = y
    BY RankFacts
  <1>2. \A k \in 1 .. size : list[k] \in S /\ Rank(list[k]) = k - 1
    OBVIOUS
  <1>3. \A x, y \in S : <<x, y>> \in R => Rank(x) < Rank(y)
    BY RankOrder
  <1> HIDE DEF Rank
  <1>4. \A j, k \in 1 .. size : list[j] = list[k] => j = k
    BY <1>2
  <1>5. ASSUME NEW x \in S, Rank(x) < size PROVE \E j \in 1 .. size : list[j] = x
    <2>1. Rank(x) + 1 \in 1 .. size
      BY <1>1, <1>5
    <2>2. list[Rank(x) + 1] \in S /\ Rank(list[Rank(x) + 1]) = Rank(x)
      BY <1>1, <1>2, <2>1
    <2>3. list[Rank(x) + 1] = x
      BY <1>1, <2>2
    <2> QED
      BY <2>1, <2>3
  <1>6. ASSUME NEW k \in 1 .. size, NEW x \in S, <<list[k], x>> \notin R
        PROVE  \E j \in 1 .. size : list[j] = x
    <2>1. x = list[k] \/ <<x, list[k]>> \in R
      BY <1>2, <1>6 DEF Orders
    <2>2. Rank(x) < size
      <3>1. Rank(list[k]) = k - 1 /\ list[k] \in S /\ Rank(x) \in Int
        BY <1>1, <1>2
      <3>2. Rank(x) <= Rank(list[k])
        BY <1>3, <2>1, <3>1
      <3> QED
        BY <3>1, <3>2
    <2> QED
      BY <1>5, <2>2
  <1>7. ASSUME size = Cardinality(S), NEW x \in S PROVE \E j \in 1 .. size : list[j] = x
    BY <1>1, <1>5, <1>7
  <1> QED
    BY <1>4, <1>6, <1>7
=============================================================================
