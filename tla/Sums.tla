---------------------------------- MODULE Sums ----------------------------------
(***************************************************************************)
(* Facts about sums over finite sets and over functions, for the proofs    *)
(* about bills, counters, token counts and reports, and about the listings *)
(* of module Listing; and the two forms of induction they rest on.  It     *)
(* is stated over sets, not over predicates: a property P is proved by     *)
(* applying it to {n \in Nat : P(n)}, which the provers can instantiate.   *)
(***************************************************************************)
EXTENDS Integers, Listing, Functions, FiniteSetTheorems, SequenceTheorems,
        WellFoundedInduction, TLAPS

\* A set that holds 0 and every successor of its members holds all numbers:
\* the least number outside it would have a predecessor.
LEMMA NatSetInduction ==
    ASSUME NEW S, 0 \in S, \A n \in Nat : n \in S => n + 1 \in S
    PROVE  Nat \subseteq S
<1> DEFINE T == Nat \ S
           R == OpToRel(<, Nat)
<1>1. SUFFICES ASSUME T # {} PROVE FALSE
  OBVIOUS
<1>2. PICK x \in T : \A y \in T : ~(<<y, x>> \in R)
  <2>1. T \subseteq Nat /\ IsWellFoundedOn(R, Nat)
    BY NatLessThanWellFounded
  <2> HIDE DEF T, R
  <2>2. QED
    BY <1>1, <2>1, WFMin
<1>3. \A y \in T : ~(y < x)
  BY <1>2 DEF OpToRel
<1>4. x # 0 /\ x \in Nat /\ x - 1 \in T
  OBVIOUS
<1>5. QED
  BY <1>3, <1>4

\* A family of sets that holds the empty set and, with a subset of a finite
\* set, the same with one more element, holds that finite set.
LEMMA FiniteSetInduction ==
    ASSUME NEW S, IsFiniteSet(S), NEW C, {} \in C,
           \A T \in SUBSET S : T \in C => \A x \in S \ T : T \cup {x} \in C
    PROVE  S \in C
<1> DEFINE Good == {n \in Nat : \A T \in SUBSET S : Cardinality(T) = n => T \in C}
<1>1. 0 \in Good
  <2>1. ASSUME NEW T \in SUBSET S, Cardinality(T) = 0 PROVE T \in C
    BY <2>1, FS_Subset, FS_EmptySet
  <2>2. QED
    BY <2>1
<1>2. ASSUME NEW n \in Nat, n \in Good PROVE n + 1 \in Good
  <2>1. ASSUME NEW T \in SUBSET S, Cardinality(T) = n + 1 PROVE T \in C
    <3>1. IsFiniteSet(T)
      BY FS_Subset
    <3>2. PICK x : x \in T
      BY <2>1, <3>1, FS_EmptySet
    <3>3. Cardinality(T \ {x}) = n
      <4>1. Cardinality(T \ {x}) = Cardinality(T) - 1
        BY <3>1, <3>2, FS_RemoveElement
      <4>2. QED
        BY <2>1, <4>1
    <3>4. T \ {x} \in C
      BY <1>2, <3>3
    <3>5. (T \ {x}) \cup {x} \in C
      BY <3>2, <3>4
    <3>6. QED
      BY <3>2, <3>5
  <2>2. QED
    BY <2>1
<1>3. Nat \subseteq Good
  <2> HIDE DEF Good
  <2>1. QED
    BY <1>1, <1>2, NatSetInduction
<1>4. Cardinality(S) \in Nat
  BY FS_CardinalityType
<1>5. QED
  BY <1>3, <1>4
-----------------------------------------------------------------------------
(***************************************************************************)
(* A sum is a function that is defined by recursion over the subsets of a  *)
(* set.  That such a function exists is shown level by level: the subsets  *)
(* of at most n elements.                                                  *)
(***************************************************************************)

Pick(s) == CHOOSE x \in s : TRUE

\* g is the sum of fun on every set of F.
AddsUp(g, fun, F) ==
    g = [s \in F |-> IF s = {} THEN 0 ELSE fun[Pick(s)] + g[s \ {Pick(s)}]]

SumsOf(fun, S) == CHOOSE g : AddsUp(g, fun, SUBSET S)

LEMMA SumAsFunction ==
    ASSUME NEW fun, NEW S
    PROVE  SumFunctionOnSet(fun, S) = SumsOf(fun, S)[S]
BY DEF SumFunctionOnSet, FoldFunctionOnSet, MapThenFoldSet, SumsOf, AddsUp, Pick

UpTo(S, n) == {T \in SUBSET S : Cardinality(T) <= n}

LEMMA SumsExist ==
    ASSUME NEW fun, NEW S, IsFiniteSet(S)
    PROVE  AddsUp(SumsOf(fun, S), fun, SUBSET S)
<1> DEFINE Good == {n \in Nat : \E g : AddsUp(g, fun, UpTo(S, n))}
<1>1. \A T \in SUBSET S : IsFiniteSet(T) /\ Cardinality(T) \in Nat
  BY FS_Subset, FS_CardinalityType
<1>2. \A T \in SUBSET S : T # {} =>
         /\ Pick(T) \in T /\ T \ {Pick(T)} \in SUBSET S
         /\ Cardinality(T \ {Pick(T)}) = Cardinality(T) - 1
  BY <1>1, FS_RemoveElement DEF Pick
<1>3. 0 \in Good
  <2>1. \A T \in UpTo(S, 0) : T = {}
    BY <1>1, FS_EmptySet DEF UpTo
  <2>2. AddsUp([s \in UpTo(S, 0) |-> 0], fun, UpTo(S, 0))
    BY <2>1 DEF AddsUp
  <2>3. QED
    BY <2>2
<1>4. ASSUME NEW n \in Nat, n \in Good PROVE n + 1 \in Good
  <2>1. PICK g : AddsUp(g, fun, UpTo(S, n))
    BY <1>4
  <2> DEFINE h == [s \in UpTo(S, n + 1) |->
                     IF s = {} THEN 0 ELSE fun[Pick(s)] + g[s \ {Pick(s)}]]
  <2>2. \A T \in UpTo(S, n) : h[T] = g[T] /\ T \in UpTo(S, n + 1)
    <3>1. ASSUME NEW T \in UpTo(S, n) PROVE h[T] = g[T] /\ T \in UpTo(S, n + 1)
      <4>1. T \in UpTo(S, n + 1)
        BY <1>1 DEF UpTo
      <4>2. g[T] = IF T = {} THEN 0 ELSE fun[Pick(T)] + g[T \ {Pick(T)}]
        BY <2>1 DEF AddsUp
      <4>3. QED
        BY <4>1, <4>2
    <3>2. QED
      BY <3>1
  <2>3. \A T \in UpTo(S, n + 1) : T # {} => T \ {Pick(T)} \in UpTo(S, n)
    BY <1>1, <1>2 DEF UpTo
  <2>4. AddsUp(h, fun, UpTo(S, n + 1))
    <3>1. \A T \in UpTo(S, n + 1) :
             T # {} => fun[Pick(T)] + g[T \ {Pick(T)}] = fun[Pick(T)] + h[T \ {Pick(T)}]
      BY <2>2, <2>3
    <3>2. QED
      BY <3>1 DEF AddsUp
  <2>5. QED
    BY <2>4
<1>5. Nat \subseteq Good
  <2> HIDE DEF Good
  <2>1. QED
    BY <1>3, <1>4, NatSetInduction
<1>6. \E g : AddsUp(g, fun, SUBSET S)
  <2>1. Cardinality(S) \in Nat
    BY <1>1
  <2>2. UpTo(S, Cardinality(S)) = SUBSET S
    BY FS_Subset DEF UpTo
  <2>3. QED
    BY <1>5, <2>1, <2>2
<1>7. QED
  BY <1>6 DEF SumsOf

\* What an empty sum is, and a sum one element of which is taken first.
LEMMA SumStep ==
    ASSUME NEW fun, NEW S, IsFiniteSet(S), NEW T \in SUBSET S
    PROVE  SumsOf(fun, S)[T] =
             IF T = {} THEN 0 ELSE fun[Pick(T)] + SumsOf(fun, S)[T \ {Pick(T)}]
<1> DEFINE g == SumsOf(fun, S)
<1>1. AddsUp(g, fun, SUBSET S)
  BY SumsExist
<1> HIDE DEF g
<1>2. g[T] = IF T = {} THEN 0 ELSE fun[Pick(T)] + g[T \ {Pick(T)}]
  BY <1>1 DEF AddsUp
<1>3. QED
  BY <1>2 DEF g

\* A sum over a set is the same whether the set stands alone or in another.
LEMMA SumInside ==
    ASSUME NEW fun, NEW S, IsFiniteSet(S), NEW T \in SUBSET S
    PROVE  SumsOf(fun, S)[T] = SumFunctionOnSet(fun, T)
<1> DEFINE Good == {n \in Nat : \A U \in SUBSET T :
                      Cardinality(U) = n => SumsOf(fun, S)[U] = SumsOf(fun, T)[U]}
<1>1. IsFiniteSet(T) /\ Cardinality(T) \in Nat
  BY FS_Subset, FS_CardinalityType
<1>2. \A U \in SUBSET T : IsFiniteSet(U) /\ Cardinality(U) \in Nat
  BY <1>1, FS_Subset, FS_CardinalityType
<1>3. 0 \in Good
  <2>1. ASSUME NEW U \in SUBSET T, Cardinality(U) = 0
        PROVE  SumsOf(fun, S)[U] = SumsOf(fun, T)[U]
    <3>1. U = {} /\ U \in SUBSET S
      BY <1>2, <2>1, FS_EmptySet
    <3>2. QED
      BY <1>1, <3>1, SumStep
  <2>2. QED
    BY <2>1
<1>4. ASSUME NEW n \in Nat, n \in Good PROVE n + 1 \in Good
  <2>1. ASSUME NEW U \in SUBSET T, Cardinality(U) = n + 1
        PROVE  SumsOf(fun, S)[U] = SumsOf(fun, T)[U]
    <3>1. U # {} /\ U \in SUBSET S
      BY <2>1, FS_EmptySet
    <3>2. Pick(U) \in U /\ U \ {Pick(U)} \in SUBSET T
      BY <3>1 DEF Pick
    <3>3. Cardinality(U \ {Pick(U)}) = Cardinality(U) - 1
      BY <1>2, <3>2, FS_RemoveElement
    <3>4. SumsOf(fun, S)[U \ {Pick(U)}] = SumsOf(fun, T)[U \ {Pick(U)}]
      BY <1>4, <2>1, <3>2, <3>3
    <3>5. SumsOf(fun, S)[U] = fun[Pick(U)] + SumsOf(fun, S)[U \ {Pick(U)}]
      BY <3>1, SumStep
    <3>6. SumsOf(fun, T)[U] = fun[Pick(U)] + SumsOf(fun, T)[U \ {Pick(U)}]
      BY <1>1, <3>1, SumStep
    <3>7. QED
      BY <3>4, <3>5, <3>6
  <2>2. QED
    BY <2>1
<1>5. Nat \subseteq Good
  <2> HIDE DEF Good
  <2>1. QED
    BY <1>3, <1>4, NatSetInduction
<1>6. QED
  BY <1>1, <1>5, SumAsFunction
-----------------------------------------------------------------------------
(***************************************************************************)
(* The facts the proofs cite.                                              *)
(***************************************************************************)

LEMMA SumEmpty == \A fun : SumFunctionOnSet(fun, {}) = 0
BY FS_EmptySet, SumStep, SumAsFunction

\* Any element may be taken first: the order does not matter.
LEMMA SumTake ==
    ASSUME NEW S, IsFiniteSet(S), NEW fun, \A x \in S : fun[x] \in Int
    PROVE  /\ SumFunctionOnSet(fun, S) \in Int
           /\ \A x \in S : SumFunctionOnSet(fun, S)
                             = fun[x] + SumFunctionOnSet(fun, S \ {x})
<1> DEFINE g == SumsOf(fun, S)
           Right(T) == /\ g[T] \in Int
                       /\ \A x \in T : g[T] = fun[x] + g[T \ {x}]
           Good == {n \in Nat : \A T \in SUBSET S : Cardinality(T) <= n => Right(T)}
<1>1. \A T \in SUBSET S : IsFiniteSet(T) /\ Cardinality(T) \in Nat
  BY FS_Subset, FS_CardinalityType
<1>2. \A T \in SUBSET S : g[T] = IF T = {} THEN 0 ELSE fun[Pick(T)] + g[T \ {Pick(T)}]
  BY SumStep
<1> HIDE DEF g
<1>3. 0 \in Good
  <2>1. ASSUME NEW T \in SUBSET S, Cardinality(T) <= 0 PROVE Right(T)
    <3>1. Cardinality(T) = 0
      BY <1>1, <2>1
    <3>2. T = {}
      BY <1>1, <3>1, FS_EmptySet
    <3>3. g[T] = 0
      BY <1>2, <3>2
    <3>4. QED
      BY <3>2, <3>3
  <2>2. QED
    BY <2>1
<1>4. ASSUME NEW n \in Nat, n \in Good PROVE n + 1 \in Good
  <2>1. ASSUME NEW T \in SUBSET S, Cardinality(T) = n + 1 PROVE Right(T)
    <3>1. \A x \in T : Cardinality(T \ {x}) = n
      <4>1. \A x \in T : Cardinality(T \ {x}) = Cardinality(T) - 1
        BY <1>1, FS_RemoveElement
      <4>2. QED
        BY <2>1, <4>1
    <3>2. \A x \in T : Right(T \ {x})
      <4>1. \A x \in T : Cardinality(T \ {x}) <= n
        BY <3>1
      <4>2. QED
        BY <1>4, <4>1
    <3>3. T # {}
      BY <2>1, FS_EmptySet
    <3>4. PICK c \in T : g[T] = fun[c] + g[T \ {c}]
      BY <1>2, <3>3 DEF Pick
    <3>5. g[T] \in Int
      BY <3>2, <3>4
    <3>6. ASSUME NEW x \in T, x # c PROVE g[T] = fun[x] + g[T \ {x}]
      <4>1. g[T \ {c}] = fun[x] + g[(T \ {c}) \ {x}]
        BY <3>2, <3>4, <3>6
      <4>2. g[T \ {x}] = fun[c] + g[(T \ {x}) \ {c}]
        BY <3>2, <3>4, <3>6
      <4>3. (T \ {c}) \ {x} = (T \ {x}) \ {c}
        OBVIOUS
      <4>4. fun[x] \in Int /\ fun[c] \in Int /\ g[T \ {x}] \in Int /\ g[T \ {c}] \in Int
        BY <3>2, <3>4
      <4>5. g[(T \ {x}) \ {c}] \in Int
        <5>1. IsFiniteSet(T \ {x}) /\ c \in T \ {x}
          BY <1>1, <3>4, <3>6
        <5>2. Cardinality((T \ {x}) \ {c}) = Cardinality(T \ {x}) - 1
          BY <5>1, FS_RemoveElement
        <5>3. Cardinality((T \ {x}) \ {c}) <= n
          BY <3>1, <3>6, <5>2
        <5>4. QED
          BY <1>4, <5>3
      <4>6. \A a, b, d \in Int : a + (b + d) = b + (a + d)
        OBVIOUS
      <4>7. g[T] = fun[c] + (fun[x] + g[(T \ {x}) \ {c}])
        BY <3>4, <4>1, <4>3
      <4>8. QED
        BY <4>2, <4>4, <4>5, <4>6, <4>7
    <3>7. QED
      BY <3>4, <3>5, <3>6
  <2>2. ASSUME NEW T \in SUBSET S, Cardinality(T) <= n + 1 PROVE Right(T)
    <3>1. Cardinality(T) <= n \/ Cardinality(T) = n + 1
      BY <1>1, <2>2
    <3>2. QED
      BY <1>4, <2>1, <3>1
  <2>3. QED
    BY <2>2
<1>5. Nat \subseteq Good
  <2> HIDE DEF Good
  <2>1. QED
    BY <1>3, <1>4, NatSetInduction
<1>6. Right(S)
  BY <1>1, <1>5
<1>7. \A T \in SUBSET S : g[T] = SumFunctionOnSet(fun, T)
  BY SumInside DEF g
<1>8. QED
  BY <1>6, <1>7

LEMMA SumType ==
    ASSUME NEW S, IsFiniteSet(S), NEW fun, \A x \in S : fun[x] \in Nat
    PROVE  SumFunctionOnSet(fun, S) \in Nat
<1> DEFINE Good == {T \in SUBSET S : SumFunctionOnSet(fun, T) \in Nat}
<1>1. {} \in Good
  BY SumEmpty
<1>2. ASSUME NEW T \in SUBSET S, T \in Good, NEW x \in S \ T PROVE T \cup {x} \in Good
  <2>1. IsFiniteSet(T \cup {x}) /\ (T \cup {x}) \ {x} = T /\ T \cup {x} \in SUBSET S
    BY FS_Subset
  <2>2. \A y \in T \cup {x} : fun[y] \in Int
    OBVIOUS
  <2>3. SumFunctionOnSet(fun, T \cup {x}) = fun[x] + SumFunctionOnSet(fun, T)
    BY <2>1, <2>2, SumTake
  <2>4. QED
    BY <1>2, <2>1, <2>3
<1>3. QED
  <2> HIDE DEF Good
  <2>1. S \in Good
    BY <1>1, <1>2, FiniteSetInduction
  <2>2. QED
    BY <2>1 DEF Good

\* One more element.
LEMMA SumInsert ==
    ASSUME NEW S, IsFiniteSet(S), NEW x, x \notin S, NEW fun,
           \A y \in S \cup {x} : fun[y] \in Int
    PROVE  SumFunctionOnSet(fun, S \cup {x}) = SumFunctionOnSet(fun, S) + fun[x]
<1>1. IsFiniteSet(S \cup {x}) /\ (S \cup {x}) \ {x} = S
  BY FS_AddElement
<1>2. SumFunctionOnSet(fun, S \cup {x}) = fun[x] + SumFunctionOnSet(fun, S)
  BY <1>1, SumTake
<1>3. SumFunctionOnSet(fun, S) \in Int
  BY SumTake
<1>4. QED
  BY <1>2, <1>3

\* Only the values on the set count.
LEMMA SumSame ==
    ASSUME NEW S, IsFiniteSet(S), NEW f, NEW g,
           \A x \in S : f[x] \in Int /\ f[x] = g[x]
    PROVE  SumFunctionOnSet(f, S) = SumFunctionOnSet(g, S)
<1> DEFINE Good == {T \in SUBSET S : SumFunctionOnSet(f, T) = SumFunctionOnSet(g, T)}
<1>1. {} \in Good
  BY SumEmpty
<1>2. ASSUME NEW T \in SUBSET S, T \in Good, NEW x \in S \ T PROVE T \cup {x} \in Good
  <2>1. IsFiniteSet(T) /\ T \cup {x} \in SUBSET S
    BY FS_Subset
  <2>2. /\ SumFunctionOnSet(f, T \cup {x}) = SumFunctionOnSet(f, T) + f[x]
        /\ SumFunctionOnSet(g, T \cup {x}) = SumFunctionOnSet(g, T) + g[x]
    BY <2>1, SumInsert
  <2>3. QED
    BY <1>2, <2>1, <2>2
<1>3. QED
  <2> HIDE DEF Good
  <2>1. S \in Good
    BY <1>1, <1>2, FiniteSetInduction
  <2>2. QED
    BY <2>1 DEF Good

\* A sum of ones and of zeros.
LEMMA SumConstant ==
    ASSUME NEW S, IsFiniteSet(S), NEW k \in Nat, NEW f, \A x \in S : f[x] = k
    PROVE  SumFunctionOnSet(f, S) = k * Cardinality(S)
<1> DEFINE Good == {T \in SUBSET S : SumFunctionOnSet(f, T) = k * Cardinality(T)}
<1>1. {} \in Good
  BY SumEmpty, FS_EmptySet
<1>2. ASSUME NEW T \in SUBSET S, T \in Good, NEW x \in S \ T PROVE T \cup {x} \in Good
  <2>1. IsFiniteSet(T) /\ T \cup {x} \in SUBSET S /\ Cardinality(T) \in Nat
    BY FS_Subset, FS_CardinalityType
  <2>2. SumFunctionOnSet(f, T \cup {x}) = SumFunctionOnSet(f, T) + k
    BY <2>1, SumInsert
  <2>3. Cardinality(T \cup {x}) = Cardinality(T) + 1
    BY <2>1, FS_AddElement
  <2>4. \A n \in Nat : k * (n + 1) = k * n + k
    OBVIOUS
  <2>5. QED
    BY <1>2, <2>1, <2>2, <2>3, <2>4
<1>3. QED
  <2> HIDE DEF Good
  <2>1. S \in Good
    BY <1>1, <1>2, FiniteSetInduction
  <2>2. QED
    BY <2>1 DEF Good

\* A sum of terms none of which is above a bound.
LEMMA SumBounded ==
    ASSUME NEW S, IsFiniteSet(S), NEW k \in Nat, NEW f,
           \A x \in S : f[x] \in Nat /\ f[x] <= k
    PROVE  SumFunctionOnSet(f, S) \in Nat /\ SumFunctionOnSet(f, S) <= k * Cardinality(S)
<1> DEFINE Good == {T \in SUBSET S : SumFunctionOnSet(f, T) <= k * Cardinality(T)}
<1>1. {} \in Good
  BY SumEmpty, FS_EmptySet
<1>2. ASSUME NEW T \in SUBSET S, T \in Good, NEW x \in S \ T PROVE T \cup {x} \in Good
  <2>1. IsFiniteSet(T) /\ T \cup {x} \in SUBSET S /\ Cardinality(T) \in Nat
    BY FS_Subset, FS_CardinalityType
  <2>2. SumFunctionOnSet(f, T \cup {x}) = SumFunctionOnSet(f, T) + f[x]
    BY <2>1, SumInsert
  <2>3. Cardinality(T \cup {x}) = Cardinality(T) + 1
    BY <2>1, FS_AddElement
  <2>4. \A n \in Nat : k * (n + 1) = k * n + k /\ k * n \in Nat
    OBVIOUS
  <2>5. SumFunctionOnSet(f, T) \in Nat
    BY <2>1, SumType
  <2>6. SumFunctionOnSet(f, T) <= k * Cardinality(T)
    BY <1>2
  <2>7. SumFunctionOnSet(f, T) + f[x] <= k * Cardinality(T) + k
    BY <2>1, <2>4, <2>5, <2>6
  <2>8. QED
    BY <2>1, <2>2, <2>3, <2>4, <2>7
<1>3. S \in Good
  <2> HIDE DEF Good
  <2>1. QED
    BY <1>1, <1>2, FiniteSetInduction
<1>4. QED
  BY <1>3, SumType

\* A sum that grows by one element while the values it had stay.
LEMMA SumGrow ==
    ASSUME NEW S, IsFiniteSet(S), NEW f, NEW g,
           \A y \in S : f[y] \in Int /\ g[y] = f[y],
           NEW x, x \notin S, g[x] \in Int
    PROVE  SumFunctionOnSet(g, S \cup {x}) = SumFunctionOnSet(f, S) + g[x]
<1>1. SumFunctionOnSet(f, S) = SumFunctionOnSet(g, S)
  BY SumSame
<1>2. SumFunctionOnSet(g, S \cup {x}) = SumFunctionOnSet(g, S) + g[x]
  BY SumInsert
<1>3. QED
  BY <1>1, <1>2

\* Some number of a set is the least.
LEMMA LeastNumber ==
    ASSUME NEW S, S \subseteq Nat, S # {}
    PROVE  \E i \in S : \A j \in S : i <= j
<1> DEFINE R == OpToRel(<, Nat)
<1>1. IsWellFoundedOn(R, Nat)
  BY NatLessThanWellFounded
<1>2. PICK i \in S : \A j \in S : ~(<<j, i>> \in R)
  <2> HIDE DEF R
  <2>1. QED
    BY <1>1, WFMin
<1>3. \A j \in S : ~(j < i)
  BY <1>2 DEF OpToRel
<1>4. QED
  BY <1>3

\* A function that doubles at every step exists.
LEMMA DoublingExists ==
    ASSUME NEW f, f = CHOOSE g : g = [n \in Nat |-> IF n = 0 THEN 1 ELSE 2 * g[n - 1]]
    PROVE  /\ f[0] = 1
           /\ \A n \in Nat : f[n] \in Nat /\ f[n + 1] = 2 * f[n]
<1> DEFINE Doubles(g, N) == g = [n \in N |-> IF n = 0 THEN 1 ELSE 2 * g[n - 1]]
           Good == {k \in Nat : \E g : Doubles(g, 0..k) /\ \A n \in 0..k : g[n] \in Nat}
<1>1. 0 \in Good
  <2>1. 0..0 = {0} /\ 0 \in Nat
    OBVIOUS
  <2>2. Doubles([n \in 0..0 |-> 1], 0..0)
    BY <2>1
  <2>3. QED
    BY <2>1, <2>2
<1>2. ASSUME NEW k \in Nat, k \in Good PROVE k + 1 \in Good
  <2>1. PICK g : Doubles(g, 0..k) /\ \A n \in 0..k : g[n] \in Nat
    BY <1>2
  <2> DEFINE h == [n \in 0..(k + 1) |-> IF n = 0 THEN 1 ELSE 2 * g[n - 1]]
  <2>2. \A n \in 0..k : h[n] = g[n]
    BY <2>1
  <2>3. \A n \in 0..(k + 1) : n # 0 => n - 1 \in 0..k
    OBVIOUS
  <2>4. Doubles(h, 0..(k + 1))
    <3>1. \A n \in 0..(k + 1) : n # 0 => g[n - 1] = h[n - 1]
      BY <2>2, <2>3
    <3>2. QED
      BY <3>1
  <2>5. \A n \in 0..(k + 1) : h[n] \in Nat
    <3>1. ASSUME NEW n \in 0..(k + 1) PROVE h[n] \in Nat
      <4>1. h[n] = IF n = 0 THEN 1 ELSE 2 * g[n - 1]
        OBVIOUS
      <4>2. n # 0 => g[n - 1] \in Nat
        BY <2>1, <2>3
      <4>3. QED
        BY <4>1, <4>2
    <3>2. QED
      BY <3>1
  <2> HIDE DEF h
  <2>6. QED
    BY <2>4, <2>5
<1>3. Nat \subseteq Good
  <2> HIDE DEF Good
  <2>1. QED
    BY <1>1, <1>2, NatSetInduction
<1> DEFINE Level(k) == CHOOSE g : Doubles(g, 0..k) /\ \A n \in 0..k : g[n] \in Nat
<1>4. \A k \in Nat : Doubles(Level(k), 0..k) /\ \A n \in 0..k : Level(k)[n] \in Nat
  BY <1>3
<1> HIDE DEF Level
<1>5. ASSUME NEW k \in Nat PROVE Level(k + 1)[k] = Level(k)[k]
  <2> DEFINE Same == {n \in Nat : n <= k => Level(k + 1)[n] = Level(k)[n]}
  <2>1. /\ Level(k) = [n \in 0..k |-> IF n = 0 THEN 1 ELSE 2 * Level(k)[n - 1]]
        /\ Level(k + 1) = [n \in 0..(k + 1) |-> IF n = 0 THEN 1 ELSE 2 * Level(k + 1)[n - 1]]
    <3>1. k + 1 \in Nat
      OBVIOUS
    <3>2. QED
      BY <1>4, <3>1
  <2>2. 0 \in Same
    BY <2>1
  <2>3. ASSUME NEW n \in Nat, n \in Same PROVE n + 1 \in Same
    <3>1. SUFFICES ASSUME n + 1 <= k PROVE Level(k + 1)[n + 1] = Level(k)[n + 1]
      OBVIOUS
    <3>2. Level(k + 1)[n] = Level(k)[n]
      BY <2>3, <3>1
    <3>3. n + 1 \in 0..k /\ n + 1 \in 0..(k + 1) /\ n + 1 # 0 /\ (n + 1) - 1 = n
      BY <3>1
    <3>4. QED
      BY <2>1, <3>2, <3>3
  <2>4. Nat \subseteq Same
    <3> HIDE DEF Same
    <3>1. QED
      BY <2>2, <2>3, NatSetInduction
  <2>5. QED
    BY <2>4
<1> DEFINE all == [n \in Nat |-> Level(n)[n]]
<1>6. all = [n \in Nat |-> IF n = 0 THEN 1 ELSE 2 * all[n - 1]]
  <2>1. ASSUME NEW n \in Nat PROVE all[n] = IF n = 0 THEN 1 ELSE 2 * all[n - 1]
    <3>1. Level(n)[n] = IF n = 0 THEN 1 ELSE 2 * Level(n)[n - 1]
      <4>1. Level(n) = [i \in 0..n |-> IF i = 0 THEN 1 ELSE 2 * Level(n)[i - 1]]
        BY <1>4
      <4>2. n \in 0..n
        OBVIOUS
      <4>3. QED
        BY <4>1, <4>2
    <3>2. CASE n = 0
      BY <3>1, <3>2
    <3>3. CASE n # 0
      <4>1. n - 1 \in Nat /\ (n - 1) + 1 = n
        BY <3>3
      <4>2. Level(n)[n - 1] = Level(n - 1)[n - 1]
        BY <1>5, <4>1
      <4>3. QED
        BY <3>1, <3>3, <4>1, <4>2
    <3>4. QED
      BY <3>2, <3>3
  <2>2. all = [n \in Nat |-> all[n]]
    OBVIOUS
  <2> HIDE DEF all
  <2>3. QED
    BY <2>1, <2>2
<1>7. f = [n \in Nat |-> IF n = 0 THEN 1 ELSE 2 * f[n - 1]]
  <2> HIDE DEF all
  <2>1. QED
    BY <1>6
<1>8. f[0] = 1 /\ \A n \in Nat : f[n + 1] = 2 * f[n]
  <2>1. \A n \in Nat : n + 1 \in Nat /\ n + 1 # 0 /\ (n + 1) - 1 = n
    OBVIOUS
  <2>2. QED
    BY <1>7, <2>1
<1>9. \A n \in Nat : f[n] \in Nat
  <2> DEFINE Num == {n \in Nat : f[n] \in Nat}
  <2>1. 0 \in Num /\ \A n \in Nat : n \in Num => n + 1 \in Num
    BY <1>8
  <2>2. Nat \subseteq Num
    <3> HIDE DEF Num
    <3>1. QED
      BY <2>1, NatSetInduction
  <2>3. QED
    BY <2>2
<1>10. QED
  BY <1>8, <1>9
-----------------------------------------------------------------------------
(* Listings.                                                               *)

LEMMA RankType ==
    ASSUME NEW S \in SUBSET Int, IsFiniteSet(S), NEW x \in S
    PROVE  /\ IsFiniteSet({y \in S : y <= x})
           /\ Rank(x, S) \in 1..Cardinality(S)
<1>1. PICK T : T = {y \in S : y <= x}
  OBVIOUS
<1>2. T \in SUBSET S /\ x \in T
  BY <1>1
<1>3. IsFiniteSet(T) /\ Cardinality(T) <= Cardinality(S)
  BY <1>2, FS_Subset
<1>4. Cardinality(T) \in Nat /\ Cardinality(S) \in Nat
  BY <1>3, FS_CardinalityType
<1>5. Cardinality(T) # 0
  BY <1>2, <1>3, FS_EmptySet
<1>6. QED
  BY <1>1, <1>3, <1>4, <1>5 DEF Rank

\* Of two elements the greater one has the greater rank, by one if nothing
\* lies between them.
LEMMA RankGrows ==
    ASSUME NEW S \in SUBSET Int, IsFiniteSet(S), NEW x \in S, NEW y \in S, x < y
    PROVE  /\ Rank(x, S) < Rank(y, S)
           /\ (\A z \in S : z <= x \/ z >= y) => Rank(y, S) = Rank(x, S) + 1
<1>1. PICK T, U : T = {z \in S : z <= x} /\ U = {z \in S : z <= y}
  OBVIOUS
<1>2. IsFiniteSet(T) /\ IsFiniteSet(U)
  BY <1>1, RankType
<1>3. T \cup {y} \in SUBSET U /\ y \notin T
  <2>1. x \in Int /\ y \in Int /\ \A z \in S : z \in Int
    OBVIOUS
  <2>2. y \notin T /\ y \in U
    BY <1>1, <2>1
  <2>3. \A z \in T : z \in U
    BY <1>1, <2>1
  <2>4. QED
    BY <2>2, <2>3
<1>4. Cardinality(T \cup {y}) = Cardinality(T) + 1 /\ Cardinality(T) \in Nat
  BY <1>2, <1>3, FS_AddElement, FS_CardinalityType
<1>5. Cardinality(T \cup {y}) <= Cardinality(U) /\ Cardinality(U) \in Nat
  BY <1>2, <1>3, FS_Subset, FS_CardinalityType
<1>6. (\A z \in S : z <= x \/ z >= y) => U = T \cup {y}
  <2>1. SUFFICES ASSUME \A z \in S : z <= x \/ z >= y PROVE U = T \cup {y}
    OBVIOUS
  <2>2. x \in Int /\ y \in Int /\ \A z \in S : z \in Int
    OBVIOUS
  <2>3. \A z \in U : z \in T \cup {y}
    BY <1>1, <2>1, <2>2
  <2>4. QED
    BY <1>3, <2>3
<1>7. QED
  BY <1>1, <1>4, <1>5, <1>6 DEF Rank

\* Every place in the listing is taken by one element.
LEMMA RankOnto ==
    ASSUME NEW S \in SUBSET Int, IsFiniteSet(S), NEW n \in 1..Cardinality(S)
    PROVE  \E x \in S : Rank(x, S) = n
<1>1. PICK N \in Nat : N = Cardinality(S)
  BY FS_CardinalityType
<1>2. PICK f : f = [x \in S |-> Rank(x, S)]
  OBVIOUS
<1>3. f \in Injection(S, 1..N)
  <2>1. f \in [S -> 1..N]
    BY <1>1, <1>2, RankType
  <2>2. ASSUME NEW x \in S, NEW y \in S, f[x] = f[y] PROVE x = y
    <3>1. Rank(x, S) \in Int /\ Rank(y, S) \in Int
      <4>1. Rank(x, S) \in 1..N /\ Rank(y, S) \in 1..N
        BY <1>1, RankType
      <4>2. QED
        BY <4>1
    <3>2. ~(x < y) /\ ~(y < x)
      BY <1>2, <2>2, <3>1, RankGrows
    <3>3. QED
      BY <3>2
  <2>3. QED
    BY <2>1, <2>2 DEF Injection, IsInjective
<1>4. IsFiniteSet(1..N) /\ Cardinality(1..N) = N
  <2>1. 1 \in Int /\ N \in Int
    OBVIOUS
  <2>2. IsFiniteSet(1..N) /\ Cardinality(1..N) = IF 1 > N THEN 0 ELSE N - 1 + 1
    BY <2>1, FS_Interval
  <2>3. QED
    BY <2>2
<1>5. f \in Surjection(S, 1..N)
  BY <1>1, <1>3, <1>4, FS_Injection
<1>6. QED
  BY <1>1, <1>2, <1>5 DEF Surjection

\* What a listing lists: each place holds the element of that rank.
LEMMA ListedType ==
    ASSUME NEW S \in SUBSET Int, IsFiniteSet(S)
    PROVE  /\ Cardinality(S) \in Nat
           /\ Listed(S) \in Seq(S) /\ Len(Listed(S)) = Cardinality(S)
           /\ DOMAIN Listed(S) = 1..Cardinality(S)
           /\ \A n \in 1..Cardinality(S) : Listed(S)[n] \in S /\ Rank(Listed(S)[n], S) = n
<1>1. Cardinality(S) \in Nat
  BY FS_CardinalityType
<1>2. \A n \in 1..Cardinality(S) : Listed(S)[n] \in S /\ Rank(Listed(S)[n], S) = n
  BY RankOnto DEF Listed
<1>3. QED
  BY <1>1, <1>2 DEF Listed

LEMMA ListedAt ==
    ASSUME NEW S \in SUBSET Int, IsFiniteSet(S), NEW x \in S
    PROVE  Rank(x, S) \in DOMAIN Listed(S) /\ Listed(S)[Rank(x, S)] = x
<1>1. PICK n : n = Rank(x, S)
  OBVIOUS
<1>2. n \in 1..Cardinality(S)
  BY <1>1, RankType
<1>3. PICK y : y = Listed(S)[n]
  OBVIOUS
<1>4. y \in S /\ Rank(y, S) = n
  BY <1>2, <1>3, ListedType
<1>5. n \in Int
  BY <1>2, ListedType
<1>6. ~(x < y) /\ ~(y < x)
  BY <1>1, <1>4, <1>5, RankGrows
<1>7. x = y
  BY <1>4, <1>6
<1>8. QED
  BY <1>1, <1>2, <1>3, <1>7, ListedType

\* A number above all others is listed last.
LEMMA ListedAppend ==
    ASSUME NEW S \in SUBSET Int, IsFiniteSet(S), NEW x \in Int, \A y \in S : y < x
    PROVE  /\ Listed(S \cup {x}) = Append(Listed(S), x)
           /\ Cardinality(S \cup {x}) = Cardinality(S) + 1
<1>1. PICK T, N : T = S \cup {x} /\ N = Cardinality(S)
  OBVIOUS
<1>2. T \in SUBSET Int /\ x \notin S
  BY <1>1
<1>3. IsFiniteSet(T) /\ Cardinality(T) = N + 1 /\ N \in Nat
  BY <1>1, <1>2, FS_AddElement, FS_CardinalityType
<1>4. ASSUME NEW y \in S PROVE Rank(y, T) = Rank(y, S)
  <2>1. {z \in T : z <= y} = {z \in S : z <= y}
    BY <1>1
  <2>2. QED
    BY <2>1 DEF Rank
<1>5. Rank(x, T) = N + 1
  <2>1. \A z \in T : z <= x
    BY <1>1
  <2>2. {z \in T : z <= x} = T
    BY <2>1
  <2>3. QED
    BY <1>3, <2>2 DEF Rank
<1>6. ASSUME NEW n \in 1..N PROVE Listed(T)[n] = Listed(S)[n]
  <2>1. PICK y : y = Listed(S)[n] /\ y \in S /\ Rank(y, S) = n
    BY <1>1, <1>6, ListedType
  <2>2. y \in T /\ Rank(y, T) = n
    BY <1>1, <1>4, <2>1
  <2>3. QED
    BY <1>2, <1>3, <2>1, <2>2, ListedAt
<1>7. Listed(T)[N + 1] = x
  BY <1>1, <1>2, <1>3, <1>5, ListedAt
<1>8. /\ Listed(T) \in Seq(Int) /\ Len(Listed(T)) = N + 1
      /\ Listed(S) \in Seq(Int) /\ Len(Listed(S)) = N
  <2>1. Listed(T) \in Seq(T) /\ Len(Listed(T)) = N + 1
    BY <1>2, <1>3, ListedType
  <2>2. Listed(S) \in Seq(S) /\ Len(Listed(S)) = N
    BY <1>1, ListedType
  <2>3. Listed(T) \in Seq(Int)
    BY <1>2, <2>1, SeqMonotonic
  <2>4. Listed(S) \in Seq(Int)
    BY <2>2, SeqMonotonic
  <2>5. QED
    BY <2>1, <2>2, <2>3, <2>4
<1>9. PICK s, t : s = Listed(T) /\ t = Append(Listed(S), x)
  OBVIOUS
<1>10. /\ s \in Seq(Int) /\ t \in Seq(Int) /\ Len(s) = N + 1 /\ Len(t) = N + 1
       /\ \A n \in 1..N : t[n] = Listed(S)[n]
       /\ t[N + 1] = x
  BY <1>3, <1>8, <1>9
<1>11. \A n \in 1..(N + 1) : s[n] = t[n]
  BY <1>3, <1>6, <1>7, <1>9, <1>10
<1>12. s = t
  BY <1>10, <1>11, SeqEqual
<1>13. QED
  BY <1>1, <1>3, <1>9, <1>12

\* A listing of consecutive numbers counts up from the first.
LEMMA ListedInterval ==
    ASSUME NEW a \in Int, NEW b \in Int, a <= b + 1
    PROVE  /\ Cardinality(a..b) = b - a + 1
           /\ DOMAIN Listed(a..b) = 1..(b - a + 1)
           /\ \A n \in 1..(b - a + 1) : Listed(a..b)[n] = a + n - 1
<1>1. \A c \in Int : a <= c + 1 => IsFiniteSet(a..c) /\ Cardinality(a..c) = c - a + 1
  <2>1. ASSUME NEW c \in Int, a <= c + 1
        PROVE  IsFiniteSet(a..c) /\ Cardinality(a..c) = c - a + 1
    <3>1. IsFiniteSet(a..c) /\ Cardinality(a..c) = IF a > c THEN 0 ELSE c - a + 1
      BY FS_Interval
    <3>2. QED
      BY <2>1, <3>1
  <2>2. QED
    BY <2>1
<1>2. PICK S : S = a..b
  OBVIOUS
<1>3. S \in SUBSET Int /\ IsFiniteSet(S) /\ Cardinality(S) = b - a + 1
  BY <1>1, <1>2
<1>4. ASSUME NEW n \in 1..(b - a + 1) PROVE Listed(S)[n] = a + n - 1
  <2>1. PICK x \in Int : x = a + n - 1
    OBVIOUS
  <2>2. x \in S /\ a <= x + 1
    BY <1>2, <2>1
  <2>3. {y \in S : y <= x} = a..x
    BY <1>2, <2>2
  <2>4. Rank(x, S) = x - a + 1
    BY <1>1, <2>2, <2>3 DEF Rank
  <2>5. x - a + 1 = n
    BY <2>1
  <2>6. Listed(S)[Rank(x, S)] = x
    BY <1>3, <2>2, ListedAt
  <2>7. QED
    BY <2>1, <2>4, <2>5, <2>6
<1>5. DOMAIN Listed(S) = 1..(b - a + 1)
  BY <1>3, ListedType
<1>6. QED
  BY <1>2, <1>3, <1>4, <1>5
-----------------------------------------------------------------------------
(***************************************************************************)
(* Sums and sizes of sets whose elements correspond, or that are parts of  *)
(* one another.                                                            *)
(***************************************************************************)

\* h takes the elements of S to those of T, one to one.
OneToOne(h, S, T) ==
    /\ \A x \in S : h[x] \in T
    /\ \A x \in S : \A y \in S : h[x] = h[y] => x = y
    /\ \A y \in T : \E x \in S : h[x] = y

LEMMA SameSize ==
    ASSUME NEW S, IsFiniteSet(S), NEW T, NEW h, OneToOne(h, S, T)
    PROVE  IsFiniteSet(T) /\ Cardinality(T) = Cardinality(S)
<1> DEFINE b == [x \in S |-> h[x]]
<1>1. b \in Bijection(S, T)
  BY DEF OneToOne, Bijection, Injection, Surjection, IsInjective
<1>2. ExistsBijection(S, T)
  BY <1>1 DEF ExistsBijection
<1>3. QED
  BY <1>2, FS_Bijection

\* A sum may be taken in another order, over other names of its terms.
LEMMA SumAlong ==
    ASSUME NEW S, IsFiniteSet(S), NEW T, NEW h, OneToOne(h, S, T),
           NEW f, NEW g, \A x \in S : f[x] \in Int /\ f[x] = g[h[x]]
    PROVE  SumFunctionOnSet(f, S) = SumFunctionOnSet(g, T)
<1> DEFINE Image(U) == {h[x] : x \in U}
           Good == {U \in SUBSET S : SumFunctionOnSet(f, U) = SumFunctionOnSet(g, Image(U))}
<1>1. IsFiniteSet(T)
  BY SameSize
<1>2. {} \in Good
  <2>1. Image({}) = {}
    OBVIOUS
  <2>2. QED
    BY <2>1, SumEmpty
<1>3. ASSUME NEW U \in SUBSET S, U \in Good, NEW x \in S \ U PROVE U \cup {x} \in Good
  <2>1. PICK V : V = Image(U)
    OBVIOUS
  <2>2. Image(U \cup {x}) = V \cup {h[x]}
    BY <2>1
  <2>3. h[x] \notin V
    BY <2>1 DEF OneToOne
  <2>4. V \in SUBSET T
    BY <2>1 DEF OneToOne
  <2>5. IsFiniteSet(U) /\ IsFiniteSet(V)
    BY <1>1, <2>4, FS_Subset
  <2>6. \A y \in V \cup {h[x]} : g[y] \in Int
    BY <2>1
  <2>7. SumFunctionOnSet(f, U \cup {x}) = SumFunctionOnSet(f, U) + f[x]
    BY <2>5, SumInsert
  <2>8. SumFunctionOnSet(g, V \cup {h[x]}) = SumFunctionOnSet(g, V) + g[h[x]]
    <3>1. PICK z : z = h[x]
      OBVIOUS
    <3>2. z \notin V /\ \A y \in V \cup {z} : g[y] \in Int
      BY <2>3, <2>6, <3>1
    <3>3. SumFunctionOnSet(g, V \cup {z}) = SumFunctionOnSet(g, V) + g[z]
      BY <2>5, <3>2, SumInsert
    <3>4. QED
      BY <3>1, <3>3
  <2>9. SumFunctionOnSet(f, U) = SumFunctionOnSet(g, V)
    BY <1>3, <2>1
  <2>10. f[x] = g[h[x]]
    OBVIOUS
  <2>11. SumFunctionOnSet(f, U \cup {x}) = SumFunctionOnSet(g, V \cup {h[x]})
    BY <2>7, <2>8, <2>9, <2>10
  <2>12. QED
    BY <2>2, <2>11
<1>4. Image(S) = T
  BY DEF OneToOne
<1>5. S \in Good
  <2> HIDE DEF Good
  <2>1. QED
    BY <1>2, <1>3, FiniteSetInduction
<1>6. QED
  BY <1>4, <1>5

\* Terms that are zero may be left out.
LEMMA SumSelected ==
    ASSUME NEW S, IsFiniteSet(S), NEW T \in SUBSET S, NEW f,
           \A x \in S : f[x] \in Int, \A x \in S \ T : f[x] = 0
    PROVE  SumFunctionOnSet(f, S) = SumFunctionOnSet(f, T)
<1> DEFINE Good == {U \in SUBSET S : SumFunctionOnSet(f, U) = SumFunctionOnSet(f, U \cap T)}
<1>1. {} \in Good
  <2>1. {} \cap T = {}
    OBVIOUS
  <2>2. QED
    BY <2>1
<1>2. ASSUME NEW U \in SUBSET S, U \in Good, NEW x \in S \ U PROVE U \cup {x} \in Good
  <2>1. PICK V : V = U \cap T
    OBVIOUS
  <2>2. IsFiniteSet(U) /\ IsFiniteSet(V) /\ x \notin V
    BY <2>1, FS_Subset
  <2>3. SumFunctionOnSet(f, U \cup {x}) = SumFunctionOnSet(f, U) + f[x]
    BY <2>2, SumInsert
  <2>4. SumFunctionOnSet(f, V \cup {x}) = SumFunctionOnSet(f, V) + f[x]
    BY <2>1, <2>2, SumInsert
  <2>5. SumFunctionOnSet(f, V) \in Int
    BY <2>1, <2>2, SumTake
  <2>6. SumFunctionOnSet(f, U) = SumFunctionOnSet(f, V)
    BY <1>2, <2>1
  <2>7. CASE x \in T
    <3>1. (U \cup {x}) \cap T = V \cup {x}
      BY <2>1, <2>7
    <3>2. QED
      BY <2>3, <2>4, <2>6, <3>1
  <2>8. CASE x \notin T
    <3>1. (U \cup {x}) \cap T = V /\ f[x] = 0
      BY <2>1, <2>8
    <3>2. SumFunctionOnSet(f, U \cup {x}) = SumFunctionOnSet(f, V)
      BY <2>3, <2>5, <2>6, <3>1
    <3>3. QED
      BY <3>1, <3>2
  <2>9. QED
    BY <2>7, <2>8
<1>3. S \in Good
  <2> HIDE DEF Good
  <2>1. QED
    BY <1>1, <1>2, FiniteSetInduction
<1>4. S \cap T = T
  OBVIOUS
<1>5. QED
  BY <1>3, <1>4

\* The sum of the differences is the difference of the sums.
LEMMA SumMinus ==
    ASSUME NEW S, IsFiniteSet(S), NEW f, NEW g, NEW d,
           \A x \in S : f[x] \in Int /\ g[x] \in Int /\ d[x] = f[x] - g[x]
    PROVE  SumFunctionOnSet(d, S) = SumFunctionOnSet(f, S) - SumFunctionOnSet(g, S)
<1> DEFINE Good == {U \in SUBSET S : SumFunctionOnSet(d, U)
                      = SumFunctionOnSet(f, U) - SumFunctionOnSet(g, U)}
<1>1. {} \in Good
  BY SumEmpty
<1>2. ASSUME NEW U \in SUBSET S, U \in Good, NEW x \in S \ U PROVE U \cup {x} \in Good
  <2>1. IsFiniteSet(U) /\ U \cup {x} \in SUBSET S
    BY FS_Subset
  <2>2. \A y \in U \cup {x} : f[y] \in Int /\ g[y] \in Int /\ d[y] \in Int
    OBVIOUS
  <2>3. /\ SumFunctionOnSet(f, U \cup {x}) = SumFunctionOnSet(f, U) + f[x]
        /\ SumFunctionOnSet(g, U \cup {x}) = SumFunctionOnSet(g, U) + g[x]
        /\ SumFunctionOnSet(d, U \cup {x}) = SumFunctionOnSet(d, U) + d[x]
    BY <2>1, <2>2, SumInsert
  <2>4. SumFunctionOnSet(f, U) \in Int /\ SumFunctionOnSet(g, U) \in Int
    BY <2>1, <2>2, SumTake
  <2>5. PICK a \in Int, b \in Int : a = SumFunctionOnSet(f, U) /\ b = SumFunctionOnSet(g, U)
    BY <2>4
  <2>6. SumFunctionOnSet(d, U) = a - b
    BY <1>2, <2>5
  <2>7. PICK i \in Int, j \in Int : i = f[x] /\ j = g[x] /\ d[x] = i - j
    BY <2>2
  <2>8. (a - b) + (i - j) = (a + i) - (b + j)
    OBVIOUS
  <2>9. QED
    BY <2>1, <2>3, <2>5, <2>6, <2>7, <2>8
<1>3. S \in Good
  <2> HIDE DEF Good
  <2>1. QED
    BY <1>1, <1>2, FiniteSetInduction
<1>4. QED
  BY <1>3

\* The elements of S that have this key.
Having(key, S, p) == {x \in S : key[x] = p}

\* Terms may be summed up by a key first.
LEMMA SumByKey ==
    ASSUME NEW S, IsFiniteSet(S), NEW P, IsFiniteSet(P),
           NEW key, \A x \in S : key[x] \in P,
           NEW f, \A x \in S : f[x] \in Int,
           NEW parts, \A p \in P : parts[p] = SumFunctionOnSet(f, Having(key, S, p))
    PROVE  SumFunctionOnSet(parts, P) = SumFunctionOnSet(f, S)
<1> DEFINE Parts(U) == [p \in P |-> SumFunctionOnSet(f, Having(key, U, p))]
           Good == {U \in SUBSET S : SumFunctionOnSet(Parts(U), P) = SumFunctionOnSet(f, U)}
<1>1. {} \in Good
  <2>1. \A p \in P : Having(key, {}, p) = {}
    BY DEF Having
  <2>2. \A p \in P : Parts({})[p] = 0
    BY <2>1, SumEmpty
  <2> HIDE DEF Parts
  <2>3. SumFunctionOnSet(Parts({}), P) = 0 * Cardinality(P)
    BY <2>2, SumConstant
  <2>4. Cardinality(P) \in Nat
    BY FS_CardinalityType
  <2>5. QED
    BY <2>3, <2>4, SumEmpty
<1>2. ASSUME NEW U \in SUBSET S, U \in Good, NEW x \in S \ U PROVE U \cup {x} \in Good
  <2>1. PICK q, W : q = key[x] /\ q \in P /\ W = U \cup {x}
    OBVIOUS
  <2>2. IsFiniteSet(U) /\ IsFiniteSet(W) /\ W \in SUBSET S
    BY <2>1, FS_Subset
  <2>3. \A p \in P : IsFiniteSet(Having(key, U, p)) /\ IsFiniteSet(Having(key, W, p))
    <3>1. \A p \in P : Having(key, U, p) \in SUBSET S /\ Having(key, W, p) \in SUBSET S
      BY <2>2 DEF Having
    <3>2. QED
      BY <3>1, FS_Subset
  <2>4. \A p \in P : p # q => Having(key, W, p) = Having(key, U, p)
    BY <2>1 DEF Having
  <2>5. Having(key, W, q) = Having(key, U, q) \cup {x} /\ x \notin Having(key, U, q)
    BY <2>1 DEF Having
  <2>6. \A p \in P : \A y \in Having(key, W, p) \cup Having(key, U, p) : f[y] \in Int
    BY <2>2 DEF Having
  <2>7. SumFunctionOnSet(f, Having(key, W, q)) = SumFunctionOnSet(f, Having(key, U, q)) + f[x]
    <3>1. PICK V : V = Having(key, U, q)
      OBVIOUS
    <3>2. x \notin V /\ \A y \in V \cup {x} : f[y] \in Int
      BY <2>5, <3>1 DEF Having
    <3>3. IsFiniteSet(V)
      BY <2>1, <2>3, <3>1
    <3>4. SumFunctionOnSet(f, V \cup {x}) = SumFunctionOnSet(f, V) + f[x]
      BY <3>2, <3>3, SumInsert
    <3>5. QED
      BY <2>5, <3>1, <3>4
  <2>8. PICK before, now : before = Parts(U) /\ now = Parts(W)
    OBVIOUS
  <2>9. \A p \in P : before[p] \in Int /\ now[p] \in Int
    <3>1. \A p \in P : /\ SumFunctionOnSet(f, Having(key, U, p)) \in Int
                       /\ SumFunctionOnSet(f, Having(key, W, p)) \in Int
      <4>1. QED
        BY <2>3, <2>6, SumTake
    <3>2. QED
      BY <2>8, <3>1
  <2>10. \A p \in P \ {q} : before[p] \in Int /\ before[p] = now[p]
    <3>1. QED
      BY <2>4, <2>8, <2>9
  <2>11. now[q] = before[q] + f[x]
    <3>1. QED
      BY <2>1, <2>7, <2>8
  <2>12. SumFunctionOnSet(before, P \ {q}) = SumFunctionOnSet(now, P \ {q})
    <3>1. IsFiniteSet(P \ {q})
      BY FS_RemoveElement
    <3>2. QED
      BY <2>10, <3>1, SumSame
  <2>13. /\ SumFunctionOnSet(before, P) = before[q] + SumFunctionOnSet(before, P \ {q})
         /\ SumFunctionOnSet(now, P) = now[q] + SumFunctionOnSet(now, P \ {q})
    <3>1. q \in P /\ (\A p \in P : before[p] \in Int) /\ (\A p \in P : now[p] \in Int)
      BY <2>1, <2>9
    <3>2. QED
      BY <3>1, SumTake
  <2>14. SumFunctionOnSet(now, P \ {q}) \in Int
    <3>1. IsFiniteSet(P \ {q})
      BY FS_RemoveElement
    <3>2. QED
      BY <2>9, <3>1, SumTake
  <2>15. SumFunctionOnSet(f, W) = SumFunctionOnSet(f, U) + f[x]
    BY <2>1, <2>2, SumInsert
  <2>16. SumFunctionOnSet(before, P) = SumFunctionOnSet(f, U)
    BY <1>2, <2>8
  <2>17. PICK s \in Int, i \in Int, j \in Int :
            s = SumFunctionOnSet(now, P \ {q}) /\ i = before[q] /\ j = f[x]
    BY <2>1, <2>9, <2>14
  <2>18. (i + j) + s = (i + s) + j
    OBVIOUS
  <2>19. SumFunctionOnSet(now, P) = SumFunctionOnSet(f, W)
    BY <2>11, <2>12, <2>13, <2>15, <2>16, <2>17, <2>18
  <2>20. QED
    BY <2>1, <2>2, <2>8, <2>19
<1>3. S \in Good
  <2> HIDE DEF Good
  <2>1. QED
    BY <1>1, <1>2, FiniteSetInduction
<1>4. SumFunctionOnSet(Parts(S), P) = SumFunctionOnSet(parts, P)
  <2>1. \A p \in P : parts[p] \in Int /\ parts[p] = Parts(S)[p]
    <3>1. \A p \in P : Having(key, S, p) \in SUBSET S
      BY DEF Having
    <3>2. \A p \in P : SumFunctionOnSet(f, Having(key, S, p)) \in Int
      BY <3>1, FS_Subset, SumTake
    <3>3. QED
      BY <3>2
  <2> HIDE DEF Parts
  <2>2. QED
    BY <2>1, SumSame
<1>5. QED
  BY <1>3, <1>4

\* And elements counted by a key.
LEMMA CountByKey ==
    ASSUME NEW S, IsFiniteSet(S), NEW P, IsFiniteSet(P),
           NEW key, \A x \in S : key[x] \in P,
           NEW parts, \A p \in P : parts[p] = Cardinality(Having(key, S, p))
    PROVE  SumFunctionOnSet(parts, P) = Cardinality(S)
<1>1. PICK one : \A x \in S : one[x] = 1
  <2>1. \A x \in S : [y \in S |-> 1][x] = 1
    OBVIOUS
  <2>2. QED
    BY <2>1
<1>2. \A T \in SUBSET S : SumFunctionOnSet(one, T) = Cardinality(T)
  <2>1. ASSUME NEW T \in SUBSET S PROVE SumFunctionOnSet(one, T) = Cardinality(T)
    <3>1. IsFiniteSet(T) /\ Cardinality(T) \in Nat
      BY FS_Subset, FS_CardinalityType
    <3>2. SumFunctionOnSet(one, T) = 1 * Cardinality(T)
      BY <1>1, <3>1, SumConstant
    <3>3. QED
      BY <3>1, <3>2
  <2>2. QED
    BY <2>1
<1>3. \A p \in P : parts[p] = SumFunctionOnSet(one, Having(key, S, p))
  BY <1>2 DEF Having
<1>4. SumFunctionOnSet(parts, P) = SumFunctionOnSet(one, S)
  <2>1. \A x \in S : one[x] \in Int
    BY <1>1
  <2>2. QED
    BY <1>3, <2>1, SumByKey
<1>5. QED
  BY <1>2, <1>4

\* What a list keeps at some places is found there, one to one and in order.
LEMMA KeepAt ==
    ASSUME NEW list, NEW S \in SUBSET Int, IsFiniteSet(S)
    PROVE  LET kept == Keep(list, S) IN
           /\ Len(kept) = Cardinality(S) /\ Cardinality(S) \in Nat
           /\ DOMAIN kept = 1..Cardinality(S)
           /\ kept = [n \in 1..Cardinality(S) |-> list[Listed(S)[n]]]
           /\ OneToOne(Listed(S), 1..Cardinality(S), S)
           /\ \A n \in 1..Cardinality(S) : kept[n] = list[Listed(S)[n]]
<1>1. PICK h, n : h = Listed(S) /\ n = Cardinality(S)
  OBVIOUS
<1>2. n \in Nat /\ DOMAIN h = 1..n /\ \A i \in 1..n : h[i] \in S /\ Rank(h[i], S) = i
  BY <1>1, ListedType
<1>3. \A x \in S : Rank(x, S) \in 1..n /\ h[Rank(x, S)] = x
  BY <1>1, <1>2, ListedAt
<1>4. OneToOne(h, 1..n, S)
  <2>1. \A i \in 1..n : \A j \in 1..n : h[i] = h[j] => i = j
    BY <1>2
  <2>2. QED
    BY <1>2, <1>3, <2>1 DEF OneToOne
<1>5. PICK kept : kept = Keep(list, S)
  OBVIOUS
<1>6. kept = [i \in 1..n |-> list[h[i]]]
  BY <1>1, <1>2, <1>5 DEF Keep
<1>7. Len(kept) = n
  BY <1>2, <1>6
<1>8. QED
  BY <1>1, <1>2, <1>4, <1>5, <1>6, <1>7
=============================================================================
