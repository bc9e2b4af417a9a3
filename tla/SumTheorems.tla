---------------------------- MODULE SumTheorems ----------------------------
(***************************************************************************)
(* Sums over finite sets: lemmas about SumFunctionOnSet, which adds up     *)
(* credits and debits of the ledger, scores of the shares, and timers.     *)
(*                                                                         *)
(* The sum is a recursive function of the subsets of the set of indices.   *)
(* Its properties are proved by induction over these subsets: a finite set *)
(* has no infinite descending chain of subsets, hence a set of             *)
(* counterexamples that is not empty has a minimal one (SubsetInduction).  *)
(*                                                                         *)
(* The second part is about powers of two and the bits of a number, which  *)
(* the accumulator of Equihash shifts and masks.                           *)
(***************************************************************************)
EXTENDS Integers, FiniteSets, FiniteSetsExt, Functions, FiniteSetTheorems, TLAPS

\* The index with which the recursion goes on.
Picked(s) == CHOOSE x \in s : TRUE

\* g is the recursive function inside SumFunctionOnSet(f, T).
Sums(g, f, T) ==
  g = [s \in SUBSET T |-> IF s = {} THEN 0 ELSE f[Picked(s)] + g[s \ {Picked(s)}]]

\* Induction: what holds of a set when it holds of its proper subsets holds of all.
LEMMA SubsetInduction ==
  ASSUME NEW S, IsFiniteSet(S), NEW Bad \in SUBSET (SUBSET S),
         \A T \in SUBSET S : (\A U \in (SUBSET T) \ {T} : U \notin Bad) => T \notin Bad
  PROVE  Bad = {}
<1> SUFFICES ASSUME Bad # {} PROVE FALSE
  OBVIOUS
<1>1. IsWellFoundedOn(StrictSubsetOrdering(S), FiniteSubsetsOf(S))
  BY FS_StrictSubsetOrderingWellFounded
<1>2. Bad \subseteq FiniteSubsetsOf(S)
  BY FS_FiniteSubsetsOfFinite
<1>3. PICK T \in Bad : \A U \in Bad : ~(<<U, T>> \in StrictSubsetOrdering(S))
  BY <1>1, <1>2, WFMin
<1>4. \A U \in (SUBSET T) \ {T} : U \notin Bad
  <2> SUFFICES ASSUME NEW U \in (SUBSET T) \ {T}, U \in Bad PROVE FALSE
    OBVIOUS
  <2>1. <<U, T>> \in StrictSubsetOrdering(S)
    BY DEF StrictSubsetOrdering
  <2> QED BY <1>3, <2>1
<1> QED BY <1>3, <1>4

\* What the library's folds expand to.
LEMMA SumIsRecursive ==
  ASSUME NEW f, NEW S
  PROVE  SumFunctionOnSet(f, S) = (CHOOSE g : Sums(g, f, S))[S]
BY DEF SumFunctionOnSet, FoldFunctionOnSet, MapThenFoldSet, Sums, Picked

\* Two such functions agree where both are defined.
LEMMA SumsAgree ==
  ASSUME NEW f, NEW g, NEW h, NEW S, NEW T, IsFiniteSet(S), S \subseteq T,
         Sums(g, f, S), Sums(h, f, T)
  PROVE  \A s \in SUBSET S : g[s] = h[s]
<1> DEFINE Bad == {s \in SUBSET S : g[s] # h[s]}
<1>1. ASSUME NEW s \in SUBSET S, \A u \in (SUBSET s) \ {s} : u \notin Bad PROVE s \notin Bad
  <2>1. CASE s = {}
    <3>1. g[s] = 0
      BY <2>1 DEF Sums
    <3>2. h[s] = 0
      BY <2>1 DEF Sums
    <3> QED BY <3>1, <3>2
  <2>2. CASE s # {}
    <3> DEFINE x == Picked(s)
    <3>1. x \in s
      BY <2>2 DEF Picked
    <3> HIDE DEF x
    <3>2. s \ {x} \in (SUBSET s) \ {s} /\ s \ {x} \in SUBSET S
      BY <3>1
    <3>3. g[s \ {x}] = h[s \ {x}]
      BY <1>1, <3>2
    <3>4. g[s] = f[x] + g[s \ {x}]
      BY <2>2 DEF Sums, x
    <3>5. h[s] = f[x] + h[s \ {x}]
      <4>1. s \in SUBSET T
        OBVIOUS
      <4> QED BY <2>2, <4>1 DEF Sums, x
    <3> QED BY <3>3, <3>4, <3>5
  <2> QED BY <2>1, <2>2
<1>2. Bad = {}
  <2> HIDE DEF Bad
  <2>1. Bad \in SUBSET (SUBSET S)
    BY DEF Bad
  <2> QED BY <1>1, <2>1, SubsetInduction
<1> QED BY <1>2

\* The recursion has a solution on the subsets of a finite set.
LEMMA SumsExist ==
  ASSUME NEW f, NEW S, IsFiniteSet(S)
  PROVE  \E g : Sums(g, f, S)
<1> DEFINE Bad == {T \in SUBSET S : ~ \E g : Sums(g, f, T)}
           G(u) == CHOOSE g : Sums(g, f, u)
<1>1. ASSUME NEW T \in SUBSET S, \A u \in (SUBSET T) \ {T} : u \notin Bad
      PROVE  \E g : Sums(g, f, T)
  <2>1. \A u \in (SUBSET T) \ {T} : Sums(G(u), f, u)
    BY <1>1
  <2> DEFINE x == Picked(T)
             g == [s \in SUBSET T |->
                     IF s = T THEN (IF T = {} THEN 0 ELSE f[x] + G(T \ {x})[T \ {x}])
                     ELSE G(s)[s]]
  <2>2. ASSUME NEW s \in SUBSET T
        PROVE  g[s] = IF s = {} THEN 0 ELSE f[Picked(s)] + g[s \ {Picked(s)}]
    <3> DEFINE y == Picked(s)
    <3> HIDE DEF G, x, y
    <3>1. CASE s = {}
      <4>1. CASE T = {}
        BY <3>1, <4>1
      <4>2. CASE T # {}
        <5>1. Sums(G(s), f, s)
          BY <2>1, <3>1, <4>2
        <5>2. G(s)[s] = 0
          BY <3>1, <5>1 DEF Sums
        <5> QED BY <3>1, <4>2, <5>2
      <4> QED BY <4>1, <4>2
    <3>2. CASE s # {}
      <4>1. y \in s
        BY <3>2 DEF Picked, y
      <4>2. s \ {y} \in SUBSET T /\ s \ {y} # T /\ s \ {y} \in SUBSET s /\ T # {}
        BY <3>2, <4>1
      <4>3. g[s \ {y}] = G(s \ {y})[s \ {y}]
        BY <4>2
      <4>4. CASE s = T
        <5>1. g[s] = f[x] + G(T \ {x})[T \ {x}]
          BY <4>2, <4>4
        <5>2. x = y
          BY <4>4 DEF x, y
        <5> QED BY <3>2, <4>3, <4>4, <5>1, <5>2 DEF y
      <4>5. CASE s # T
        <5>1. g[s] = G(s)[s]
          BY <4>5
        <5>2. Sums(G(s), f, s) /\ Sums(G(s \ {y}), f, s \ {y})
          BY <2>1, <4>2, <4>5
        <5>3. G(s)[s] = f[y] + G(s)[s \ {y}]
          BY <3>2, <5>2 DEF Sums, y
        <5>4. IsFiniteSet(s \ {y})
          BY FS_Subset
        <5>5. G(s \ {y})[s \ {y}] = G(s)[s \ {y}]
          BY <4>2, <5>2, <5>4, SumsAgree
        <5> QED BY <3>2, <4>3, <5>1, <5>3, <5>5 DEF y
      <4> QED BY <4>4, <4>5
    <3> QED BY <3>1, <3>2
  <2>3. Sums(g, f, T)
    <3>1. g = [s \in SUBSET T |-> g[s]]
      OBVIOUS
    <3> HIDE DEF g
    <3> QED BY <2>2, <3>1 DEF Sums
  <2> QED BY <2>3
<1>2. \A T \in SUBSET S : (\A U \in (SUBSET T) \ {T} : U \notin Bad) => T \notin Bad
  BY <1>1
<1>3. Bad = {}
  <2> HIDE DEF Bad
  <2>1. Bad \in SUBSET (SUBSET S)
    BY DEF Bad
  <2> QED BY <1>2, <2>1, SubsetInduction
<1>4. S \notin Bad
  BY <1>3
<1> QED BY <1>4

-----------------------------------------------------------------------------
\* The sum over no index.
LEMMA SumEmpty ==
  ASSUME NEW f
  PROVE  SumFunctionOnSet(f, {}) = 0
<1>1. PICK g : Sums(g, f, {})
  BY SumsExist, FS_EmptySet
<1> DEFINE h == CHOOSE k : Sums(k, f, {})
<1>2. Sums(h, f, {})
  BY <1>1
<1> HIDE DEF h
<1>3. h[{}] = 0
  BY <1>2 DEF Sums
<1> QED BY <1>3, SumIsRecursive DEF h

\* The recursion, one step.
LEMMA SumPicked ==
  ASSUME NEW f, NEW S, IsFiniteSet(S), S # {}
  PROVE  /\ Picked(S) \in S
         /\ SumFunctionOnSet(f, S) = f[Picked(S)] + SumFunctionOnSet(f, S \ {Picked(S)})
<1> DEFINE x == Picked(S)
           T == S \ {x}
           g == CHOOSE k : Sums(k, f, S)
           h == CHOOSE k : Sums(k, f, T)
<1>1. x \in S
  BY DEF Picked
<1>2. IsFiniteSet(T) /\ T \subseteq S
  BY FS_Subset
<1>3. SumFunctionOnSet(f, S) = g[S] /\ SumFunctionOnSet(f, T) = h[T]
  BY SumIsRecursive
<1>4. Sums(g, f, S)
  BY SumsExist
<1>5. Sums(h, f, T)
  <2> HIDE DEF T
  <2> QED BY <1>2, SumsExist
<1> HIDE DEF g, h
<1>6. g[S] = f[x] + g[T]
  BY <1>4 DEF Sums
<1>7. h[T] = g[T]
  <2> HIDE DEF T
  <2> QED BY <1>2, <1>4, <1>5, SumsAgree
<1> QED BY <1>1, <1>3, <1>6, <1>7

\* A sum of integers is an integer.
LEMMA SumInt ==
  ASSUME NEW f, NEW S, IsFiniteSet(S), \A x \in S : f[x] \in Int
  PROVE  SumFunctionOnSet(f, S) \in Int
<1> DEFINE Bad == {T \in SUBSET S : SumFunctionOnSet(f, T) \notin Int}
<1>1. ASSUME NEW T \in SUBSET S, \A U \in (SUBSET T) \ {T} : U \notin Bad PROVE T \notin Bad
  <2>1. CASE T = {}
    BY <2>1, SumEmpty
  <2>2. CASE T # {}
    <3> DEFINE x == Picked(T)
    <3>1. x \in T /\ SumFunctionOnSet(f, T) = f[x] + SumFunctionOnSet(f, T \ {x})
      BY <2>2, SumPicked, FS_Subset
    <3> HIDE DEF x
    <3>2. SumFunctionOnSet(f, T \ {x}) \in Int
      BY <1>1, <3>1
    <3> QED BY <3>1, <3>2
  <2> QED BY <2>1, <2>2
<1>2. Bad = {}
  <2> HIDE DEF Bad
  <2>1. Bad \in SUBSET (SUBSET S)
    BY DEF Bad
  <2> QED BY <1>1, <2>1, SubsetInduction
<1>3. S \notin Bad
  BY <1>2
<1> QED BY <1>3

\* The recursion may begin with any element.
LEMMA SumRemove ==
  ASSUME NEW f, NEW S, IsFiniteSet(S), \A x \in S : f[x] \in Int, NEW y \in S
  PROVE  SumFunctionOnSet(f, S) = f[y] + SumFunctionOnSet(f, S \ {y})
<1> DEFINE Sum(T) == SumFunctionOnSet(f, T)
           Bad == {T \in SUBSET S : \E z \in T : Sum(T) # f[z] + Sum(T \ {z})}
<1>0. \A T \in SUBSET S : IsFiniteSet(T) /\ Sum(T) \in Int
  <2> TAKE T \in SUBSET S
  <2>1. IsFiniteSet(T)
    BY FS_Subset
  <2> QED BY <2>1, SumInt
<1>1. ASSUME NEW T \in SUBSET S, \A U \in (SUBSET T) \ {T} : U \notin Bad PROVE T \notin Bad
  <2> SUFFICES ASSUME NEW z \in T PROVE Sum(T) = f[z] + Sum(T \ {z})
    OBVIOUS
  <2> DEFINE x == Picked(T)
  <2>1. x \in T /\ Sum(T) = f[x] + Sum(T \ {x})
    BY <1>0, SumPicked
  <2> HIDE DEF x
  <2>2. CASE x = z
    BY <2>1, <2>2
  <2>3. CASE x # z
    <3> DEFINE R == (T \ {x}) \ {z}
    <3>1. Sum(T \ {x}) = f[z] + Sum((T \ {x}) \ {z})
      <4>1. T \ {x} \in (SUBSET T) \ {T} /\ z \in T \ {x}
        BY <2>1, <2>3
      <4> HIDE DEF Sum
      <4> QED BY <1>1, <4>1
    <3>2. Sum(T \ {z}) = f[x] + Sum((T \ {z}) \ {x})
      <4>1. T \ {z} \in (SUBSET T) \ {T} /\ x \in T \ {z}
        BY <2>1, <2>3
      <4> HIDE DEF Sum
      <4> QED BY <1>1, <4>1
    <3>3. (T \ {z}) \ {x} = R
      OBVIOUS
    <3>4. Sum(R) \in Int /\ f[x] \in Int /\ f[z] \in Int
      BY <1>0, <2>1
    <3> HIDE DEF Sum, R
    <3>5. Sum(T \ {x}) = f[z] + Sum(R) /\ Sum(T \ {z}) = f[x] + Sum(R)
      BY <3>1, <3>2, <3>3 DEF R
    <3> QED BY <2>1, <3>4, <3>5
  <2> QED BY <2>2, <2>3
<1>2. Bad = {}
  <2> HIDE DEF Bad
  <2>1. Bad \in SUBSET (SUBSET S)
    BY DEF Bad
  <2> QED BY <1>1, <2>1, SubsetInduction
<1>3. S \notin Bad
  BY <1>2
<1> QED BY <1>3

\* One more index.
LEMMA SumInsert ==
  ASSUME NEW f, NEW S, IsFiniteSet(S), NEW y, y \notin S, \A x \in S \cup {y} : f[x] \in Int
  PROVE  SumFunctionOnSet(f, S \cup {y}) = f[y] + SumFunctionOnSet(f, S)
<1> DEFINE T == S \cup {y}
<1>1. IsFiniteSet(T) /\ y \in T /\ T \ {y} = S
  BY FS_AddElement
<1> HIDE DEF T
<1>2. SumFunctionOnSet(f, T) = f[y] + SumFunctionOnSet(f, T \ {y})
  BY <1>1, SumRemove DEF T
<1> QED BY <1>1, <1>2 DEF T

\* A sum depends on the values at its indices only.
LEMMA SumSame ==
  ASSUME NEW f, NEW g, NEW S, IsFiniteSet(S), \A x \in S : f[x] = g[x]
  PROVE  SumFunctionOnSet(f, S) = SumFunctionOnSet(g, S)
<1> DEFINE Bad == {T \in SUBSET S : SumFunctionOnSet(f, T) # SumFunctionOnSet(g, T)}
<1>1. ASSUME NEW T \in SUBSET S, \A U \in (SUBSET T) \ {T} : U \notin Bad PROVE T \notin Bad
  <2>1. CASE T = {}
    BY <2>1, SumEmpty
  <2>2. CASE T # {}
    <3> DEFINE x == Picked(T)
    <3>1. /\ x \in T /\ SumFunctionOnSet(f, T) = f[x] + SumFunctionOnSet(f, T \ {x})
          /\ SumFunctionOnSet(g, T) = g[x] + SumFunctionOnSet(g, T \ {x})
      BY <2>2, SumPicked, FS_Subset
    <3> HIDE DEF x
    <3>2. SumFunctionOnSet(f, T \ {x}) = SumFunctionOnSet(g, T \ {x})
      BY <1>1, <3>1
    <3> QED BY <3>1, <3>2
  <2> QED BY <2>1, <2>2
<1>2. Bad = {}
  <2> HIDE DEF Bad
  <2>1. Bad \in SUBSET (SUBSET S)
    BY DEF Bad
  <2> QED BY <1>1, <2>1, SubsetInduction
<1>3. S \notin Bad
  BY <1>2
<1> QED BY <1>3

\* Indices with the value 0 add nothing, those with natural numbers take nothing away.
LEMMA SumSubset ==
  ASSUME NEW f, NEW S, IsFiniteSet(S), NEW R \in SUBSET S, \A x \in S : f[x] \in Int,
         \A x \in S \ R : f[x] >= 0
  PROVE  /\ SumFunctionOnSet(f, R) <= SumFunctionOnSet(f, S)
         /\ (\A x \in S \ R : f[x] = 0) => SumFunctionOnSet(f, S) = SumFunctionOnSet(f, R)
<1> DEFINE Sum(T) == SumFunctionOnSet(f, T)
           Zero == \A x \in S \ R : f[x] = 0
           Bad == {T \in SUBSET S : R \subseteq T /\ (Sum(R) > Sum(T) \/ (Zero /\ Sum(T) # Sum(R)))}
<1>0. \A T \in SUBSET S : IsFiniteSet(T) /\ Sum(T) \in Int
  <2> TAKE T \in SUBSET S
  <2>1. IsFiniteSet(T)
    BY FS_Subset
  <2> QED BY <2>1, SumInt
<1>1. ASSUME NEW T \in SUBSET S, \A U \in (SUBSET T) \ {T} : U \notin Bad PROVE T \notin Bad
  <2> SUFFICES ASSUME R \subseteq T
               PROVE  ~(Sum(R) > Sum(T)) /\ (Zero => Sum(T) = Sum(R))
    OBVIOUS
  <2>1. CASE T = R
    BY <1>0, <2>1
  <2>2. CASE T # R
    <3>1. PICK x \in T : x \notin R
      BY <2>2
    <3>2. Sum(T) = f[x] + Sum(T \ {x})
      BY <1>0, SumRemove
    <3>3. f[x] \in Int /\ f[x] >= 0 /\ (Zero => f[x] = 0)
      BY <3>1
    <3>4. /\ T \ {x} \in (SUBSET T) \ {T} /\ R \subseteq T \ {x}
          /\ Sum(T \ {x}) \in Int /\ Sum(R) \in Int
      BY <1>0, <3>1
    <3> HIDE DEF Sum, Zero
    <3>5. ~(Sum(R) > Sum(T \ {x})) /\ (Zero => Sum(T \ {x}) = Sum(R))
      BY <1>1, <3>4
    <3> QED BY <3>2, <3>3, <3>4, <3>5
  <2> QED BY <2>1, <2>2
<1>2. Bad = {}
  <2> HIDE DEF Bad
  <2>1. Bad \in SUBSET (SUBSET S)
    BY DEF Bad
  <2> QED BY <1>1, <2>1, SubsetInduction
<1>3. ~(Sum(R) > Sum(S)) /\ (Zero => Sum(S) = Sum(R))
  <2>1. S \notin Bad
    BY <1>2
  <2> HIDE DEF Sum, Zero
  <2> QED BY <2>1
<1>4. Sum(R) \in Int /\ Sum(S) \in Int
  BY <1>0
<1> HIDE DEF Sum
<1>5. Sum(R) <= Sum(S)
  BY <1>3, <1>4
<1> QED BY <1>3, <1>5 DEF Sum

\* A sum of natural numbers is a natural number.
LEMMA SumNat ==
  ASSUME NEW f, NEW S, IsFiniteSet(S), \A x \in S : f[x] \in Nat
  PROVE  SumFunctionOnSet(f, S) \in Nat
<1>1. SumFunctionOnSet(f, S) \in Int
  BY SumInt
<1>2. SumFunctionOnSet(f, {}) <= SumFunctionOnSet(f, S)
  BY SumSubset
<1> QED BY <1>1, <1>2, SumEmpty

\* No term of a sum of natural numbers is greater than the sum.
LEMMA SumBounds ==
  ASSUME NEW f, NEW S, IsFiniteSet(S), \A x \in S : f[x] \in Nat
  PROVE  \A y \in S : f[y] <= SumFunctionOnSet(f, S)
<1> TAKE y \in S
<1> DEFINE T == S \ {y}
<1>1. SumFunctionOnSet(f, S) = f[y] + SumFunctionOnSet(f, T)
  BY SumRemove
<1>2. IsFiniteSet(T) /\ \A x \in T : f[x] \in Nat
  BY FS_Subset
<1> HIDE DEF T
<1>3. SumFunctionOnSet(f, T) \in Nat /\ f[y] \in Nat
  BY <1>2, SumNat
<1> QED BY <1>1, <1>3

\* The sum of two functions.
LEMMA SumPlus ==
  ASSUME NEW f, NEW g, NEW h, NEW S, IsFiniteSet(S),
         \A x \in S : f[x] \in Int /\ g[x] \in Int /\ h[x] = f[x] + g[x]
  PROVE  SumFunctionOnSet(h, S) = SumFunctionOnSet(f, S) + SumFunctionOnSet(g, S)
<1> DEFINE Sum(k, T) == SumFunctionOnSet(k, T)
           Bad == {T \in SUBSET S : Sum(h, T) # Sum(f, T) + Sum(g, T)}
<1>0. \A T \in SUBSET S : IsFiniteSet(T) /\ Sum(f, T) \in Int /\ Sum(g, T) \in Int
  <2> TAKE T \in SUBSET S
  <2>1. IsFiniteSet(T)
    BY FS_Subset
  <2> QED BY <2>1, SumInt
<1>1. ASSUME NEW T \in SUBSET S, \A U \in (SUBSET T) \ {T} : U \notin Bad PROVE T \notin Bad
  <2>1. CASE T = {}
    BY <2>1, SumEmpty
  <2>2. CASE T # {}
    <3> DEFINE x == Picked(T)
    <3>1. /\ x \in T /\ Sum(f, T) = f[x] + Sum(f, T \ {x})
          /\ Sum(g, T) = g[x] + Sum(g, T \ {x}) /\ Sum(h, T) = h[x] + Sum(h, T \ {x})
      BY <1>0, <2>2, SumPicked
    <3> HIDE DEF x
    <3>2. Sum(h, T \ {x}) = Sum(f, T \ {x}) + Sum(g, T \ {x})
      BY <1>1, <3>1
    <3>3. Sum(f, T \ {x}) \in Int /\ Sum(g, T \ {x}) \in Int
      BY <1>0
    <3> HIDE DEF Sum
    <3> QED BY <3>1, <3>2, <3>3
  <2> QED BY <2>1, <2>2
<1>2. Bad = {}
  <2> HIDE DEF Bad
  <2>1. Bad \in SUBSET (SUBSET S)
    BY DEF Bad
  <2> QED BY <1>1, <2>1, SubsetInduction
<1>3. S \notin Bad
  BY <1>2
<1> QED BY <1>3

\* A change at one index.
LEMMA SumExcept ==
  ASSUME NEW f, NEW g, NEW S, IsFiniteSet(S), NEW y \in S,
         \A x \in S : f[x] \in Int /\ g[x] \in Int /\ (x # y => g[x] = f[x])
  PROVE  SumFunctionOnSet(g, S) = SumFunctionOnSet(f, S) + (g[y] - f[y])
<1> DEFINE T == S \ {y}
<1>1. IsFiniteSet(T)
  BY FS_Subset
<1>2. SumFunctionOnSet(f, T) \in Int
  BY <1>1, SumInt
<1>3. SumFunctionOnSet(g, T) = SumFunctionOnSet(f, T)
  BY <1>1, SumSame
<1>4. SumFunctionOnSet(f, S) = f[y] + SumFunctionOnSet(f, T)
  BY SumRemove
<1>5. SumFunctionOnSet(g, S) = g[y] + SumFunctionOnSet(g, T)
  BY SumRemove
<1> HIDE DEF T
<1> QED BY <1>2, <1>3, <1>4, <1>5

\* A sum of zeros.
LEMMA SumZero ==
  ASSUME NEW f, NEW S, IsFiniteSet(S), \A x \in S : f[x] = 0
  PROVE  SumFunctionOnSet(f, S) = 0
<1>1. SumFunctionOnSet(f, S) = SumFunctionOnSet(f, {})
  BY SumSubset
<1> QED BY <1>1, SumEmpty

\* The sum over the images of the indices, when no two have the same.
LEMMA SumMoved ==
  ASSUME NEW f, NEW g, NEW b, NEW S, IsFiniteSet(S), IsFiniteSet({b[x] : x \in S}),
         \A x, y \in S : b[x] = b[y] => x = y,
         \A x \in S : f[b[x]] \in Int /\ g[x] = f[b[x]]
  PROVE  SumFunctionOnSet(g, S) = SumFunctionOnSet(f, {b[x] : x \in S})
<1> DEFINE Image(T) == {b[x] : x \in T}
           Bad == {T \in SUBSET S : SumFunctionOnSet(g, T) # SumFunctionOnSet(f, Image(T))}
<1>1. ASSUME NEW T \in SUBSET S, \A U \in (SUBSET T) \ {T} : U \notin Bad PROVE T \notin Bad
  <2>1. CASE T = {}
    <3>1. Image(T) = {}
      BY <2>1
    <3> QED BY <2>1, <3>1, SumEmpty
  <2>2. CASE T # {}
    <3> DEFINE x == Picked(T)
               U == T \ {x}
    <3>1. x \in T /\ SumFunctionOnSet(g, T) = g[x] + SumFunctionOnSet(g, T \ {x})
      BY <2>2, SumPicked, FS_Subset
    <3> HIDE DEF x
    <3>2. SumFunctionOnSet(g, U) = SumFunctionOnSet(f, Image(U))
      BY <1>1, <3>1
    <3>3. b[x] \notin Image(U) /\ Image(T) = Image(U) \cup {b[x]}
      BY <3>1
    <3>4. IsFiniteSet(Image(U))
      <4>1. Image(U) \subseteq {b[z] : z \in S}
        OBVIOUS
      <4> HIDE DEF Image
      <4> QED BY <4>1, FS_Subset
    <3>5. \A z \in Image(U) \cup {b[x]} : f[z] \in Int
      BY <3>1
    <3> HIDE DEF Image
    <3>6. SumFunctionOnSet(f, Image(T)) = f[b[x]] + SumFunctionOnSet(f, Image(U))
      BY <3>3, <3>4, <3>5, SumInsert
    <3> QED BY <3>1, <3>2, <3>6
  <2> QED BY <2>1, <2>2
<1>2. Bad = {}
  <2> HIDE DEF Bad
  <2>1. Bad \in SUBSET (SUBSET S)
    BY DEF Bad
  <2> QED BY <1>1, <2>1, SubsetInduction
<1>3. S \notin Bad
  BY <1>2
<1> QED BY <1>3

-----------------------------------------------------------------------------
\* The smaller and the greater of two numbers.
LEMMA MinMaxPair ==
  ASSUME NEW x \in Int, NEW y \in Int
  PROVE  /\ Min({x, y}) = (IF x <= y THEN x ELSE y)
         /\ Max({x, y}) = (IF x >= y THEN x ELSE y)
<1>1. Min({x, y}) \in {x, y} /\ \A z \in {x, y} : Min({x, y}) <= z
  <2>1. \E z \in {x, y} : \A u \in {x, y} : z <= u
    OBVIOUS
  <2> QED BY <2>1 DEF Min
<1>2. Max({x, y}) \in {x, y} /\ \A z \in {x, y} : Max({x, y}) >= z
  <2>1. \E z \in {x, y} : \A u \in {x, y} : z >= u
    OBVIOUS
  <2> QED BY <2>1 DEF Max
<1> QED BY <1>1, <1>2
-----------------------------------------------------------------------------
(***************************************************************************)
(* Powers of two                                                           *)
(***************************************************************************)

\* Induction over the natural numbers, for a set of them.
LEMMA NatSetInduction ==
  ASSUME NEW S, 0 \in S, \A n \in Nat : n \in S => n + 1 \in S
  PROVE  \A n \in Nat : n \in S
<1> DEFINE T == Nat \ S
           R == OpToRel(<, Nat)
<1> SUFFICES ASSUME T # {} PROVE FALSE
  OBVIOUS
<1>1. IsWellFoundedOn(R, Nat)
  BY NatLessThanWellFounded
<1>2. PICK x \in T : \A y \in T : <<y, x>> \notin R
  <2>1. T \subseteq Nat
    OBVIOUS
  <2> HIDE DEF T, R
  <2> QED BY <1>1, <2>1, WFMin
<1>3. x \in Nat /\ x # 0 /\ x - 1 \in Nat
  OBVIOUS
<1>4. <<x - 1, x>> \in R
  BY <1>3 DEF OpToRel
<1>5. x - 1 \in S
  <2> HIDE DEF R
  <2> QED BY <1>2, <1>3, <1>4
<1>6. (x - 1) + 1 \in S
  BY <1>3, <1>5
<1> QED BY <1>3, <1>6

\* No prover knows what a power is; the library knows that a set of n elements has 2^n
\* subsets.
LEMMA PowerIsNat ==
  ASSUME NEW n \in Nat
  PROVE  /\ 2^n \in Nat
         /\ IsFiniteSet(SUBSET (1..n)) /\ Cardinality(SUBSET (1..n)) = 2^n
<1> DEFINE A == 1..n
<1>1. IsFiniteSet(A) /\ Cardinality(A) = n
  BY FS_Interval
<1> HIDE DEF A
<1>2. IsFiniteSet(SUBSET A)
  BY <1>1, FS_SUBSET
<1>3. Cardinality(SUBSET A) = 2^n
  BY <1>1, FS_SUBSET
<1>4. 2^n \in Nat
  BY <1>2, <1>3, FS_CardinalityType
<1> QED BY <1>2, <1>3, <1>4 DEF A

\* The subsets of 1..(n + 1) are those without n + 1, and as many with it.
LEMMA PowerStep ==
  ASSUME NEW n \in Nat
  PROVE  2^(n + 1) = 2 * 2^n
<1> DEFINE z == n + 1
           A == SUBSET (1..n)
           f == [B \in A |-> B \cup {z}]
           C == {f[B] : B \in A}
           D == SUBSET (1..z)
<1>1. z \notin 1..n /\ 1..z = (1..n) \cup {z} /\ z \in Nat
  OBVIOUS
<1>2. IsFiniteSet(A) /\ Cardinality(A) = 2^n /\ 2^n \in Nat
  BY PowerIsNat
<1>3. Cardinality(D) = 2^z
  <2> HIDE DEF z
  <2> QED BY <1>1, PowerIsNat
<1> HIDE DEF z
<1>4. A \cup C = D
  <2>1. ASSUME NEW B \in D PROVE B \in A \cup C
    <3>1. CASE z \notin B
      BY <1>1, <2>1, <3>1
    <3>2. CASE z \in B
      <4>1. B \ {z} \in A
        BY <1>1, <2>1
      <4>2. f[B \ {z}] = B
        BY <3>2, <4>1
      <4> HIDE DEF f
      <4> QED BY <4>1, <4>2
    <3> QED BY <3>1, <3>2
  <2>2. ASSUME NEW B \in A PROVE B \in D /\ f[B] \in D
    BY <1>1, <2>2
  <2>3. \A E \in C : E \in D
    <3> HIDE DEF f, A, D
    <3> QED BY <2>2
  <2> HIDE DEF A, C, D
  <2> QED BY <2>1, <2>2, <2>3
<1>5. A \cap C = {}
  BY <1>1
<1>6. IsFiniteSet(C) /\ Cardinality(C) = Cardinality(A)
  <2>1. f \in Bijection(A, C)
    <3>1. f \in [A -> C]
      BY DEF C
    <3>2. \A B, E \in A : f[B] = f[E] => B = E
      <4> SUFFICES ASSUME NEW B \in A, NEW E \in A, B \cup {z} = E \cup {z} PROVE B = E
        OBVIOUS
      <4> QED BY <1>1
    <3>3. \A E \in C : \E B \in A : f[B] = E
      OBVIOUS
    <3> HIDE DEF f, A, C
    <3> QED BY <3>1, <3>2, <3>3 DEF Bijection, Injection, Surjection, IsInjective
  <2>2. ExistsBijection(A, C)
    BY <2>1 DEF ExistsBijection
  <2> HIDE DEF A, C, f
  <2> QED BY <1>2, <2>2, FS_Bijection
<1> HIDE DEF A, C, D
<1>7. Cardinality(A \cup C) = Cardinality(A) + Cardinality(C)
  BY <1>2, <1>5, <1>6, FS_Union, FS_EmptySet
<1>8. 2^z = 2^n + 2^n
  BY <1>2, <1>3, <1>4, <1>6, <1>7
<1> QED BY <1>2, <1>8 DEF z

LEMMA PowerPositive ==
  ASSUME NEW n \in Nat
  PROVE  2^n \in Nat /\ 2^n > 0
<1> DEFINE S == {m \in Nat : 2^m > 0}
<1>1. 0 \in S
  <2>1. 2^0 = 1
    OBVIOUS
  <2> QED BY <2>1
<1>2. \A m \in Nat : m \in S => m + 1 \in S
  BY PowerStep, PowerIsNat
<1> HIDE DEF S
<1>3. n \in S
  BY <1>1, <1>2, NatSetInduction
<1> QED BY <1>3, PowerIsNat DEF S

LEMMA PowerPlus ==
  ASSUME NEW a \in Nat, NEW b \in Nat
  PROVE  2^(a + b) = 2^a * 2^b
<1> DEFINE S == {m \in Nat : 2^(a + m) = 2^a * 2^m}
<1>1. 0 \in S
  <2>1. 2^0 = 1 /\ a + 0 = a
    OBVIOUS
  <2> QED BY <2>1, PowerPositive
<1>2. ASSUME NEW m \in Nat, m \in S PROVE m + 1 \in S
  <2>1. 2^(m + 1) = 2 * 2^m /\ 2^((a + m) + 1) = 2 * 2^(a + m)
    BY PowerStep
  <2>2. 2^a \in Nat /\ 2^m \in Nat
    BY PowerPositive
  <2>3. 2^(a + (m + 1)) = 2^((a + m) + 1)
    <3>1. a + (m + 1) = (a + m) + 1
      OBVIOUS
    <3> QED BY <3>1
  <2>4. 2^(a + m) = 2^a * 2^m
    BY <1>2
  <2> DEFINE x == 2^a
             y == 2^m
  <2> HIDE DEF x, y
  <2>5. 2 * (x * y) = x * (2 * y)
    BY <2>2 DEF x, y
  <2>6. 2^(a + (m + 1)) = 2^a * 2^(m + 1)
    BY <2>1, <2>3, <2>4, <2>5 DEF x, y
  <2> QED BY <2>6
<1> HIDE DEF S
<1>3. b \in S
  BY <1>1, <1>2, NatSetInduction
<1> QED BY <1>3 DEF S

-----------------------------------------------------------------------------
(***************************************************************************)
(* Bits of a number                                                        *)
(***************************************************************************)

\* Quotient and remainder are determined by what they mean.
LEMMA DivMod ==
  ASSUME NEW d \in Nat, d > 0, NEW q \in Int, NEW r \in Int, 0 <= r, r < d
  PROVE  (d * q + r) \div d = q /\ (d * q + r) % d = r
<1>1. d * q + r \in Int
  OBVIOUS
<1>2. (d * q + r) \div d = q
  BY <1>1
<1>3. (d * q + r) % d = r
  BY <1>1
<1> QED BY <1>2, <1>3

LEMMA DivModParts ==
  ASSUME NEW x \in Nat, NEW d \in Nat, d > 0
  PROVE  /\ x = d * (x \div d) + (x % d)
         /\ x \div d \in Nat /\ x % d \in Nat /\ x % d < d
<1>1. x = d * (x \div d) + (x % d) /\ x \div d \in Int /\ x % d \in 0..(d - 1)
  OBVIOUS
<1>2. x \div d \in Nat
  OBVIOUS
<1> QED BY <1>1, <1>2

\* Division by a product, and the remainder of such a division.
LEMMA DivProduct ==
  ASSUME NEW x \in Nat, NEW a \in Nat, NEW b \in Nat, a > 0, b > 0
  PROVE  /\ x \div (a * b) = (x \div a) \div b
         /\ x % (a * b) = a * ((x \div a) % b) + (x % a)
<1> DEFINE q == x \div a
           r == x % a
           s == q \div b
           t == q % b
<1>1. x = a * q + r /\ q \in Nat /\ r \in Nat /\ r < a
  BY DivModParts
<1> HIDE DEF q, r
<1>2. q = b * s + t /\ s \in Nat /\ t \in Nat /\ t < b
  BY <1>1, DivModParts
<1> HIDE DEF s, t
<1> DEFINE d == a * b
           u == a * t + r
<1>3. d \in Nat /\ d > 0 /\ u \in Int /\ 0 <= u
  BY <1>1, <1>2
<1>4. u < d
  <2>1. t + 1 <= b
    BY <1>2
  <2>2. a * (t + 1) <= a * b
    BY <1>1, <1>2, <2>1
  <2>3. a * (t + 1) = a * t + a /\ a * t \in Nat
    BY <1>2
  <2> QED BY <1>1, <1>3, <2>2, <2>3
<1>5. x = d * s + u
  <2>1. a * (b * s + t) = (a * b) * s + a * t
    BY <1>2
  <2>2. a * q = a * (b * s + t)
    BY <1>2
  <2>3. a * t \in Nat /\ (a * b) * s \in Nat
    BY <1>2
  <2> QED BY <1>1, <2>1, <2>2, <2>3
<1> HIDE DEF d, u
<1>6. (d * s + u) \div d = s /\ (d * s + u) % d = u
  BY <1>2, <1>3, <1>4, DivMod
<1>7. x \div d = s /\ x % d = u
  BY <1>5, <1>6
<1> QED BY <1>7 DEF d, u, s, t, q, r

\* Bit b of x, counted from the lowest.
BitOf(x, b) == (x \div 2^b) % 2

LEMMA BitOfType ==
  ASSUME NEW x \in Nat, NEW b \in Nat
  PROVE  BitOf(x, b) \in 0..1
<1>1. x \div 2^b \in Nat
  BY PowerPositive, DivModParts
<1> QED BY <1>1 DEF BitOf

\* The bits of a quotient.
LEMMA BitOfShifted ==
  ASSUME NEW x \in Nat, NEW a \in Nat, NEW b \in Nat
  PROVE  BitOf(x \div 2^a, b) = BitOf(x, a + b)
<1>1. 2^a \in Nat /\ 2^a > 0 /\ 2^b \in Nat /\ 2^b > 0
  BY PowerPositive
<1>2. x \div (2^a * 2^b) = (x \div 2^a) \div 2^b
  BY <1>1, DivProduct
<1> QED BY <1>2, PowerPlus DEF BitOf

\* The bits of a remainder.
LEMMA BitOfMod ==
  ASSUME NEW x \in Nat, NEW w \in Nat, NEW b \in Nat, b < w
  PROVE  BitOf(x % 2^w, b) = BitOf(x, b)
<1> DEFINE c == w - b - 1
           p == 2^b
           e == 2^c
           y == x % 2^w
           q == x \div p
<1>1. c \in Nat /\ w = b + (c + 1) /\ c + 1 \in Nat
  OBVIOUS
<1>2. p \in Nat /\ p > 0 /\ e \in Nat /\ e > 0
  BY <1>1, PowerPositive
<1>3. 2^w = p * 2^(c + 1) /\ 2^(c + 1) = 2 * e
  BY <1>1, PowerPlus, PowerStep
<1> HIDE DEF p, e, c
<1>4. y = p * (q % (2 * e)) + (x % p)
  <2>1. 2 * e \in Nat /\ 2 * e > 0
    BY <1>2
  <2> DEFINE f == 2 * e
  <2> HIDE DEF f
  <2>2. x % (p * f) = p * ((x \div p) % f) + (x % p)
    BY <1>2, <2>1, DivProduct DEF f
  <2> QED BY <1>3, <2>2 DEF f
<1>5. q \in Nat /\ x % p \in Nat /\ x % p < p
  BY <1>2, DivModParts
<1> HIDE DEF q
<1>6. q % (2 * e) \in Nat /\ (q % (2 * e)) % 2 = q % 2
  <2>1. q % (2 * e) = 2 * ((q \div 2) % e) + (q % 2)
    <3> DEFINE two == 2
    <3>1. two \in Nat /\ two > 0
      OBVIOUS
    <3> HIDE DEF two
    <3>2. q % (two * e) = two * ((q \div two) % e) + (q % two)
      BY <1>2, <1>5, <3>1, DivProduct
    <3> QED BY <3>2 DEF two
  <2>2. q \div 2 \in Nat
    BY <1>5
  <2>3. (q \div 2) % e \in Nat /\ q % 2 \in 0..1
    BY <1>2, <1>5, <2>2, DivModParts
  <2> DEFINE g == (q \div 2) % e
             h == q % 2
             k == q % (2 * e)
  <2> HIDE DEF g, h, k
  <2>4. k = 2 * g + h /\ g \in Nat /\ h \in 0..1
    BY <2>1, <2>3 DEF g, h, k
  <2>5. k \in Nat /\ k % 2 = h
    BY <2>4
  <2> QED BY <2>5 DEF h, k
<1>7. y \div p = q % (2 * e)
  <2> DEFINE k == q % (2 * e)
             r == x % p
  <2> HIDE DEF k, r
  <2>1. (p * k + r) \div p = k
    BY <1>2, <1>5, <1>6, DivMod DEF k, r
  <2> QED BY <1>4, <2>1 DEF k, r
<1> QED BY <1>6, <1>7 DEF BitOf, p, q

\* The number y of a bits behind the bits of x.
Appended(x, a, y) == x * 2^a + y

\* Its lowest a bits are those of y, the others those of x.
LEMMA BitOfAppended ==
  ASSUME NEW x \in Nat, NEW a \in Nat, NEW y \in Nat, y < 2^a, NEW b \in Nat
  PROVE  /\ b < a => BitOf(Appended(x, a, y), b) = BitOf(y, b)
         /\ ~(b < a) => BitOf(Appended(x, a, y), b) = BitOf(x, b - a)
<1> DEFINE p == 2^a
           z == Appended(x, a, y)
<1>1. p \in Nat /\ p > 0 /\ y < p /\ z = x * p + y
  BY PowerPositive DEF Appended
<1> HIDE DEF p, z
<1>2. z = p * x + y /\ z \in Nat
  BY <1>1
<1>3. z \div p = x /\ z % p = y
  BY <1>1, <1>2, DivMod
<1>4. CASE b < a
  <2>1. BitOf(z % 2^a, b) = BitOf(z, b)
    BY <1>2, <1>4, BitOfMod
  <2> QED BY <1>3, <1>4, <2>1 DEF p, z
<1>5. CASE ~(b < a)
  <2>1. b - a \in Nat /\ a + (b - a) = b
    BY <1>5
  <2>2. BitOf(z \div 2^a, b - a) = BitOf(z, a + (b - a))
    BY <1>2, <2>1, BitOfShifted
  <2> QED BY <1>3, <1>5, <2>1, <2>2 DEF p, z
<1> QED BY <1>4, <1>5

\* A number is the sum of its bits.
LEMMA SumOfBits ==
  ASSUME NEW x \in Nat, NEW w \in Nat
  PROVE  SumFunctionOnSet([b \in 0..(w - 1) |-> 2^b * BitOf(x, b)], 0..(w - 1)) = x % 2^w
<1> DEFINE f == [b \in Nat |-> 2^b * BitOf(x, b)]
           S == {m \in Nat : SumFunctionOnSet(f, 0..(m - 1)) = x % 2^m}
<1>0. \A b \in Nat : f[b] \in Int /\ f[b] = 2^b * BitOf(x, b)
  <2> TAKE b \in Nat
  <2>1. 2^b \in Nat /\ BitOf(x, b) \in Nat
    BY PowerPositive, BitOfType
  <2> QED BY <2>1
<1>1. 0 \in S
  <2>1. 2^0 = 1 /\ 0..(0 - 1) = {} /\ x % 1 = 0
    OBVIOUS
  <2> HIDE DEF f
  <2> QED BY <2>1, SumEmpty
<1> HIDE DEF f
<1>2. ASSUME NEW m \in Nat, m \in S PROVE m + 1 \in S
  <2> DEFINE A == 0..(m - 1)
             B == 0..((m + 1) - 1)
  <2>1. B = A \cup {m} /\ m \notin A /\ A \subseteq Nat
    OBVIOUS
  <2>2. IsFiniteSet(A)
    BY FS_Interval
  <2>3. SumFunctionOnSet(f, A) = x % 2^m
    BY <1>2
  <2> HIDE DEF A, B
  <2>4. SumFunctionOnSet(f, B) = f[m] + SumFunctionOnSet(f, A)
    BY <1>0, <2>1, <2>2, SumInsert
  <2>5. x % (2^m * 2) = 2^m * ((x \div 2^m) % 2) + (x % 2^m)
    <3> DEFINE two == 2
               p == 2^m
    <3>1. two \in Nat /\ two > 0 /\ p \in Nat /\ p > 0
      BY PowerPositive
    <3> HIDE DEF two, p
    <3>2. x % (p * two) = p * ((x \div p) % two) + (x % p)
      BY <3>1, DivProduct
    <3> QED BY <3>2 DEF two, p
  <2>6. 2^(m + 1) = 2^m * 2
    BY PowerStep, PowerPositive
  <2>7. SumFunctionOnSet(f, B) = x % 2^(m + 1)
    BY <1>0, <2>3, <2>4, <2>5, <2>6 DEF BitOf
  <2> QED BY <2>7 DEF B
<1>3. w \in S
  <2> HIDE DEF S
  <2> QED BY <1>1, <1>2, NatSetInduction
<1>4. SumFunctionOnSet([b \in 0..(w - 1) |-> 2^b * BitOf(x, b)], 0..(w - 1)) = SumFunctionOnSet(f, 0..(w - 1))
  <2> DEFINE T == 0..(w - 1)
             g == [b \in T |-> 2^b * BitOf(x, b)]
  <2>1. IsFiniteSet(T)
    BY FS_Interval
  <2>2. \A b \in T : g[b] = f[b]
    BY <1>0
  <2> HIDE DEF T, g
  <2>3. SumFunctionOnSet(g, T) = SumFunctionOnSet(f, T)
    BY <2>1, <2>2, SumSame
  <2> QED BY <2>3 DEF T, g
<1> QED BY <1>3, <1>4

\* A sum over 1..(m + n) in two parts.
LEMMA SumSplit ==
  ASSUME NEW m \in Nat, NEW n \in Nat, NEW f, NEW g, NEW h,
         \A i \in 1..(m + n) : f[i] \in Int,
         \A i \in 1..m : g[i] = f[i],
         \A i \in 1..n : h[i] = f[m + i]
  PROVE  SumFunctionOnSet(f, 1..(m + n)) = SumFunctionOnSet(g, 1..m) + SumFunctionOnSet(h, 1..n)
<1> DEFINE Sum(k, j) == SumFunctionOnSet(k, 1..j)
           S == {j \in Nat : j <= n => Sum(f, m + j) = Sum(g, m) + Sum(h, j) /\ Sum(h, j) \in Int}
<1>0. Sum(f, m) = Sum(g, m) /\ Sum(f, m) \in Int
  <2> DEFINE A == 1..m
  <2>1. IsFiniteSet(A) /\ \A i \in A : f[i] = g[i] /\ f[i] \in Int
    BY FS_Interval
  <2> HIDE DEF A
  <2>2. SumFunctionOnSet(f, A) = SumFunctionOnSet(g, A) /\ SumFunctionOnSet(f, A) \in Int
    BY <2>1, SumSame, SumInt
  <2> QED BY <2>2 DEF A
<1>1. 0 \in S
  <2>1. Sum(h, 0) = 0
    <3>1. 1..0 = {}
      OBVIOUS
    <3> QED BY <3>1, SumEmpty
  <2>2. m + 0 = m
    OBVIOUS
  <2> HIDE DEF Sum
  <2> QED BY <1>0, <2>1, <2>2
<1>2. ASSUME NEW j \in Nat, j \in S PROVE j + 1 \in S
  <2> SUFFICES ASSUME j + 1 <= n
               PROVE  Sum(f, m + (j + 1)) = Sum(g, m) + Sum(h, j + 1) /\ Sum(h, j + 1) \in Int
    BY DEF S
  <2>1. Sum(f, m + j) = Sum(g, m) + Sum(h, j) /\ Sum(h, j) \in Int
    BY <1>2
  <2> DEFINE A == 1..j
             B == 1..(m + j)
             y == m + (j + 1)
             z == j + 1
  <2>2. /\ 1..z = A \cup {z} /\ z \notin A /\ 1..y = B \cup {y} /\ y \notin B
        /\ m + j \in Nat /\ z \in 1..n /\ y \in 1..(m + n) /\ y = m + z
    OBVIOUS
  <2>3. IsFiniteSet(A) /\ IsFiniteSet(B)
    BY <2>2, FS_Interval
  <2>4. \A i \in A \cup {z} : h[i] \in Int
    BY <2>2
  <2>5. \A i \in B \cup {y} : f[i] \in Int
    BY <2>2
  <2>6. h[z] = f[y] /\ f[y] \in Int
    BY <2>2
  <2> HIDE DEF A, B, y, z
  <2>7. SumFunctionOnSet(h, A \cup {z}) = h[z] + SumFunctionOnSet(h, A)
    BY <2>2, <2>3, <2>4, SumInsert
  <2>8. SumFunctionOnSet(f, B \cup {y}) = f[y] + SumFunctionOnSet(f, B)
    BY <2>2, <2>3, <2>5, SumInsert
  <2>9. Sum(h, z) = h[z] + Sum(h, j) /\ Sum(f, y) = f[y] + Sum(f, m + j)
    BY <2>2, <2>7, <2>8 DEF A, B
  <2> HIDE DEF Sum, S
  <2>10. Sum(f, y) = Sum(g, m) + Sum(h, z) /\ Sum(h, z) \in Int
    BY <1>0, <2>1, <2>6, <2>9
  <2> QED BY <2>10 DEF y, z
<1>3. n \in S
  <2> HIDE DEF S
  <2> QED BY <1>1, <1>2, NatSetInduction
<1>4. Sum(f, m + n) = Sum(g, m) + Sum(h, n)
  <2> HIDE DEF Sum
  <2> QED BY <1>3
<1> QED BY <1>4
=============================================================================
