------------------------------- MODULE SumProofs -------------------------------
(* Facts about SumFunctionOnSet (Functions): the sum of an integer function over  *)
(* a finite set.  They are by induction over its subsets, written as the choice   *)
(* of a smallest counterexample.                                                  *)
EXTENDS Integers, FiniteSets, Functions, FiniteSetTheorems, TLAPS

LEMMA SmallestNumber ==
    ASSUME NEW C \in SUBSET Nat, C # {}
    PROVE  \E n \in C : \A m \in C : n <= m
<1>1. PICK R, N : /\ N = Nat /\ IsWellFoundedOn(R, N)
                   /\ \A m, n \in Nat : m < n => <<m, n>> \in R
  <2>1. \A m, n \in Nat : m < n => <<m, n>> \in OpToRel(<, Nat)
    BY DEF OpToRel
  <2> QED
    BY <2>1, NatLessThanWellFounded
<1>2. C \subseteq N /\ C # {}
  BY <1>1
<1>3. \E n \in C : \A m \in C : ~(<<m, n>> \in R)
  <2>1. IsWellFoundedOn(R, N)
    BY <1>1
  <2> QED
    BY <1>2, <2>1, WFMin
<1>4. PICK n \in C : \A m \in C : ~(<<m, n>> \in R)
  BY <1>3
<1>5. ASSUME NEW m \in C PROVE n <= m
  <2>1. ~(m < n)
    BY <1>1, <1>2, <1>4
  <2> QED
    BY <1>1, <1>2, <2>1
<1> QED
  BY <1>5

LEMMA SmallestSet ==
    ASSUME NEW S, IsFiniteSet(S), NEW C \in SUBSET SUBSET S, C # {}
    PROVE  \E T \in C : \A U \in C : U \subseteq T => U = T
<1>1. C \subseteq FiniteSubsetsOf(S)
  BY FS_FiniteSubsetsOfFinite
<1>2. \E T \in C : \A U \in C : ~(<<U, T>> \in StrictSubsetOrdering(S))
  BY <1>1, FS_StrictSubsetOrderingWellFounded, WFMin
<1>3. \A U, T \in SUBSET S : U \subseteq T /\ U # T => <<U, T>> \in StrictSubsetOrdering(S)
  BY DEF StrictSubsetOrdering
<1> QED
  BY <1>2, <1>3

\* The sums over the subsets of S, one element taken out after the other.
Picked(T) == CHOOSE x \in T : TRUE
Sums(f, S) == CHOOSE g : g = [T \in SUBSET S |->
                                 IF T = {} THEN 0 ELSE f[Picked(T)] + g[T \ {Picked(T)}]]

LEMMA SumIs ==
    ASSUME NEW f, NEW S
    PROVE  SumFunctionOnSet(f, S) = Sums(f, S)[S]
BY DEF SumFunctionOnSet, FoldFunctionOnSet, MapThenFoldSet, Sums, Picked

LEMMA PickedIn ==
    ASSUME NEW T, T # {}
    PROVE  Picked(T) \in T
BY DEF Picked

\* The definition of Sums is not circular: by the size of the subsets, there is such
\* a function.
Smaller(S, n) == {T \in SUBSET S : Cardinality(T) <= n}
SumStep(g, f, T) == IF T = {} THEN 0 ELSE f[Picked(T)] + g[T \ {Picked(T)}]
SumsUpTo(f, S, n) ==
    \E g \in [Smaller(S, n) -> Int] : \A T \in Smaller(S, n) : g[T] = SumStep(g, f, T)

HasSums(f, S) ==
    \E g \in [SUBSET S -> Int] : \A T \in SUBSET S : g[T] = SumStep(g, f, T)

LEMMA SumsExist ==
    ASSUME NEW D, NEW S \in SUBSET D, IsFiniteSet(S), NEW f \in [D -> Int]
    PROVE  HasSums(f, S)
<1>1. \A T \in SUBSET S : /\ IsFiniteSet(T) /\ Cardinality(T) \in Nat
                          /\ Cardinality(T) = 0 <=> T = {}
  BY FS_Subset, FS_CardinalityType, FS_EmptySet
<1>2. SumsUpTo(f, S, 0)
  <2>1. PICK g : g = [T \in Smaller(S, 0) |-> 0]
    OBVIOUS
  <2>2. \A T \in Smaller(S, 0) : T = {}
    BY <1>1 DEF Smaller
  <2> QED
    BY <2>1, <2>2 DEF SumsUpTo, SumStep
<1>3. ASSUME NEW n \in Nat, SumsUpTo(f, S, n)
      PROVE  SumsUpTo(f, S, n + 1)
  <2>1. PICK h \in [Smaller(S, n) -> Int] : \A T \in Smaller(S, n) : h[T] = SumStep(h, f, T)
    BY <1>3 DEF SumsUpTo
  <2>2. PICK g : g = [T \in Smaller(S, n + 1) |-> SumStep(h, f, T)]
    OBVIOUS
  <2>3. ASSUME NEW T \in Smaller(S, n + 1), T # {}
        PROVE  /\ Picked(T) \in S /\ T \ {Picked(T)} \in Smaller(S, n)
               /\ T \ {Picked(T)} \in Smaller(S, n + 1)
    <3>1. Picked(T) \in T /\ T \in SUBSET S /\ Cardinality(T) <= n + 1
      BY <2>3, PickedIn DEF Smaller
    <3>2. Cardinality(T \ {Picked(T)}) = Cardinality(T) - 1
      BY <1>1, <3>1, FS_RemoveElement
    <3> QED
      BY <1>1, <3>1, <3>2 DEF Smaller
  <2>4. \A T \in Smaller(S, n + 1) : SumStep(h, f, T) \in Int
    BY <2>1, <2>3 DEF SumStep
  <2>5. \A T \in Smaller(S, n) : T \in Smaller(S, n + 1)
    BY <1>1 DEF Smaller
  <2>6. \A T \in Smaller(S, n) : g[T] = h[T]
    BY <2>1, <2>2, <2>5
  <2>7. \A T \in Smaller(S, n + 1) : g[T] = SumStep(g, f, T)
    BY <2>2, <2>3, <2>6 DEF SumStep
  <2> QED
    BY <2>2, <2>4, <2>7 DEF SumsUpTo
<1>4. \A n \in Nat : SumsUpTo(f, S, n)
  <2> DEFINE C == {n \in Nat : ~SumsUpTo(f, S, n)}
  <2> SUFFICES ASSUME C # {} PROVE FALSE
    OBVIOUS
  <2>1. PICK n \in C : \A m \in C : n <= m
    BY SmallestNumber
  <2>2. n # 0 /\ n - 1 \in Nat /\ n - 1 \notin C
    BY <1>2, <2>1
  <2>3. SumsUpTo(f, S, (n - 1) + 1)
    BY <1>3, <2>2
  <2> QED
    BY <2>1, <2>3
<1>5. Smaller(S, Cardinality(S)) = SUBSET S
  <2>1. \A T \in SUBSET S : Cardinality(T) <= Cardinality(S)
    BY FS_Subset
  <2> QED
    BY <2>1 DEF Smaller
<1> QED
  BY <1>1, <1>4, <1>5 DEF SumsUpTo, HasSums

LEMMA SumsFacts ==
    ASSUME NEW D, NEW S \in SUBSET D, IsFiniteSet(S), NEW f \in [D -> Int]
    PROVE  \A T \in SUBSET S : Sums(f, S)[T] = SumStep(Sums(f, S), f, T) /\ Sums(f, S)[T] \in Int
<1>1. PICK g \in [SUBSET S -> Int] : \A T \in SUBSET S : g[T] = SumStep(g, f, T)
  <2>1. HasSums(f, S)
    BY SumsExist
  <2> QED
    BY <2>1 DEF HasSums
<1>2. g = [T \in SUBSET S |-> IF T = {} THEN 0 ELSE f[Picked(T)] + g[T \ {Picked(T)}]]
  BY <1>1 DEF SumStep
<1>3. Sums(f, S) = [T \in SUBSET S |->
                      IF T = {} THEN 0 ELSE f[Picked(T)] + Sums(f, S)[T \ {Picked(T)}]]
  BY <1>2 DEF Sums
<1>4. \A T \in SUBSET S : Sums(f, S)[T] = SumStep(Sums(f, S), f, T)
  BY <1>3 DEF SumStep
<1>5. \A T \in SUBSET S : Sums(f, S)[T] \in Int
  <2>1. PICK C \in SUBSET SUBSET S : \A T \in SUBSET S : T \in C <=> Sums(f, S)[T] \notin Int
    <3>1. PICK C : C = {T \in SUBSET S : Sums(f, S)[T] \notin Int}
      OBVIOUS
    <3> QED
      BY <3>1
  <2> SUFFICES ASSUME C # {} PROVE FALSE
    BY <2>1
  <2>2. PICK T \in SUBSET S : T \in C /\ \A U \in C : U \subseteq T => U = T
    BY SmallestSet
  <2>a. Sums(f, S)[T] = SumStep(Sums(f, S), f, T) /\ Sums(f, S)[T] \notin Int
    BY <1>4, <2>1, <2>2
  <2>3. T # {}
    BY <2>a DEF SumStep
  <2>4. Picked(T) \in T /\ T \ {Picked(T)} \in SUBSET S /\ T \ {Picked(T)} \notin C
    BY <2>2, <2>3, PickedIn
  <2>5. f[Picked(T)] \in Int /\ Sums(f, S)[T \ {Picked(T)}] \in Int
    BY <2>1, <2>4
  <2> QED
    BY <2>a, <2>3, <2>5 DEF SumStep
<1> QED
  BY <1>4, <1>5

-------------------------------------------------------------------------------
(* What is used of them *)

LEMMA SumType ==
    ASSUME NEW D, NEW S \in SUBSET D, IsFiniteSet(S), NEW f \in [D -> Int]
    PROVE  SumFunctionOnSet(f, S) \in Int
<1>1. S \in SUBSET S
  OBVIOUS
<1>2. Sums(f, S)[S] \in Int
  BY <1>1, SumsFacts
<1> QED
  BY <1>2, SumIs

\* Functions that agree but for one element have sums that differ by its values.
LEMMA SumsChange ==
    ASSUME NEW D, NEW S \in SUBSET D, IsFiniteSet(S), NEW f \in [D -> Int], NEW h \in [D -> Int],
           NEW a \in D, \A x \in S : x # a => h[x] = f[x]
    PROVE  Sums(h, S)[S] = Sums(f, S)[S] + IF a \in S THEN h[a] - f[a] ELSE 0
<1>a. PICK F, H : F = Sums(f, S) /\ H = Sums(h, S)
  OBVIOUS
<1>1. \A T \in SUBSET S : /\ F[T] = SumStep(F, f, T) /\ F[T] \in Int
                          /\ H[T] = SumStep(H, h, T) /\ H[T] \in Int
  BY <1>a, SumsFacts
<1>2. PICK C \in SUBSET SUBSET S :
        \A T \in SUBSET S :
            T \in C <=> H[T] # F[T] + IF a \in T THEN h[a] - f[a] ELSE 0
  <2>1. PICK C : C = {T \in SUBSET S : H[T] # F[T] + IF a \in T THEN h[a] - f[a] ELSE 0}
    OBVIOUS
  <2> QED
    BY <2>1
<1>3. CASE C # {}
  <2>1. PICK T \in SUBSET S : T \in C /\ \A U \in C : U \subseteq T => U = T
    BY <1>3, SmallestSet
  <2>2. /\ F[T] = SumStep(F, f, T) /\ H[T] = SumStep(H, h, T)
        /\ H[T] # F[T] + IF a \in T THEN h[a] - f[a] ELSE 0
    BY <1>1, <1>2, <2>1
  <2>3. T # {}
    BY <2>2 DEF SumStep
  <2>b. PICK x, U : x = Picked(T) /\ U = T \ {x}
    OBVIOUS
  <2>4. x \in T /\ U \in SUBSET S /\ U \notin C
    BY <2>1, <2>3, <2>b, PickedIn
  <2>5. H[U] = F[U] + IF a \in U THEN h[a] - f[a] ELSE 0
    BY <1>2, <2>4
  <2>6. F[U] \in Int /\ H[U] \in Int /\ f[x] \in Int /\ h[x] \in Int /\ f[a] \in Int /\ h[a] \in Int
    BY <1>1, <2>4
  <2>7. F[T] = f[x] + F[U] /\ H[T] = h[x] + H[U]
    BY <2>2, <2>3, <2>b DEF SumStep
  <2>8. CASE x = a
    <3>1. a \notin U /\ a \in T
      BY <2>4, <2>8, <2>b
    <3> QED
      BY <2>2, <2>5, <2>6, <2>7, <2>8, <3>1
  <2>9. CASE x # a
    <3>1. h[x] = f[x] /\ (a \in U <=> a \in T)
      BY <2>4, <2>9, <2>b
    <3> QED
      BY <2>2, <2>5, <2>6, <2>7, <3>1
  <2> QED
    BY <2>8, <2>9
<1>4. CASE C = {}
  BY <1>a, <1>2, <1>4
<1> QED
  BY <1>3, <1>4

LEMMA SumChange ==
    ASSUME NEW D, NEW S \in SUBSET D, IsFiniteSet(S), NEW f \in [D -> Int], NEW h \in [D -> Int],
           NEW a \in S, \A x \in S : x # a => h[x] = f[x]
    PROVE  SumFunctionOnSet(h, S) = SumFunctionOnSet(f, S) + h[a] - f[a]
<1>1. Sums(h, S)[S] = Sums(f, S)[S] + IF a \in S THEN h[a] - f[a] ELSE 0
  BY SumsChange
<1>2. /\ SumFunctionOnSet(h, S) = Sums(h, S)[S] /\ SumFunctionOnSet(f, S) = Sums(f, S)[S]
      /\ SumFunctionOnSet(f, S) \in Int
  BY SumIs, SumType
<1> QED
  BY <1>1, <1>2

LEMMA SumSame ==
    ASSUME NEW D, NEW S \in SUBSET D, IsFiniteSet(S), NEW f \in [D -> Int], NEW h \in [D -> Int],
           \A x \in S : h[x] = f[x]
    PROVE  SumFunctionOnSet(h, S) = SumFunctionOnSet(f, S)
<1>1. CASE S # {}
  <2>1. PICK a \in S : TRUE
    BY <1>1
  <2>2. SumFunctionOnSet(h, S) = SumFunctionOnSet(f, S) + h[a] - f[a]
    BY <2>1, SumChange
  <2>3. SumFunctionOnSet(f, S) \in Int /\ h[a] = f[a] /\ f[a] \in Int
    BY <2>1, SumType
  <2> QED
    BY <2>2, <2>3
<1>2. CASE S = {}
  <2>1. ASSUME NEW e \in [D -> Int] PROVE SumFunctionOnSet(e, S) = 0
    <3>1. Sums(e, S)[S] = SumStep(Sums(e, S), e, S)
      BY SumsFacts
    <3> QED
      BY <1>2, <3>1, SumIs DEF SumStep
  <2> QED
    BY <2>1
<1> QED
  BY <1>1, <1>2

LEMMA SumOfZeros ==
    ASSUME NEW D, NEW S \in SUBSET D, IsFiniteSet(S), NEW f \in [D -> Int], \A x \in S : f[x] = 0
    PROVE  SumFunctionOnSet(f, S) = 0
<1>a. PICK F : F = Sums(f, S)
  OBVIOUS
<1>1. \A T \in SUBSET S : F[T] = SumStep(F, f, T) /\ F[T] \in Int
  BY <1>a, SumsFacts
<1>2. PICK C \in SUBSET SUBSET S : \A T \in SUBSET S : T \in C <=> F[T] # 0
  <2>1. PICK C : C = {T \in SUBSET S : F[T] # 0}
    OBVIOUS
  <2> QED
    BY <2>1
<1>3. CASE C # {}
  <2>1. PICK T \in SUBSET S : T \in C /\ \A U \in C : U \subseteq T => U = T
    BY <1>3, SmallestSet
  <2>2. F[T] = SumStep(F, f, T) /\ F[T] # 0
    BY <1>1, <1>2, <2>1
  <2>3. T # {}
    BY <2>2 DEF SumStep
  <2>4. Picked(T) \in T /\ T \ {Picked(T)} \in SUBSET S /\ T \ {Picked(T)} \notin C
    BY <2>1, <2>3, PickedIn
  <2>5. f[Picked(T)] = 0 /\ F[T \ {Picked(T)}] = 0
    BY <1>2, <2>4
  <2> QED
    BY <2>2, <2>3, <2>5 DEF SumStep
<1>4. CASE C = {}
  BY <1>a, <1>2, <1>4, SumIs
<1> QED
  BY <1>3, <1>4

\* A sum of naturals is not negative.
LEMMA SumNatural ==
    ASSUME NEW D, NEW S \in SUBSET D, IsFiniteSet(S), NEW f \in [D -> Int], \A x \in S : f[x] >= 0
    PROVE  SumFunctionOnSet(f, S) >= 0
<1>a. PICK F : F = Sums(f, S)
  OBVIOUS
<1>1. \A T \in SUBSET S : F[T] = SumStep(F, f, T) /\ F[T] \in Int
  BY <1>a, SumsFacts
<1>2. PICK C \in SUBSET SUBSET S : \A T \in SUBSET S : T \in C <=> ~(F[T] >= 0)
  <2>1. PICK C : C = {T \in SUBSET S : ~(F[T] >= 0)}
    OBVIOUS
  <2> QED
    BY <2>1
<1>3. CASE C # {}
  <2>1. PICK T \in SUBSET S : T \in C /\ \A U \in C : U \subseteq T => U = T
    BY <1>3, SmallestSet
  <2>2. F[T] = SumStep(F, f, T) /\ ~(F[T] >= 0)
    BY <1>1, <1>2, <2>1
  <2>3. T # {}
    BY <2>2 DEF SumStep
  <2>4. Picked(T) \in T /\ T \ {Picked(T)} \in SUBSET S /\ T \ {Picked(T)} \notin C
    BY <2>1, <2>3, PickedIn
  <2>5. /\ f[Picked(T)] >= 0 /\ f[Picked(T)] \in Int
        /\ F[T \ {Picked(T)}] >= 0 /\ F[T \ {Picked(T)}] \in Int
    BY <1>1, <1>2, <2>4
  <2> QED
    BY <2>2, <2>3, <2>5 DEF SumStep
<1>4. CASE C = {}
  BY <1>a, <1>2, <1>4, SumIs
<1> QED
  BY <1>3, <1>4

\* A sum of numbers that are at most c is at most c times as large as the set.
LEMMA SumBound ==
    ASSUME NEW D, NEW S \in SUBSET D, IsFiniteSet(S), NEW f \in [D -> Int],
           NEW c \in Nat, \A x \in S : f[x] <= c
    PROVE  SumFunctionOnSet(f, S) <= Cardinality(S) * c
<1>a. PICK F : F = Sums(f, S)
  OBVIOUS
<1>b. \A T \in SUBSET S : IsFiniteSet(T) /\ Cardinality(T) \in Nat
  BY FS_Subset, FS_CardinalityType
<1>1. \A T \in SUBSET S : F[T] = SumStep(F, f, T) /\ F[T] \in Int
  BY <1>a, SumsFacts
<1> DEFINE Bounded(T) == F[T] <= Cardinality(T) * c
<1> HIDE DEF Bounded
<1>2. PICK C \in SUBSET SUBSET S : \A T \in SUBSET S : T \in C <=> ~Bounded(T)
  <2>1. PICK C : C = {T \in SUBSET S : ~Bounded(T)}
    OBVIOUS
  <2> QED
    BY <2>1
<1>3. CASE C # {}
  <2>1. PICK T \in SUBSET S : T \in C /\ \A U \in C : U \subseteq T => U = T
    BY <1>3, SmallestSet
  <2>2. F[T] = SumStep(F, f, T) /\ ~(F[T] <= Cardinality(T) * c)
    BY <1>1, <1>2, <2>1 DEF Bounded
  <2>3. T # {}
    <3> SUFFICES ASSUME T = {} PROVE FALSE
      OBVIOUS
    <3>1. Cardinality(T) = 0 /\ F[T] = 0
      BY <2>2, FS_EmptySet DEF SumStep
    <3> QED
      BY <2>2, <3>1
  <2>4. Picked(T) \in T /\ T \ {Picked(T)} \in SUBSET S /\ T \ {Picked(T)} \notin C
    BY <2>1, <2>3, PickedIn
  <2>5. PICK U \in SUBSET S, x \in T : U = T \ {Picked(T)} /\ x = Picked(T)
    BY <2>4
  <2>6. /\ f[x] <= c /\ f[x] \in Int
        /\ F[U] <= Cardinality(U) * c /\ F[U] \in Int /\ F[T] = f[x] + F[U]
    BY <1>1, <1>2, <2>1, <2>2, <2>3, <2>4, <2>5 DEF SumStep, Bounded
  <2>7. Cardinality(T) = Cardinality(U) + 1 /\ Cardinality(U) \in Nat
    <3>1. U = T \ {x}
      BY <2>5
    <3>2. Cardinality(U) = Cardinality(T) - 1
      BY <1>b, <2>1, <3>1, FS_RemoveElement
    <3> QED
      BY <1>b, <2>1, <3>2
  <2>8. Cardinality(T) * c = Cardinality(U) * c + c
    <3>1. \A m, n \in Nat : (m + 1) * n = m * n + n
      OBVIOUS
    <3> QED
      BY <2>7, <3>1
  <2>9. Cardinality(U) * c \in Nat
    BY <2>7
  <2> QED
    BY <2>2, <2>6, <2>8, <2>9
<1>4. CASE C = {}
  BY <1>a, <1>2, <1>4, SumIs DEF Bounded
<1> QED
  BY <1>3, <1>4
===============================================================================
