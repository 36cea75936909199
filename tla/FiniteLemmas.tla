---------------------------- MODULE FiniteLemmas ----------------------------
(***************************************************************************)
(* What the proofs of the other modules need of the operators they are     *)
(* built from: sums over finite sets, the largest and the smallest element, *)
(* folds over sequences, and the arithmetic of even shares.                *)
(***************************************************************************)
EXTENDS Integers, FiniteSetsExt, FiniteSetTheorems, TLAPS

Total(f, S) == MapThenSumSet(LAMBDA t : f[t], S)

Cells(f, S) == UNION {{t} \X (1..f[t]) : t \in S}

\* One element taken out, by the choice the fold makes.
Picked(s) == CHOOSE x \in s : TRUE
Folds(h, f, S) ==
  h = [s \in SUBSET S |-> IF s = {} THEN 0 ELSE f[Picked(s)] + h[s \ {Picked(s)}]]

LEMMA TotalIsFold ==
  ASSUME NEW f, NEW S
  PROVE  Total(f, S) = (CHOOSE h : Folds(h, f, S))[S]
BY DEF Total, MapThenSumSet, MapThenFoldSet, Folds, Picked

LEMMA CellsFinite ==
  ASSUME NEW T, IsFiniteSet(T), NEW f \in [T -> Nat]
  PROVE  \A s \in SUBSET T : IsFiniteSet(s) /\ IsFiniteSet(Cells(f, s))
<1> SUFFICES ASSUME NEW s \in SUBSET T
             PROVE  IsFiniteSet(s) /\ IsFiniteSet(Cells(f, s))
  OBVIOUS
<1>1. IsFiniteSet(s)
  BY FS_Subset
<1> DEFINE column == [t \in s |-> {t} \X (1..f[t])]
           columns == {{t} \X (1..f[t]) : t \in s}
<1>2. column \in Surjection(s, columns)
  BY DEF Surjection
<1>3. IsFiniteSet(columns)
  BY <1>1, <1>2, FS_Surjection
<1>4. ASSUME NEW c \in columns PROVE IsFiniteSet(c)
  <2>1. PICK t \in s : c = {t} \X (1..f[t])
    OBVIOUS
  <2>2. f[t] \in Int /\ 1 \in Int
    OBVIOUS
  <2>3. IsFiniteSet({t})
    BY FS_Singleton
  <2>4. IsFiniteSet(1..f[t])
    BY <2>2, FS_Interval
  <2>. QED BY <2>1, <2>3, <2>4, FS_Product
<1>5. IsFiniteSet(UNION columns)
  <2> HIDE DEF columns
  <2>. QED BY <1>3, <1>4, FS_UNION
<1>. QED BY <1>1, <1>5 DEF Cells

LEMMA CellsStep ==
  ASSUME NEW T, IsFiniteSet(T), NEW f \in [T -> Nat], NEW s \in SUBSET T, NEW x \in s
  PROVE  Cardinality(Cells(f, s)) = f[x] + Cardinality(Cells(f, s \ {x}))
<1> DEFINE column == {x} \X (1..f[x])
           rest == Cells(f, s \ {x})
<1>1. Cells(f, s) = column \cup rest
  BY DEF Cells
<1>2. column \cap rest = {}
  BY DEF Cells
<1>3. f[x] \in Nat /\ 1 \in Int
  OBVIOUS
<1>4. IsFiniteSet({x}) /\ Cardinality({x}) = 1
  BY FS_Singleton
<1>5. IsFiniteSet(1..f[x]) /\ Cardinality(1..f[x]) = f[x]
  BY <1>3, FS_Interval
<1>6. IsFiniteSet(column) /\ Cardinality(column) = 1 * f[x]
  BY <1>4, <1>5, FS_Product
<1>7. IsFiniteSet(rest)
  BY CellsFinite
<1>8. Cardinality(column \cap rest) = 0
  BY <1>2, FS_EmptySet
<1>9. Cardinality(column) = f[x] /\ Cardinality(rest) \in Nat
  BY <1>3, <1>6, <1>7, FS_CardinalityType
<1>10. Cardinality(column \cup rest) = Cardinality(column) + Cardinality(rest) - 0
  <2> HIDE DEF column, rest
  <2>. QED BY <1>6, <1>7, <1>8, FS_Union
<1>. QED BY <1>1, <1>3, <1>9, <1>10

\* What the fold of a finite function over the naturals computes: the number of cells under it.
LEMMA TotalIsCells ==
  ASSUME NEW T, IsFiniteSet(T), NEW f \in [T -> Nat]
  PROVE  Total(f, T) = Cardinality(Cells(f, T))
<1> DEFINE count == [s \in SUBSET T |-> Cardinality(Cells(f, s))]
<1>1. ASSUME NEW s \in SUBSET T, s # {}
      PROVE  Picked(s) \in s
  BY <1>1 DEF Picked
<1>2. Folds(count, f, T)
  <2>1. ASSUME NEW s \in SUBSET T
        PROVE  count[s] = IF s = {} THEN 0 ELSE f[Picked(s)] + count[s \ {Picked(s)}]
    <3>1. CASE s = {}
      <4>1. Cells(f, s) = {}
        BY <3>1 DEF Cells
      <4>. QED BY <3>1, <4>1, FS_EmptySet
    <3>2. CASE s # {}
      <4>1. Picked(s) \in s /\ s \ {Picked(s)} \in SUBSET T
        BY <1>1, <3>2
      <4>2. Cardinality(Cells(f, s)) = f[Picked(s)] + Cardinality(Cells(f, s \ {Picked(s)}))
        BY <4>1, CellsStep
      <4>. QED BY <3>2, <4>1, <4>2
    <3>. QED BY <3>1, <3>2
  <2>2. count = [s \in SUBSET T |->
                   IF s = {} THEN 0 ELSE f[Picked(s)] + count[s \ {Picked(s)}]]
    BY <2>1
  <2>. QED BY <2>2 DEF Folds
<1> DEFINE h == CHOOSE g : Folds(g, f, T)
<1>3. Folds(h, f, T)
  BY <1>2
<1> HIDE DEF h
<1>4. \A s \in SUBSET T : h[s] = IF s = {} THEN 0 ELSE f[Picked(s)] + h[s \ {Picked(s)}]
  BY <1>3 DEF Folds
<1>5. \A s \in SUBSET T : count[s] = IF s = {} THEN 0 ELSE f[Picked(s)] + count[s \ {Picked(s)}]
  BY <1>2 DEF Folds
<1> HIDE DEF count
<1> DEFINE Wrong == {s \in SUBSET T : h[s] # count[s]}
<1>6. Wrong = {}
  <2> SUFFICES ASSUME Wrong # {} PROVE FALSE
    OBVIOUS
  <2>1. IsWellFoundedOn(StrictSubsetOrdering(T), SUBSET T)
    BY FS_StrictSubsetOrderingWellFounded, FS_FiniteSubsetsOfFinite
  <2>2. PICK s \in Wrong : \A u \in Wrong : <<u, s>> \notin StrictSubsetOrdering(T)
    BY <2>1, WFMin
  <2>3. CASE s = {}
    BY <1>4, <1>5, <2>3
  <2>4. CASE s # {}
    <3> DEFINE u == s \ {Picked(s)}
    <3>1. Picked(s) \in s /\ u \in SUBSET T /\ u # s
      BY <1>1, <2>4
    <3>2. <<u, s>> \in StrictSubsetOrdering(T)
      BY <3>1 DEF StrictSubsetOrdering
    <3>3. h[u] = count[u]
      BY <2>2, <3>1, <3>2
    <3>. QED BY <1>4, <1>5, <2>4, <3>1, <3>3
  <2>. QED BY <2>3, <2>4
<1>7. h[T] = count[T]
  BY <1>6
<1>. QED BY <1>7, TotalIsFold DEF h, count

LEMMA TotalType ==
  ASSUME NEW T, IsFiniteSet(T), NEW f \in [T -> Nat]
  PROVE  Total(f, T) \in Nat
<1>1. IsFiniteSet(Cells(f, T))
  BY CellsFinite
<1>. QED BY <1>1, TotalIsCells, FS_CardinalityType

\* A total is that of the other elements and the one taken out.
LEMMA TotalSplit ==
  ASSUME NEW T, IsFiniteSet(T), NEW f \in [T -> Nat], NEW x \in T
  PROVE  /\ Total(f, T) = f[x] + Cardinality(Cells(f, T \ {x}))
         /\ Cardinality(Cells(f, T \ {x})) \in Nat
<1>1. IsFiniteSet(Cells(f, T \ {x}))
  BY CellsFinite
<1>2. Cardinality(Cells(f, T)) = f[x] + Cardinality(Cells(f, T \ {x}))
  BY CellsStep
<1>. QED BY <1>1, <1>2, TotalIsCells, FS_CardinalityType

\* A change of one element changes the total by as much.
LEMMA TotalChange ==
  ASSUME NEW T, IsFiniteSet(T), NEW f \in [T -> Nat], NEW g \in [T -> Nat], NEW x \in T,
         \A y \in T \ {x} : g[y] = f[y]
  PROVE  Total(g, T) = (Total(f, T) - f[x]) + g[x]
<1>1. Cells(g, T \ {x}) = Cells(f, T \ {x})
  BY DEF Cells
<1>2. /\ Total(f, T) = f[x] + Cardinality(Cells(f, T \ {x}))
      /\ Cardinality(Cells(f, T \ {x})) \in Nat
  BY TotalSplit
<1>3. Total(g, T) = g[x] + Cardinality(Cells(g, T \ {x}))
  BY TotalSplit
<1>. QED BY <1>1, <1>2, <1>3

LEMMA TotalAtLeast ==
  ASSUME NEW T, IsFiniteSet(T), NEW f \in [T -> Nat], NEW x \in T
  PROVE  f[x] <= Total(f, T)
<1>1. /\ Total(f, T) = f[x] + Cardinality(Cells(f, T \ {x}))
      /\ Cardinality(Cells(f, T \ {x})) \in Nat
  BY TotalSplit
<1>2. f[x] \in Nat
  OBVIOUS
<1>. QED BY <1>1, <1>2

\* The same amount for each of some elements and nothing for the others.
LEMMA TotalUniform ==
  ASSUME NEW T, IsFiniteSet(T), NEW f \in [T -> Nat], NEW S \in SUBSET T, NEW n \in Nat,
         \A t \in T : f[t] = IF t \in S THEN n ELSE 0
  PROVE  Total(f, T) = n * Cardinality(S)
<1>1. Cells(f, T) = S \X (1..n)
  BY DEF Cells
<1>2. IsFiniteSet(S)
  BY FS_Subset
<1>3. IsFiniteSet(1..n) /\ Cardinality(1..n) = n
  BY FS_Interval, 1 \in Int, n \in Int
<1>4. Cardinality(S \X (1..n)) = Cardinality(S) * n
  BY <1>2, <1>3, FS_Product
<1>. QED BY <1>1, <1>2, <1>4, TotalIsCells, FS_CardinalityType

LEMMA TotalZero ==
  ASSUME NEW T, IsFiniteSet(T), NEW f \in [T -> Nat], \A t \in T : f[t] = 0
  PROVE  Total(f, T) = 0
<1>1. Total(f, T) = 0 * Cardinality({})
  BY TotalUniform
<1>. QED BY <1>1, FS_EmptySet

-----------------------------------------------------------------------------
(* The largest element.                                                    *)

LEMMA MaxOfFinite ==
  ASSUME NEW S \in SUBSET Nat, IsFiniteSet(S), S # {}
  PROVE  Max(S) \in S /\ \A x \in S : Max(S) >= x
<1> DEFINE HasMax(s) == \E m \in s : \A x \in s : m >= x
           Wrong == {s \in SUBSET S : s # {} /\ ~HasMax(s)}
<1>1. Wrong = {}
  <2> SUFFICES ASSUME Wrong # {} PROVE FALSE
    OBVIOUS
  <2>1. IsWellFoundedOn(StrictSubsetOrdering(S), SUBSET S)
    BY FS_StrictSubsetOrderingWellFounded, FS_FiniteSubsetsOfFinite
  <2>2. PICK s \in Wrong : \A u \in Wrong : <<u, s>> \notin StrictSubsetOrdering(S)
    BY <2>1, WFMin
  <2>3. PICK x \in s : x \in Nat
    OBVIOUS
  <2> DEFINE u == s \ {x}
  <2>4. CASE u = {}
    BY <2>3, <2>4
  <2>5. CASE u # {}
    <3>1. <<u, s>> \in StrictSubsetOrdering(S)
      BY <2>3 DEF StrictSubsetOrdering
    <3>2. HasMax(u)
      BY <2>2, <2>5, <3>1
    <3>3. PICK m \in u : \A y \in u : m >= y
      BY <3>2
    <3>4. m \in Nat /\ \A y \in s : y \in Nat
      OBVIOUS
    <3>5. CASE m >= x
      BY <3>3, <3>5
    <3>6. CASE x > m
      BY <2>3, <3>3, <3>4, <3>6
    <3>. QED BY <2>3, <3>4, <3>5, <3>6
  <2>. QED BY <2>4, <2>5
<1>2. HasMax(S)
  BY <1>1
<1>. QED BY <1>2 DEF Max
LEMMA MinOfThree ==
  ASSUME NEW a \in Int, NEW b \in Int, NEW c \in Int
  PROVE  Min({a, b, c}) \in {a, b, c} /\ \A x \in {a, b, c} : Min({a, b, c}) <= x
<1> DEFINE S == {a, b, c}
<1>1. \E m \in S : \A x \in S : m <= x
  OBVIOUS
<1>2. Min(S) \in S /\ \A x \in S : Min(S) <= x
  <2> HIDE DEF S
  <2>. QED BY <1>1 DEF Min
<1>. QED BY <1>2

LEMMA MinOfTwo ==
  ASSUME NEW a \in Int, NEW b \in Int
  PROVE  Min({a, b}) = IF a <= b THEN a ELSE b
<1>1. {a, b} = {a, b, b}
  OBVIOUS
<1>. QED BY <1>1, MinOfThree

LEMMA MinOfNat ==
  ASSUME NEW S \in SUBSET Nat, IsFiniteSet(S), S # {}
  PROVE  Min(S) \in S /\ \A x \in S : Min(S) <= x
<1>1. PICK top \in Nat : \A x \in S : top >= x
  BY MaxOfFinite
<1> DEFINE back == {top - x : x \in S}
<1>2. back \in SUBSET Nat /\ back # {}
  <2>1. ASSUME NEW x \in S PROVE top - x \in Nat
    BY <1>1
  <2>2. S # {}
    OBVIOUS
  <2>. QED BY <2>1, <2>2
<1>3. IsFiniteSet(back)
  <2>1. back \in SUBSET (0..top)
    BY <1>1
  <2>2. IsFiniteSet(0..top)
    BY FS_Interval, 0 \in Int, top \in Int
  <2>. HIDE DEF back
  <2>. QED BY <2>1, <2>2, FS_Subset
<1>4. Max(back) \in back /\ \A y \in back : Max(back) >= y
  BY <1>2, <1>3, MaxOfFinite
<1>5. PICK m \in S : Max(back) = top - m
  BY <1>4
<1>6. ASSUME NEW x \in S PROVE m <= x
  <2>1. top - x \in back
    OBVIOUS
  <2>2. top - m >= top - x
    <3>. HIDE DEF back
    <3>. QED BY <1>4, <1>5, <2>1
  <2>. QED BY <2>2
<1>. QED BY <1>6 DEF Min

-----------------------------------------------------------------------------
(* Part of a set.                                                          *)

LEMMA TotalOfPart ==
  ASSUME NEW T, IsFiniteSet(T), NEW f \in [T -> Nat], NEW S \in SUBSET T
  PROVE  Total(f, S) = Cardinality(Cells(f, S))
<1> DEFINE g == [t \in S |-> f[t]]
<1>1. \A s \in SUBSET S : s # {} => Picked(s) \in S
  BY DEF Picked
<1>2. \A h : Folds(h, f, S) <=> Folds(h, g, S)
  <2> SUFFICES ASSUME NEW h PROVE Folds(h, f, S) <=> Folds(h, g, S)
    OBVIOUS
  <2>1. \A s \in SUBSET S :
          (IF s = {} THEN 0 ELSE f[Picked(s)] + h[s \ {Picked(s)}])
            = IF s = {} THEN 0 ELSE g[Picked(s)] + h[s \ {Picked(s)}]
    BY <1>1
  <2>2. [s \in SUBSET S |-> IF s = {} THEN 0 ELSE f[Picked(s)] + h[s \ {Picked(s)}]]
          = [s \in SUBSET S |-> IF s = {} THEN 0 ELSE g[Picked(s)] + h[s \ {Picked(s)}]]
    BY <2>1
  <2>. QED BY <2>2 DEF Folds
<1>3. (CHOOSE h : Folds(h, f, S)) = (CHOOSE h : Folds(h, g, S))
  BY <1>2
<1>4. Total(f, S) = Total(g, S)
  BY <1>3, TotalIsFold
<1>5. IsFiniteSet(S) /\ g \in [S -> Nat]
  BY FS_Subset
<1>6. Total(g, S) = Cardinality(Cells(g, S))
  BY <1>5, TotalIsCells
<1>7. Cells(g, S) = Cells(f, S)
  BY DEF Cells
<1>. QED BY <1>4, <1>6, <1>7

\* A part and the rest.
LEMMA TotalOfParts ==
  ASSUME NEW T, IsFiniteSet(T), NEW f \in [T -> Nat], NEW S \in SUBSET T
  PROVE  /\ Total(f, S) \in Nat
         /\ Total([t \in T |-> IF t \in S THEN 0 ELSE f[t]], T) \in Nat
         /\ Total(f, T) = Total(f, S) + Total([t \in T |-> IF t \in S THEN 0 ELSE f[t]], T)
<1> DEFINE g == [t \in T |-> IF t \in S THEN 0 ELSE f[t]]
<1>1. g \in [T -> Nat]
  OBVIOUS
<1>2. /\ Total(f, T) = Cardinality(Cells(f, T))
      /\ Total(f, S) = Cardinality(Cells(f, S))
      /\ Total(g, T) = Cardinality(Cells(g, T))
  BY <1>1, TotalIsCells, TotalOfPart
<1>3. IsFiniteSet(Cells(f, S)) /\ IsFiniteSet(Cells(g, T))
  BY <1>1, CellsFinite
<1>4. Cells(f, T) = Cells(f, S) \cup Cells(g, T)
  <2>1. 1..0 = {}
    OBVIOUS
  <2>2. Cells(g, T) = UNION {{t} \X (1..f[t]) : t \in T \ S}
    BY <2>1 DEF Cells
  <2>. QED BY <2>2 DEF Cells
<1>5. Cells(f, S) \cap Cells(g, T) = {}
  <2>1. 1..0 = {}
    OBVIOUS
  <2>. QED BY <2>1 DEF Cells
<1>6. /\ Cardinality(Cells(f, S)) \in Nat /\ Cardinality(Cells(g, T)) \in Nat
      /\ Cardinality(Cells(f, S) \cap Cells(g, T)) = 0
  BY <1>3, <1>5, FS_CardinalityType, FS_EmptySet
<1>7. Cardinality(Cells(f, S) \cup Cells(g, T))
        = Cardinality(Cells(f, S)) + Cardinality(Cells(g, T)) - 0
  BY <1>3, <1>6, FS_Union
<1>. HIDE DEF g
<1>8. Total(f, S) \in Nat /\ Total(g, T) \in Nat /\ Total(f, T) = Total(f, S) + Total(g, T)
  BY <1>2, <1>4, <1>6, <1>7
<1>. QED BY <1>8 DEF g

-----------------------------------------------------------------------------
(* Folds over a sequence.                                                  *)

\* Induction up to a bound, with a set for the predicate.
LEMMA UpTo ==
  ASSUME NEW n \in Nat, NEW S, 0 \in S, \A k \in 1..n : k - 1 \in S => k \in S
  PROVE  \A k \in 0..n : k \in S
<1> DEFINE Wrong == {k \in 0..n : k \notin S}
<1>1. Wrong = {}
  <2> SUFFICES ASSUME Wrong # {} PROVE FALSE
    OBVIOUS
  <2>1. IsFiniteSet(0..n)
    BY FS_Interval, 0 \in Int, n \in Int
  <2> DEFINE back == {n - k : k \in Wrong}
  <2>2. IsFiniteSet(Wrong)
    BY <2>1, FS_Subset
  <2>3. IsFiniteSet(back) /\ back # {} /\ back \in SUBSET Nat
    <3>1. back \in SUBSET (0..n)
      OBVIOUS
    <3>2. back \in SUBSET Nat /\ back # {}
      OBVIOUS
    <3>. QED BY <2>1, <3>1, <3>2, FS_Subset
  <2>4. Max(back) \in back /\ \A x \in back : Max(back) >= x
    BY <2>3, MaxOfFinite
  <2>5. PICK k \in Wrong : Max(back) = n - k
    BY <2>4
  <2>6. k \in 1..n /\ k - 1 \in 0..n
    BY <2>5
  <2>7. k - 1 \in Wrong
    BY <2>5, <2>6
  <2>8. n - (k - 1) \in back
    BY <2>7
  <2>9. n - k >= n - (k - 1)
    <3> HIDE DEF back
    <3>. QED BY <2>4, <2>5, <2>8
  <2>10. k \in Int
    BY <2>6
  <2>. QED BY <2>9, <2>10
<1>. QED BY <1>1

\* A step function has a run along every sequence: the recursion a fold is
\* defined by has a solution.
Foldable(A, T, F, n, q, base) ==
  F \in [A \X T -> A] /\ n \in Nat /\ q \in [1..n -> T] /\ base \in A

SolvesFold(h, A, F, n, q, base) ==
  /\ h \in [SUBSET (1..n) -> A]
  /\ \A s \in SUBSET (1..n) :
       h[s] = IF s = {} THEN base ELSE F[<<h[s \ {Max(s)}], q[Max(s)]>>]

LEMMA FoldHasSolution ==
  ASSUME NEW A, NEW T, NEW F, NEW n, NEW q, NEW base, Foldable(A, T, F, n, q, base)
  PROVE  \E h : SolvesFold(h, A, F, n, q, base)
<1>. USE DEF Foldable
<1> DEFINE D == 1..n
           Solves(h, s) ==
             \A u \in SUBSET s :
               h[u] = IF u = {} THEN base ELSE F[<<h[u \ {Max(u)}], q[Max(u)]>>]
           Solved(s) == \E h \in [SUBSET s -> A] : Solves(h, s)
           Wrong == {s \in SUBSET D : ~Solved(s)}
<1>1. IsFiniteSet(D)
  BY FS_Interval, 1 \in Int, n \in Int
<1>2. \A s \in SUBSET D : s # {} => Max(s) \in s /\ \A x \in s : Max(s) >= x
  <2> SUFFICES ASSUME NEW s \in SUBSET D, s # {}
               PROVE  Max(s) \in s /\ \A x \in s : Max(s) >= x
    OBVIOUS
  <2>1. s \in SUBSET Nat
    OBVIOUS
  <2>2. IsFiniteSet(s)
    <3>. HIDE DEF D
    <3>. QED BY <1>1, FS_Subset
  <2>. QED BY <2>1, <2>2, MaxOfFinite
<1>3. Wrong = {}
  <2> SUFFICES ASSUME Wrong # {} PROVE FALSE
    OBVIOUS
  <2>1. IsWellFoundedOn(StrictSubsetOrdering(D), SUBSET D)
    BY <1>1, FS_StrictSubsetOrderingWellFounded, FS_FiniteSubsetsOfFinite
  <2>2. PICK s \in Wrong : \A u \in Wrong : <<u, s>> \notin StrictSubsetOrdering(D)
    <3> HIDE DEF Wrong, D
    <3>1. Wrong \subseteq SUBSET D
      BY DEF Wrong
    <3>. QED BY <2>1, <3>1, WFMin
  <2>3. CASE s = {}
    <3> DEFINE h == [u \in SUBSET s |-> base]
    <3>1. h \in [SUBSET s -> A]
      OBVIOUS
    <3>2. Solves(h, s)
      BY <2>3
    <3>. QED BY <3>1, <3>2
  <2>4. CASE s # {}
    <3> DEFINE x == Max(s)
               r == s \ {x}
    <3>1. x \in s /\ \A y \in s : x >= y
      BY <1>2, <2>4
    <3>2. r \in SUBSET D /\ <<r, s>> \in StrictSubsetOrdering(D)
      BY <3>1 DEF StrictSubsetOrdering
    <3>3. Solved(r)
      BY <2>2, <3>2
    <3>4. PICK g \in [SUBSET r -> A] : Solves(g, r)
      BY <3>3
    <3> DEFINE h == [u \in SUBSET s |-> IF x \in u THEN F[<<g[u \ {x}], q[x]>>] ELSE g[u]]
    <3>5. x \in D
      BY <3>1
    <3>. HIDE DEF x
    <3>6. h \in [SUBSET s -> A]
      <4>1. ASSUME NEW u \in SUBSET s, x \in u PROVE F[<<g[u \ {x}], q[x]>>] \in A
        <5>1. u \ {x} \in SUBSET r
          OBVIOUS
        <5>. QED BY <5>1, <3>5
      <4>2. ASSUME NEW u \in SUBSET s, x \notin u PROVE g[u] \in A
        <5>1. u \in SUBSET r
          BY <4>2
        <5>. QED BY <5>1
      <4>. QED BY <4>1, <4>2
    <3>7. ASSUME NEW u \in SUBSET s
          PROVE  h[u] = IF u = {} THEN base ELSE F[<<h[u \ {Max(u)}], q[Max(u)]>>]
      <4>1. CASE x \in u
        <5>1. Max(u) \in u /\ \A y \in u : Max(u) >= y
          BY <1>2, <4>1
        <5>2. Max(u) = x
          <6>1. Max(u) \in s
            BY <5>1
          <6>2. Max(u) >= x /\ x >= Max(u)
            <7>. HIDE DEF D, Wrong, h, r
            <7>. QED BY <3>1, <4>1, <5>1, <6>1
          <6>3. \A y \in D : y \in Int
            OBVIOUS
          <6>4. Max(u) \in Int /\ x \in Int
            BY <3>5, <6>1, <6>3
          <6>. QED BY <6>2, <6>4
        <5>3. h[u] = F[<<g[u \ {x}], q[x]>>] /\ h[u \ {x}] = g[u \ {x}]
          BY <4>1
        <5>. QED BY <4>1, <5>2, <5>3
      <4>2. CASE x \notin u
        <5>1. u \in SUBSET r /\ h[u] = g[u]
          BY <4>2
        <5>2. h[u \ {Max(u)}] = g[u \ {Max(u)}]
          BY <4>2
        <5>. QED BY <3>4, <5>1, <5>2
      <4>. QED BY <4>1, <4>2
    <3>8. Solves(h, s)
      BY <3>7
    <3>9. Solved(s)
      BY <3>6, <3>8
    <3>. QED BY <3>9
  <2>. QED BY <2>3, <2>4
<1>4. Solved(D)
  BY <1>3
<1>. QED BY <1>4 DEF SolvesFold
LEMMA LastOfInterval ==
  ASSUME NEW n \in Nat, NEW k \in 1..n
  PROVE  /\ 1..k \in SUBSET (1..n) /\ 1..k # {} /\ Max(1..k) = k /\ (1..k) \ {k} = 1..(k - 1)
<1>1. Max(1..k) \in 1..k /\ \A x \in 1..k : Max(1..k) >= x
  <2>1. IsFiniteSet(1..k)
    BY FS_Interval, 1 \in Int, k \in Int
  <2>2. k \in 1..k /\ 1..k \in SUBSET Nat
    OBVIOUS
  <2>. QED BY <2>1, <2>2, MaxOfFinite
<1>2. k \in 1..k
  OBVIOUS
<1>3. Max(1..k) = k
  BY <1>1, <1>2
<1>. QED BY <1>3

LEMMA LastOfPart ==
  ASSUME NEW n \in Nat, NEW s \in SUBSET (1..n), s # {}
  PROVE  Max(s) \in 1..n
<1>1. IsFiniteSet(1..n)
  BY FS_Interval, 1 \in Int, n \in Int
<1>2. IsFiniteSet(s)
  BY <1>1, FS_Subset
<1>3. s \in SUBSET Nat
  OBVIOUS
<1>. QED BY <1>2, <1>3, MaxOfFinite

\* What such a solution says of one more element.
RunsFold(g, A, T, F, n, q, base) ==
  /\ g \in [SUBSET (1..n) -> A]
  /\ g[{}] = base
  /\ \A s \in SUBSET (1..n) :
       s # {} => /\ g[s \ {Max(s)}] \in A /\ q[Max(s)] \in T
                 /\ g[s] = F[<<g[s \ {Max(s)}], q[Max(s)]>>]

LEMMA FoldSolved ==
  ASSUME NEW A, NEW T, NEW F, NEW n, NEW q, NEW base, Foldable(A, T, F, n, q, base)
  PROVE  \E g : RunsFold(g, A, T, F, n, q, base)
<1>1. PICK g : SolvesFold(g, A, F, n, q, base)
  BY FoldHasSolution
<1>2. n \in Nat /\ q \in [1..n -> T] /\ g \in [SUBSET (1..n) -> A]
  BY <1>1 DEF Foldable, SolvesFold
<1>3. \A s \in SUBSET (1..n) : g[s] = IF s = {} THEN base ELSE F[<<g[s \ {Max(s)}], q[Max(s)]>>]
  BY <1>1 DEF SolvesFold
<1>4. ASSUME NEW s \in SUBSET (1..n), s # {}
      PROVE  Max(s) \in 1..n
  BY <1>2, <1>4, LastOfPart
<1>5. ASSUME NEW s \in SUBSET (1..n), s # {}
      PROVE  /\ g[s \ {Max(s)}] \in A /\ q[Max(s)] \in T
             /\ g[s] = F[<<g[s \ {Max(s)}], q[Max(s)]>>]
  <2>1. s \ {Max(s)} \in SUBSET (1..n)
    OBVIOUS
  <2>2. Max(s) \in 1..n
    BY <1>4, <1>5
  <2>3. g[s \ {Max(s)}] \in A /\ q[Max(s)] \in T
    BY <1>2, <2>1, <2>2
  <2>. QED BY <1>3, <1>5, <2>3
<1>6. g[{}] = base
  BY <1>3
<1>. QED BY <1>2, <1>5, <1>6 DEF RunsFold

\* What holds at the start and is kept by each element holds of the fold.
LEMMA FoldStays ==
  ASSUME NEW n \in Nat, NEW A, NEW h, h[{}] \in A,
         \A s \in SUBSET (1..n) : s # {} /\ h[s \ {Max(s)}] \in A => h[s] \in A
  PROVE  h[1..n] \in A
<1> DEFINE I == {k \in 0..n : h[1..k] \in A}
<1>1. 0 \in I
  <2>1. 1..0 = {}
    OBVIOUS
  <2>. QED BY <2>1
<1>2. ASSUME NEW k \in 1..n, k - 1 \in I PROVE k \in I
  <2>1. 1..k \in SUBSET (1..n) /\ 1..k # {} /\ Max(1..k) = k /\ (1..k) \ {k} = 1..(k - 1)
    BY LastOfInterval
  <2>2. h[(1..k) \ {Max(1..k)}] \in A
    BY <1>2, <2>1
  <2>3. h[1..k] \in A
    BY <2>1, <2>2
  <2>. QED BY <2>3
<1>3. \A k \in 0..n : k \in I
  <2>. HIDE DEF I
  <2>. QED BY <1>1, <1>2, UpTo
<1>. QED BY <1>3

\* The values of a fold, element by element.
FoldedBy(h, A, F, n, q, base) ==
  /\ h[{}] = base
  /\ \A s \in SUBSET (1..n) :
       s # {} /\ h[s \ {Max(s)}] \in A => h[s] = F[<<h[s \ {Max(s)}], q[Max(s)]>>]

StepsOf(g, A, T, F, n, q, base) ==
  /\ g \in [0..n -> A]
  /\ g[0] = base
  /\ \A k \in 1..n : g[k - 1] \in A /\ q[k] \in T /\ g[k] = F[<<g[k - 1], q[k]>>]

LEMMA FoldRuns ==
  ASSUME NEW A, NEW T, NEW F, NEW n, NEW q, NEW base, Foldable(A, T, F, n, q, base),
         NEW h, FoldedBy(h, A, F, n, q, base)
  PROVE  \E g : StepsOf(g, A, T, F, n, q, base) /\ g[n] = h[1..n]
<1> DEFINE g == [k \in 0..n |-> h[1..k]]
<1>1. F \in [A \X T -> A] /\ n \in Nat /\ q \in [1..n -> T] /\ base \in A
  BY DEF Foldable
<1>2. 1..0 = {}
  OBVIOUS
<1>3. g[0] = base /\ g[n] = h[1..n]
  BY <1>1, <1>2 DEF FoldedBy
<1>4. ASSUME NEW k \in 1..n, g[k - 1] \in A PROVE g[k] = F[<<g[k - 1], q[k]>>]
  <2>1. 1..k \in SUBSET (1..n) /\ 1..k # {} /\ Max(1..k) = k /\ (1..k) \ {k} = 1..(k - 1)
    BY <1>1, LastOfInterval
  <2>2. k - 1 \in 0..n /\ k \in 0..n
    BY <1>1
  <2>3. h[1..(k - 1)] \in A
    BY <1>4, <2>2
  <2>4. h[1..k] = F[<<h[1..(k - 1)], q[k]>>]
    BY <2>1, <2>3 DEF FoldedBy
  <2>. QED BY <2>2, <2>4
<1> DEFINE I == {k \in 0..n : g[k] \in A}
<1>5. \A k \in 0..n : k \in I
  <2>1. 0 \in I
    BY <1>1, <1>3
  <2>2. ASSUME NEW k \in 1..n, k - 1 \in I PROVE k \in I
    <3>1. g[k - 1] \in A /\ q[k] \in T /\ k \in 0..n
      BY <1>1, <2>2
    <3>. HIDE DEF g
    <3>2. g[k] = F[<<g[k - 1], q[k]>>]
      BY <1>4, <3>1
    <3>. QED BY <1>1, <3>1, <3>2
  <2>. HIDE DEF I
  <2>. QED BY <1>1, <2>1, <2>2, UpTo
<1>6. g \in [0..n -> A]
  BY <1>5
<1>7. ASSUME NEW k \in 1..n
      PROVE  g[k - 1] \in A /\ q[k] \in T /\ g[k] = F[<<g[k - 1], q[k]>>]
  <2>1. k - 1 \in I
    BY <1>1, <1>5
  <2>2. g[k - 1] \in A
    BY <2>1
  <2>. HIDE DEF g
  <2>. QED BY <1>1, <1>4, <2>2
<1>8. StepsOf(g, A, T, F, n, q, base)
  <2>. HIDE DEF g
  <2>. QED BY <1>3, <1>6, <1>7 DEF StepsOf
<1>. QED BY <1>3, <1>8

\* Totals of two are at least the total of what they bound.
LEMMA TotalsBound ==
  ASSUME NEW T, IsFiniteSet(T), NEW f \in [T -> Nat], NEW g \in [T -> Nat], NEW h \in [T -> Nat],
         \A t \in T : h[t] <= f[t] + g[t]
  PROVE  Total(h, T) <= Total(f, T) + Total(g, T)
<1> DEFINE above == [p \in Cells(g, T) |-> <<p[1], f[p[1]] + p[2]>>]
           S == {above[p] : p \in Cells(g, T)}
<1>1. /\ Total(f, T) = Cardinality(Cells(f, T)) /\ Total(g, T) = Cardinality(Cells(g, T))
      /\ Total(h, T) = Cardinality(Cells(h, T))
      /\ IsFiniteSet(Cells(f, T)) /\ IsFiniteSet(Cells(g, T)) /\ IsFiniteSet(Cells(h, T))
  BY TotalIsCells, CellsFinite
<1>2. IsFiniteSet(S) /\ Cardinality(S) <= Cardinality(Cells(g, T))
  <2>1. above \in Surjection(Cells(g, T), S)
    BY DEF Surjection
  <2>. HIDE DEF above, S
  <2>. QED BY <1>1, <2>1, FS_Surjection
<1>3. Cells(h, T) \subseteq Cells(f, T) \cup S
  <2> SUFFICES ASSUME NEW t \in T, NEW k \in 1..h[t], k \notin 1..f[t] PROVE <<t, k>> \in S
    <3>1. \A p \in Cells(h, T) : \E t \in T : \E k \in 1..h[t] : p = <<t, k>>
      BY DEF Cells
    <3>2. \A t \in T : \A k \in 1..f[t] : <<t, k>> \in Cells(f, T)
      BY DEF Cells
    <3>. HIDE DEF S
    <3>. QED BY <3>1, <3>2
  <2>1. /\ f[t] \in Nat /\ g[t] \in Nat /\ h[t] \in Nat /\ k \in Nat
        /\ k - f[t] \in 1..g[t] /\ f[t] + (k - f[t]) = k
    <3>1. f[t] \in Nat /\ g[t] \in Nat /\ h[t] \in Nat /\ h[t] <= f[t] + g[t]
      OBVIOUS
    <3>. QED BY <3>1
  <2>2. <<t, k - f[t]>> \in Cells(g, T)
    BY <2>1 DEF Cells
  <2>3. above[<<t, k - f[t]>>] = <<t, f[t] + (k - f[t])>>
    BY <2>2
  <2>. HIDE DEF above
  <2>. QED BY <2>1, <2>2, <2>3
<1>. HIDE DEF S
<1>4. /\ IsFiniteSet(Cells(f, T) \cup S)
      /\ Cardinality(Cells(f, T) \cup S) =
           Cardinality(Cells(f, T)) + Cardinality(S) - Cardinality(Cells(f, T) \cap S)
  BY <1>1, <1>2, FS_Union
<1>5. Cardinality(Cells(h, T)) <= Cardinality(Cells(f, T) \cup S)
  BY <1>3, <1>4, FS_Subset
<1>6. IsFiniteSet(Cells(f, T) \cap S)
  BY <1>1, FS_Subset
<1>7. /\ Cardinality(Cells(f, T)) \in Nat /\ Cardinality(Cells(g, T)) \in Nat /\ Cardinality(Cells(h, T)) \in Nat
      /\ Cardinality(S) \in Nat /\ Cardinality(Cells(f, T) \cap S) \in Nat
      /\ Cardinality(Cells(f, T) \cup S) \in Nat
  BY <1>1, <1>2, <1>4, <1>6, FS_CardinalityType
<1>. QED BY <1>1, <1>2, <1>4, <1>5, <1>7

\* Division by a positive number keeps the order.
LEMMA DivMonotone ==
  ASSUME NEW k \in Nat \ {0}, NEW v \in Nat, NEW w \in Nat, v <= w
  PROVE  (v \div k) \in Nat /\ v \div k <= w \div k
<1> DEFINE p == v \div k
           q == w \div k
<1>1. p \in Int /\ q \in Int
  OBVIOUS
<1>2. k * p <= v /\ v < k * p + k
  OBVIOUS
<1>3. k * q <= w /\ w < k * q + k
  OBVIOUS
<1>. HIDE DEF p, q
<1>4. p <= q
  <2> SUFFICES ASSUME p > q PROVE FALSE
    BY <1>1
  <2>1. p - q - 1 \in Nat
    BY <1>1
  <2>2. k * (p - q - 1) \in Nat
    BY <2>1
  <2>3. k * (p - q - 1) = (k * p - k * q) - k
    BY <1>1
  <2>. QED BY <1>1, <1>2, <1>3, <2>2, <2>3
<1>5. p >= 0
  <2> SUFFICES ASSUME p < 0 PROVE FALSE
    BY <1>1
  <2>1. 0 - p - 1 \in Nat
    BY <1>1
  <2>2. k * (0 - p - 1) \in Nat
    BY <2>1
  <2>3. k * (0 - p - 1) = 0 - k * p - k
    BY <1>1
  <2>. QED BY <1>1, <1>2, <2>2, <2>3
<1>. QED BY <1>1, <1>4, <1>5 DEF p, q

\* A multiple adds its own quotient.
LEMMA DivOfSum ==
  ASSUME NEW k \in Nat \ {0}, NEW v \in Nat, NEW w \in Nat, w % k = 0
  PROVE  (v + w) \div k = (v \div k) + (w \div k)
<1> DEFINE p == v \div k
           q == w \div k
           s == (v + w) \div k
<1>1. p \in Int /\ q \in Int /\ s \in Int
  OBVIOUS
<1>2. k * p <= v /\ v < k * p + k
  OBVIOUS
<1>3. w = k * q
  OBVIOUS
<1>4. k * s <= v + w /\ v + w < k * s + k
  OBVIOUS
<1>. HIDE DEF p, q, s
<1> DEFINE d == s - (p + q)
<1>5. d \in Int /\ k * d = k * s - (k * p + k * q)
  BY <1>1
<1>6. k * d < k /\ 0 - k < k * d
  <2>1. k * s \in Int /\ k * p \in Int /\ k * q \in Int
    BY <1>1
  <2>. QED BY <1>2, <1>3, <1>4, <1>5, <2>1
<1>. HIDE DEF d
<1>7. d = 0
  <2>1. d < 1
    <3> SUFFICES ASSUME d >= 1 PROVE FALSE
      BY <1>5
    <3>1. k * (d - 1) \in Nat
      BY <1>5
    <3>2. k * (d - 1) = k * d - k /\ k * d \in Int
      BY <1>5
    <3>. QED BY <1>6, <3>1, <3>2
  <2>2. d > -1
    <3> SUFFICES ASSUME d <= -1 PROVE FALSE
      BY <1>5
    <3>1. k * (0 - d - 1) \in Nat
      BY <1>5
    <3>2. k * (0 - d - 1) = 0 - k * d - k /\ k * d \in Int
      BY <1>5
    <3>. QED BY <1>6, <3>1, <3>2
  <2>. QED BY <1>5, <2>1, <2>2
<1>. QED BY <1>1, <1>7 DEF d, p, q, s

-----------------------------------------------------------------------------
(* One element of a sum, and a sum over a part as one of its own.           *)

LEMMA TotalRestrict ==
  ASSUME NEW T, IsFiniteSet(T), NEW f \in [T -> Nat], NEW S \in SUBSET T
  PROVE  Total(f, S) = Total([t \in S |-> f[t]], S) /\ Total(f, S) \in Nat
<1> DEFINE g == [t \in S |-> f[t]]
<1>1. IsFiniteSet(S) /\ g \in [S -> Nat]
  BY FS_Subset
<1>2. Total(f, S) = Cardinality(Cells(f, S)) /\ Total(g, S) = Cardinality(Cells(g, S))
  BY <1>1, TotalOfPart, TotalIsCells
<1>3. Cells(g, S) = Cells(f, S)
  BY DEF Cells
<1>. HIDE DEF g
<1>4. Total(f, S) = Total(g, S) /\ Total(g, S) \in Nat
  BY <1>1, <1>2, <1>3, TotalType
<1>. QED BY <1>4 DEF g

LEMMA TotalWith ==
  ASSUME NEW T, IsFiniteSet(T), NEW f \in [T -> Nat], NEW x \in T
  PROVE  Total(f, T) = f[x] + Total(f, T \ {x}) /\ Total(f, T \ {x}) \in Nat
<1>1. T \ {x} \in SUBSET T
  OBVIOUS
<1>2. Total(f, T \ {x}) = Cardinality(Cells(f, T \ {x}))
  BY <1>1, TotalOfPart
<1>. QED BY <1>2, TotalSplit
=============================================================================
