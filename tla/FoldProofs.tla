----------------------------- MODULE FoldProofs -----------------------------
(***************************************************************************)
(* What the proofs need of finite sets: induction, folds, sums, products   *)
(* and sorting.  Several modules define what the code computes in a loop   *)
(* with the folds of the community modules; these lemmas unfold them.      *)
(***************************************************************************)
EXTENDS Integers, Sequences, SequencesExt, FiniteSetsExt, FiniteSetTheorems, TLAPS

\* Induction on a finite set: a set I of sets that has {} and keeps gaining
\* one element of S has S itself.  The property to prove is given as the set
\* I, so that the lemma needs no operator as a parameter.
LEMMA SetInduction ==
    ASSUME NEW S, IsFiniteSet(S), NEW I, {} \in I,
           \A T \in SUBSET S : \A x \in S \ T : T \in I => T \cup {x} \in I
    PROVE  S \in I
<1> SUFFICES ASSUME S \notin I PROVE FALSE
  OBVIOUS
<1> DEFINE Out == {T \in SUBSET S : T \notin I}
           R == StrictSubsetOrdering(S)
<1>1. PICK T \in Out : \A U \in Out : <<U, T>> \notin R
  <2>1. Out \subseteq FiniteSubsetsOf(S) /\ Out # {}
    BY FS_FiniteSubsetsOfFinite
  <2>2. IsWellFoundedOn(R, FiniteSubsetsOf(S))
    BY FS_StrictSubsetOrderingWellFounded
  <2> HIDE DEF Out, R
  <2> QED
    BY <2>1, <2>2, WFMin
<1>2. PICK x : x \in T
  OBVIOUS
<1>3. T \ {x} \in SUBSET S /\ T = (T \ {x}) \cup {x} /\ x \in S \ (T \ {x})
  BY <1>2
<1>4. <<T \ {x}, T>> \in R
  BY <1>2, <1>3 DEF StrictSubsetOrdering
<1>5. T \ {x} \in I
  BY <1>1, <1>3, <1>4
<1> QED
  BY <1>3, <1>5

\* Induction on the naturals, the property given as a set.
LEMMA NatInductionSet ==
    ASSUME NEW I, 0 \in I, \A n \in Nat : n \in I => n + 1 \in I
    PROVE  \A n \in Nat : n \in I
<1> SUFFICES ASSUME NEW n \in Nat PROVE n \in I
  OBVIOUS
<1> DEFINE J == {T \in SUBSET (1 .. n) : Cardinality(T) \in I}
<1>1. IsFiniteSet(1 .. n) /\ Cardinality(1 .. n) = n
  BY FS_Interval
<1>2. {} \in J
  BY FS_EmptySet
<1>3. \A T \in SUBSET (1 .. n) : \A x \in (1 .. n) \ T : T \in J => T \cup {x} \in J
  <2> SUFFICES ASSUME NEW T \in SUBSET (1 .. n), NEW x \in (1 .. n) \ T, T \in J
               PROVE  T \cup {x} \in J
    OBVIOUS
  <2>1. IsFiniteSet(T)
    BY <1>1, FS_Subset
  <2>2. Cardinality(T) \in Nat /\ Cardinality(T \cup {x}) = Cardinality(T) + 1
    BY <2>1, FS_AddElement, FS_CardinalityType
  <2> QED
    BY <2>2
<1>4. 1 .. n \in J
  <2> HIDE DEF J
  <2> QED
    BY <1>1, <1>2, <1>3, SetInduction
<1> QED
  BY <1>1, <1>4

\* Strong induction on the subsets of a finite set: what holds of a set when
\* it holds of its proper subsets holds of every subset.
LEMMA SmallerSets ==
    ASSUME NEW S, IsFiniteSet(S), NEW I,
           \A T \in SUBSET S : (\A U \in SUBSET T : U # T => U \in I) => T \in I
    PROVE  \A T \in SUBSET S : T \in I
<1> SUFFICES ASSUME NEW V \in SUBSET S, V \notin I PROVE FALSE
  OBVIOUS
<1> DEFINE Out == {T \in SUBSET S : T \notin I}
           R == StrictSubsetOrdering(S)
<1>1. PICK T \in Out : \A U \in Out : <<U, T>> \notin R
  <2>1. Out \subseteq FiniteSubsetsOf(S) /\ Out # {}
    BY FS_FiniteSubsetsOfFinite
  <2>2. IsWellFoundedOn(R, FiniteSubsetsOf(S))
    BY FS_StrictSubsetOrderingWellFounded
  <2> HIDE DEF Out, R
  <2> QED
    BY <2>1, <2>2, WFMin
<1>2. \A U \in SUBSET T : U # T => U \in I
  BY <1>1 DEF StrictSubsetOrdering
<1> QED
  BY <1>2

\* What a function takes on a finite set is a finite set.
LEMMA FiniteRange ==
    ASSUME NEW S, IsFiniteSet(S), NEW f
    PROVE  IsFiniteSet({f[x] : x \in S}) /\ Cardinality({f[x] : x \in S}) <= Cardinality(S)
<1> DEFINE g == [x \in S |-> f[x]]
           T == {f[x] : x \in S}
<1>1. g \in Surjection(S, T)
  BY DEF Surjection
<1> HIDE DEF g, T
<1>2. IsFiniteSet(T) /\ Cardinality(T) <= Cardinality(S)
  BY <1>1, FS_Surjection
<1> QED
  BY <1>2 DEF T

\* A finite set of integers that is not empty has a largest and a least element.
LEMMA Extremes ==
    ASSUME NEW S, IsFiniteSet(S), S \subseteq Int, S # {}
    PROVE  /\ Max(S) \in S /\ \A y \in S : y <= Max(S)
           /\ Min(S) \in S /\ \A y \in S : Min(S) <= y
<1> DEFINE I == {T \in SUBSET S : T # {} => \E a, b \in T : \A y \in T : a <= y /\ y <= b}
<1>1. \A T \in SUBSET S : \A x \in S \ T : T \in I => T \cup {x} \in I
  <2> SUFFICES ASSUME NEW T \in SUBSET S, NEW x \in S \ T, T \in I
               PROVE  \E a, b \in T \cup {x} : \A y \in T \cup {x} : a <= y /\ y <= b
    OBVIOUS
  <2>1. CASE T = {}
    BY <2>1
  <2>2. CASE T # {}
    <3>1. PICK a \in T, b \in T : \A y \in T : a <= y /\ y <= b
      BY <2>2
    <3> DEFINE c == IF a <= x THEN a ELSE x
               d == IF x <= b THEN b ELSE x
    <3>2. c \in T \cup {x} /\ d \in T \cup {x} /\ a \in Int /\ b \in Int /\ x \in Int
      OBVIOUS
    <3>3. c <= a /\ c <= x /\ b <= d /\ x <= d /\ c \in Int /\ d \in Int
      BY <3>2
    <3> HIDE DEF c, d
    <3>4. \A y \in T \cup {x} : c <= y /\ y <= d
      BY <3>1, <3>2, <3>3
    <3> QED
      BY <3>2, <3>4
  <2> QED
    BY <2>1, <2>2
<1>2. S \in I
  <2>1. {} \in I
    OBVIOUS
  <2> HIDE DEF I
  <2> QED
    BY <1>1, <2>1, SetInduction
<1>3. \E a, b \in S : \A y \in S : a <= y /\ y <= b
  BY <1>2
<1>4. \A x, y \in S : (x >= y <=> y <= x) /\ (x =< y <=> x <= y)
  OBVIOUS
<1> QED
  BY <1>3, <1>4 DEF Max, Min

\* h folds every subset of S: one step for the element picked, after the rest.
IsFold(h, S, base, step, pick) ==
    \A T \in SUBSET S :
        h[T] = IF T = {} THEN base ELSE step[pick[T]][h[T \ {pick[T]}]]

\* A finite set, a base and a step in V, and a choice of the next element.
Foldable(S, V, base, step, pick) ==
    /\ IsFiniteSet(S) /\ base \in V /\ step \in [S -> [V -> V]]
    /\ \A T \in SUBSET S : T # {} => pick[T] \in T

\* The fold of a finite set with a step function exists, whatever element is
\* picked next: the recursive definitions of the folds library have a solution.
LEMMA FoldExists ==
    ASSUME NEW S, NEW V, NEW base, NEW F, NEW pick, Foldable(S, V, base, F, pick)
    PROVE  \E h \in [SUBSET S -> V] : IsFold(h, S, base, F, pick)
<1>0. /\ IsFiniteSet(S) /\ base \in V /\ F \in [S -> [V -> V]]
      /\ \A T \in SUBSET S : T # {} => pick[T] \in T
  BY DEF Foldable
<1> DEFINE Small(n) == {T \in SUBSET S : Cardinality(T) <= n}
           Folds(h, n) == /\ h \in [Small(n) -> V]
                          /\ \A T \in Small(n) :
                                h[T] = IF T = {} THEN base ELSE F[pick[T]][h[T \ {pick[T]}]]
           I == {n \in Nat : \E h : Folds(h, n)}
<1>1. \A T \in SUBSET S : IsFiniteSet(T) /\ Cardinality(T) \in Nat
  BY <1>0, FS_Subset, FS_CardinalityType
<1>2. \A T \in SUBSET S : T # {} => T \ {pick[T]} \in SUBSET S
                                      /\ Cardinality(T \ {pick[T]}) = Cardinality(T) - 1
  BY <1>0, <1>1, FS_RemoveElement
<1>3. 0 \in I
  <2> DEFINE h == [T \in Small(0) |-> base]
  <2>1. \A T \in Small(0) : T = {}
    BY <1>1, FS_EmptySet
  <2>2. Folds(h, 0)
    BY <1>0, <2>1
  <2> QED
    BY <2>2
<1>4. \A n \in Nat : n \in I => n + 1 \in I
  <2> SUFFICES ASSUME NEW n \in Nat, NEW h, Folds(h, n) PROVE n + 1 \in I
    OBVIOUS
  <2> DEFINE g == [T \in Small(n + 1) |-> IF T = {} THEN base ELSE F[pick[T]][h[T \ {pick[T]}]]]
  <2>1. \A T \in Small(n + 1) : T # {} => T \ {pick[T]} \in Small(n)
    BY <1>1, <1>2
  <2>2. ASSUME NEW T \in Small(n) PROVE T \in Small(n + 1) /\ g[T] = h[T]
    <3>1. T \in Small(n + 1)
      BY <1>1
    <3>2. h[T] = IF T = {} THEN base ELSE F[pick[T]][h[T \ {pick[T]}]]
      OBVIOUS
    <3> HIDE DEF Small
    <3> QED
      BY <3>1, <3>2
  <2>3. g \in [Small(n + 1) -> V]
    BY <1>0, <2>1
  <2>4. Folds(g, n + 1)
    BY <2>1, <2>2, <2>3
  <2> HIDE DEF Folds
  <2> QED
    BY <2>4
<1>5. Cardinality(S) \in I
  <2> HIDE DEF I
  <2> QED
    BY <1>0, <1>1, <1>3, <1>4, NatInductionSet
<1>6. Small(Cardinality(S)) = SUBSET S
  BY <1>0, <1>1, FS_Subset
<1>7. PICK h : Folds(h, Cardinality(S))
  BY <1>5
<1>8. /\ h \in [SUBSET S -> V]
      /\ \A T \in SUBSET S : h[T] = IF T = {} THEN base ELSE F[pick[T]][h[T \ {pick[T]}]]
  <2> HIDE DEF Small
  <2> QED
    BY <1>6, <1>7
<1> QED
  BY <1>8 DEF IsFold

\* h sums f over every subset of S.
Sums(h, f, S) ==
    \A T \in SUBSET S :
        h[T] = IF T = {} THEN 0
               ELSE f[CHOOSE x \in T : TRUE] + h[T \ {CHOOSE x \in T : TRUE}]

\* A sum over the subsets of a finite set exists.
LEMMA SumsExist ==
    ASSUME NEW S, IsFiniteSet(S), NEW f, \A x \in S : f[x] \in Nat
    PROVE  \E h \in [SUBSET S -> Nat] : Sums(h, f, S)
<1> DEFINE pick == [T \in SUBSET S |-> CHOOSE x \in T : TRUE]
           F == [x \in S |-> [v \in Nat |-> f[x] + v]]
<1>1. \A T \in SUBSET S : T # {} => (CHOOSE x \in T : TRUE) \in T /\ pick[T] = CHOOSE x \in T : TRUE
  OBVIOUS
<1>2. PICK w \in [SUBSET S -> Nat] : IsFold(w, S, 0, F, pick)
  <2>1. F \in [S -> [Nat -> Nat]]
    OBVIOUS
  <2>2. \A T \in SUBSET S : T # {} => pick[T] \in T
    BY <1>1
  <2> DEFINE V == Nat
             zero == 0
  <2> HIDE DEF F, pick, V, zero
  <2>3. zero \in V /\ F \in [S -> [V -> V]]
    BY <2>1 DEF V, zero
  <2>4. Foldable(S, V, zero, F, pick)
    BY <2>2, <2>3 DEF Foldable
  <2>5. \E w \in [SUBSET S -> V] : IsFold(w, S, zero, F, pick)
    BY <2>4, FoldExists
  <2> QED
    BY <2>5 DEF V, zero
<1>3. ASSUME NEW T \in SUBSET S
      PROVE  w[T] = IF T = {} THEN 0 ELSE f[CHOOSE x \in T : TRUE] + w[T \ {CHOOSE x \in T : TRUE}]
  <2>1. CASE T = {}
    BY <1>2, <2>1 DEF IsFold
  <2>2. CASE T # {}
    <3>1. pick[T] \in S /\ T \ {pick[T]} \in SUBSET S
       BY <1>1, <2>2
    <3>2. F[pick[T]][w[T \ {pick[T]}]] = f[pick[T]] + w[T \ {pick[T]}]
       BY <3>1
    <3> QED
      BY <1>1, <1>2, <2>2, <3>2 DEF IsFold
  <2> QED
    BY <2>1, <2>2
<1> QED
  BY <1>3 DEF Sums

\* Two solutions of the equation of the sums agree.
LEMMA SumsUnique ==
    ASSUME NEW S, IsFiniteSet(S), NEW f, NEW g, NEW h, Sums(g, f, S), Sums(h, f, S)
    PROVE  \A T \in SUBSET S : g[T] = h[T]
<1> DEFINE I == {T \in SUBSET S : g[T] = h[T]}
<1>1. \A T \in SUBSET S : (\A U \in SUBSET T : U # T => U \in I) => T \in I
  <2> SUFFICES ASSUME NEW T \in SUBSET S, \A U \in SUBSET T : U # T => U \in I
               PROVE  g[T] = h[T]
    OBVIOUS
  <2>1. CASE T = {}
    BY <2>1 DEF Sums
  <2>2. CASE T # {}
    <3> DEFINE c == CHOOSE x \in T : TRUE
    <3>1. c \in T /\ T \ {c} \in SUBSET S
      BY <2>2
    <3>2. g[T \ {c}] = h[T \ {c}]
      BY <3>1
    <3>3. g[T] = f[c] + g[T \ {c}] /\ h[T] = f[c] + h[T \ {c}]
      BY <2>2 DEF Sums
    <3> QED
      BY <3>2, <3>3
  <2> QED
    BY <2>1, <2>2
<1>2. \A T \in SUBSET S : T \in I
  <2> HIDE DEF I
  <2> QED
    BY <1>1, SmallerSets
<1> QED
  BY <1>2

\* The library's sum of a function over a finite set solves the equation.
LEMMA SumUnfolds ==
    ASSUME NEW S, IsFiniteSet(S), NEW f, \A x \in S : f[x] \in Nat, NEW h, Sums(h, f, S)
    PROVE  SumFunctionOnSet(f, S) = h[S]
<1> DEFINE Body(g) == [T \in SUBSET S |->
                         IF T = {} THEN 0 ELSE f[CHOOSE x \in T : TRUE] + g[T \ {CHOOSE x \in T : TRUE}]]
           iter == CHOOSE g : g = Body(g)
<1>1. PICK w \in [SUBSET S -> Nat] : Sums(w, f, S)
  BY SumsExist
<1>2. w = Body(w)
  <2>1. ASSUME NEW T \in SUBSET S PROVE w[T] = Body(w)[T]
    BY <1>1 DEF Sums
  <2> QED
    BY <2>1
<1>3. iter = Body(iter)
  <2> HIDE DEF Body
  <2> QED
    BY <1>2
<1>4. SumFunctionOnSet(f, S) = iter[S]
  BY DEF SumFunctionOnSet, FoldFunctionOnSet, MapThenFoldSet
<1>5. Sums(iter, f, S)
  <2> HIDE DEF iter
  <2> QED
    BY <1>3 DEF Sums
<1> HIDE DEF iter
<1> QED
  BY <1>4, <1>5, SumsUnique

\* A sum is a natural, 0 over {}, and any element may be taken out of it.
LEMMA SumRemove ==
    ASSUME NEW S, IsFiniteSet(S), NEW f, \A x \in S : f[x] \in Nat
    PROVE  /\ SumFunctionOnSet(f, S) \in Nat
           /\ SumFunctionOnSet(f, {}) = 0
           /\ \A x \in S : SumFunctionOnSet(f, S) = f[x] + SumFunctionOnSet(f, S \ {x})
<1>1. PICK h \in [SUBSET S -> Nat] : Sums(h, f, S)
  BY SumsExist
<1>2. \A T \in SUBSET S : SumFunctionOnSet(f, T) = h[T]
  <2> TAKE T \in SUBSET S
  <2>1. IsFiniteSet(T) /\ (\A x \in T : f[x] \in Nat)
    BY FS_Subset
  <2>2. Sums(h, f, T)
    BY <1>1 DEF Sums
  <2> QED
    BY <2>1, <2>2, SumUnfolds
<1>3. h[{}] = 0
  BY <1>1 DEF Sums
<1> DEFINE I == {T \in SUBSET S : \A x \in T : h[T] = f[x] + h[T \ {x}]}
<1>4. \A T \in SUBSET S : (\A U \in SUBSET T : U # T => U \in I) => T \in I
  <2> SUFFICES ASSUME NEW T \in SUBSET S, \A U \in SUBSET T : U # T => U \in I, NEW x \in T
               PROVE  h[T] = f[x] + h[T \ {x}]
    OBVIOUS
  <2> DEFINE c == CHOOSE y \in T : TRUE
  <2>1. c \in T /\ h[T] = f[c] + h[T \ {c}]
    BY <1>1 DEF Sums
  <2> HIDE DEF c
  <2>2. CASE x # c
    <3>1. T \ {c} \in I /\ T \ {x} \in I
      BY <2>1
    <3>2. h[T \ {c}] = f[x] + h[(T \ {c}) \ {x}] /\ h[T \ {x}] = f[c] + h[(T \ {x}) \ {c}]
      BY <2>1, <2>2, <3>1
    <3> DEFINE rest == (T \ {x}) \ {c}
    <3>3. (T \ {c}) \ {x} = rest /\ rest \in SUBSET S
      OBVIOUS
    <3>4. f[x] \in Nat /\ f[c] \in Nat /\ h[rest] \in Nat
      BY <1>1, <2>1, <3>3
    <3>5. h[T] = f[c] + (f[x] + h[rest]) /\ h[T \ {x}] = f[c] + h[rest]
      BY <2>1, <3>2, <3>3
    <3>6. f[c] + (f[x] + h[rest]) = f[x] + (f[c] + h[rest])
      BY <3>4
    <3> QED
      BY <3>5, <3>6
  <2> QED
    BY <2>1, <2>2
<1>5. S \in I
  <2> HIDE DEF I
  <2>1. \A T \in SUBSET S : T \in I
    BY <1>4, SmallerSets
  <2> QED
    BY <2>1
<1>6. \A x \in S : S \ {x} \in SUBSET S
  OBVIOUS
<1> QED
  BY <1>1, <1>2, <1>3, <1>5, <1>6

\* Larger terms give a larger sum.
LEMMA SumMonotone ==
    ASSUME NEW S, IsFiniteSet(S), NEW f, NEW g,
           \A x \in S : f[x] \in Nat, \A x \in S : g[x] \in Nat,
           \A x \in S : f[x] <= g[x]
    PROVE  SumFunctionOnSet(f, S) <= SumFunctionOnSet(g, S)
<1> DEFINE F(T) == SumFunctionOnSet(f, T)
           G(T) == SumFunctionOnSet(g, T)
           I == {T \in SUBSET S : F(T) <= G(T)}
<1>1. \A T \in SUBSET S : /\ F(T) \in Nat /\ F({}) = 0
                          /\ \A x \in T : F(T) = f[x] + F(T \ {x})
  BY FS_Subset, SumRemove
<1>2. \A T \in SUBSET S : /\ G(T) \in Nat /\ G({}) = 0
                          /\ \A x \in T : G(T) = g[x] + G(T \ {x})
  BY FS_Subset, SumRemove
<1> HIDE DEF F, G
<1>3. {} \in I
  BY <1>1, <1>2
<1>4. \A T \in SUBSET S : \A x \in S \ T : T \in I => T \cup {x} \in I
  <2> SUFFICES ASSUME NEW T \in SUBSET S, NEW x \in S \ T, F(T) <= G(T)
               PROVE  F(T \cup {x}) <= G(T \cup {x})
    OBVIOUS
  <2>1. T \cup {x} \in SUBSET S /\ (T \cup {x}) \ {x} = T
    OBVIOUS
  <2>2. F(T \cup {x}) = f[x] + F(T) /\ G(T \cup {x}) = g[x] + G(T)
    BY <1>1, <1>2, <2>1
  <2>3. f[x] \in Nat /\ g[x] \in Nat /\ f[x] <= g[x] /\ F(T) \in Nat /\ G(T) \in Nat
    BY <1>1, <1>2
  <2> QED
    BY <2>2, <2>3
<1>5. S \in I
  <2> HIDE DEF I
  <2> QED
    BY <1>3, <1>4, SetInduction
<1> QED
  BY <1>5 DEF F, G

\* Naturals summed over a larger set give a larger sum.
LEMMA SumLarger ==
    ASSUME NEW S, IsFiniteSet(S), NEW T \in SUBSET S, NEW f, \A x \in S : f[x] \in Nat
    PROVE  SumFunctionOnSet(f, T) <= SumFunctionOnSet(f, S)
<1> DEFINE F(U) == SumFunctionOnSet(f, U)
           I == {U \in SUBSET (S \ T) : F(T) <= F(T \cup U)}
<1>1. \A U \in SUBSET S : F(U) \in Nat /\ \A x \in U : F(U) = f[x] + F(U \ {x})
  BY FS_Subset, SumRemove
<1> HIDE DEF F
<1>2. {} \in I
  <2>1. T \cup {} = T
    OBVIOUS
  <2> QED
    BY <1>1, <2>1
<1>3. \A U \in SUBSET (S \ T) : \A x \in (S \ T) \ U : U \in I => U \cup {x} \in I
  <2> SUFFICES ASSUME NEW U \in SUBSET (S \ T), NEW x \in (S \ T) \ U, F(T) <= F(T \cup U)
               PROVE  F(T) <= F(T \cup (U \cup {x}))
    OBVIOUS
  <2> DEFINE V == T \cup (U \cup {x})
  <2>1. V \in SUBSET S /\ V \ {x} = T \cup U /\ x \in V
    OBVIOUS
  <2>2. F(V) = f[x] + F(T \cup U)
    BY <1>1, <2>1
  <2>3. f[x] \in Nat /\ F(T) \in Nat /\ F(T \cup U) \in Nat /\ F(V) \in Nat
    BY <1>1, <2>1
  <2> HIDE DEF V
  <2>4. F(T) <= F(V)
    BY <2>2, <2>3
  <2> QED
    BY <2>4 DEF V
<1>4. S \ T \in I
  <2> HIDE DEF I
  <2>1. IsFiniteSet(S \ T)
    BY FS_Difference
  <2> QED
    BY <1>2, <1>3, <2>1, SetInduction
<1>5. T \cup (S \ T) = S
  OBVIOUS
<1> QED
  BY <1>4, <1>5 DEF F

\* A sum that has every term of another, none of them smaller, and either one
\* term more or one larger term, exceeds it: what fusion's scores rest on.
LEMMA SumDominates ==
    ASSUME NEW S, IsFiniteSet(S), NEW T \in SUBSET S, NEW f, NEW g,
           \A x \in T : f[x] \in Nat, \A x \in S : g[x] \in Nat \ {0},
           \A x \in T : f[x] <= g[x],
           \/ T # S
           \/ \E x \in T : f[x] < g[x]
    PROVE  SumFunctionOnSet(f, T) < SumFunctionOnSet(g, S)
<1> DEFINE F(U) == SumFunctionOnSet(f, U)
           G(U) == SumFunctionOnSet(g, U)
<1>1. \A U \in SUBSET T : /\ IsFiniteSet(U) /\ F(U) \in Nat
                          /\ \A x \in U : F(U) = f[x] + F(U \ {x})
  BY FS_Subset, SumRemove
<1>2. \A U \in SUBSET S : /\ IsFiniteSet(U) /\ G(U) \in Nat
                          /\ \A x \in U : G(U) = g[x] + G(U \ {x})
  BY FS_Subset, SumRemove
<1>3. \A U \in SUBSET T : F(U) <= G(U)
  BY <1>1, SumMonotone
<1>4. \A U, V \in SUBSET S : U \subseteq V => G(U) <= G(V)
  BY <1>2, SumLarger
<1> HIDE DEF F, G
<1>5. CASE T # S
  <2>1. PICK x \in S : x \notin T
    BY <1>5
  <2>2. G(S) = g[x] + G(S \ {x}) /\ G(T) <= G(S \ {x}) /\ F(T) <= G(T)
    BY <1>2, <1>3, <1>4, <2>1
  <2>3. g[x] \in Nat \ {0} /\ F(T) \in Nat /\ G(T) \in Nat /\ G(S \ {x}) \in Nat /\ G(S) \in Nat
    BY <1>1, <1>2
  <2>4. F(T) < G(S)
    BY <2>2, <2>3
  <2> QED
    BY <2>4 DEF F, G
<1>6. ASSUME NEW x \in T, f[x] < g[x] PROVE F(T) < G(S)
  <2>1. F(T) = f[x] + F(T \ {x}) /\ G(S) = g[x] + G(S \ {x})
    BY <1>1, <1>2
  <2>2. F(T \ {x}) <= G(T \ {x}) /\ G(T \ {x}) <= G(S \ {x})
    <3>1. T \ {x} \in SUBSET T /\ T \ {x} \in SUBSET S /\ S \ {x} \in SUBSET S
          /\ T \ {x} \subseteq S \ {x}
      OBVIOUS
    <3> QED
      BY <1>3, <1>4, <3>1
  <2>3. /\ f[x] \in Nat /\ g[x] \in Nat /\ F(T \ {x}) \in Nat
        /\ G(T \ {x}) \in Nat /\ G(S \ {x}) \in Nat
    BY <1>1, <1>2
  <2> QED
    BY <1>6, <2>1, <2>2, <2>3
<1> QED
  BY <1>5, <1>6 DEF F, G

\* A product of positive naturals is positive and a multiple of each of them.
LEMMA ProductDivides ==
    ASSUME NEW S, IsFiniteSet(S), S \subseteq Nat \ {0}
    PROVE  /\ ProductSet(S) \in Nat \ {0}
           /\ \A x \in S : \E q \in Nat \ {0} : ProductSet(S) = x * q
<1> DEFINE V == Nat
           pick == [T \in SUBSET S |-> CHOOSE x \in T : TRUE]
           F == [x \in S |-> [v \in V |-> x * v]]
           Body(g) == [T \in SUBSET S |->
                         IF T = {} THEN 1 ELSE (CHOOSE x \in T : TRUE) * g[T \ {CHOOSE x \in T : TRUE}]]
           iter == CHOOSE g : g = Body(g)
<1>1. \A T \in SUBSET S : T # {} => (CHOOSE x \in T : TRUE) \in T /\ pick[T] = CHOOSE x \in T : TRUE
  OBVIOUS
<1>2. PICK w \in [SUBSET S -> V] : IsFold(w, S, 1, F, pick)
  <2>1. F \in [S -> [V -> V]] /\ 1 \in V
    OBVIOUS
  <2>2. \A T \in SUBSET S : T # {} => pick[T] \in T
    BY <1>1
  <2> DEFINE one == 1
  <2> HIDE DEF F, pick, V, one
  <2>3. one \in V /\ F \in [S -> [V -> V]]
    BY <2>1 DEF one
  <2>4. Foldable(S, V, one, F, pick)
    BY <2>2, <2>3 DEF Foldable
  <2>5. \E w \in [SUBSET S -> V] : IsFold(w, S, one, F, pick)
    BY <2>4, FoldExists
  <2> QED
    BY <2>5 DEF one
<1>3. w = Body(w)
  <2>1. ASSUME NEW T \in SUBSET S PROVE w[T] = Body(w)[T]
    <3>1. CASE T = {}
      BY <1>2, <3>1 DEF IsFold
    <3>2. CASE T # {}
      <4>1. pick[T] \in S /\ T \ {pick[T]} \in SUBSET S
         BY <1>1, <3>2
      <4>2. F[pick[T]][w[T \ {pick[T]}]] = pick[T] * w[T \ {pick[T]}]
         BY <4>1
      <4> QED
        BY <1>1, <1>2, <3>2, <4>2 DEF IsFold
    <3> QED
      BY <3>1, <3>2
  <2> QED
    BY <2>1
<1>4. iter = Body(iter)
  <2> HIDE DEF Body
  <2> QED
    BY <1>3
<1>5. ProductSet(S) = iter[S]
  BY DEF ProductSet, FoldSet, MapThenFoldSet
<1> DEFINE I == {T \in SUBSET S : /\ iter[T] \in Nat \ {0}
                                  /\ \A x \in T : \E q \in Nat \ {0} : iter[T] = x * q}
<1>6. \A T \in SUBSET S : (\A U \in SUBSET T : U # T => U \in I) => T \in I
  <2> SUFFICES ASSUME NEW T \in SUBSET S, \A U \in SUBSET T : U # T => U \in I
               PROVE  /\ iter[T] \in Nat \ {0}
                      /\ \A x \in T : \E q \in Nat \ {0} : iter[T] = x * q
    OBVIOUS
  <2>1. CASE T = {}
    <3> HIDE DEF iter
    <3>1. iter[T] = 1
      BY <1>4, <2>1
    <3> QED
      BY <2>1, <3>1
  <2>2. CASE T # {}
    <3> DEFINE c == CHOOSE x \in T : TRUE
               rest == iter[T \ {c}]
    <3>1. iter[T] = c * rest
      <4> HIDE DEF iter
      <4> QED
        BY <1>4, <2>2
    <3>2. c \in T /\ c \in Nat \ {0}
      BY <2>2
    <3>3. T \ {c} \in I
      <4> HIDE DEF I, c
      <4> QED
        BY <3>2
    <3>4. rest \in Nat \ {0} /\ \A x \in T \ {c} : \E q \in Nat \ {0} : rest = x * q
      BY <3>3
    <3> HIDE DEF c, rest, iter
    <3>5. \A m, n \in Nat \ {0} : m * n \in Nat \ {0}
      <4> SUFFICES ASSUME NEW m \in Nat \ {0}, NEW n \in Nat \ {0} PROVE m * n \in Nat \ {0}
        OBVIOUS
      <4>1. m * n = (m - 1) * n + n /\ (m - 1) * n \in Nat
        OBVIOUS
      <4> QED
        BY <4>1
    <3>6. iter[T] \in Nat \ {0}
      BY <3>1, <3>2, <3>4, <3>5
    <3>7. ASSUME NEW x \in T PROVE \E q \in Nat \ {0} : iter[T] = x * q
      <4>1. CASE x = c
        BY <3>1, <3>4, <4>1
      <4>2. CASE x # c
        <5>1. PICK q \in Nat \ {0} : rest = x * q
          BY <3>4, <4>2
        <5>2. c * q \in Nat \ {0}
          BY <3>2, <3>5
        <5>3. c * (x * q) = x * (c * q)
          BY <3>2
        <5> QED
          BY <3>1, <5>1, <5>2, <5>3
      <4> QED
        BY <4>1, <4>2
    <3> QED
      BY <3>6, <3>7
  <2> QED
    BY <2>1, <2>2
<1>7. S \in I
  <2> HIDE DEF I
  <2>1. \A T \in SUBSET S : T \in I
    BY <1>6, SmallerSets
  <2> QED
    BY <2>1
<1> HIDE DEF iter
<1> QED
  BY <1>5, <1>7

\* R is a strict total order on S.
StrictOrder(R, S) ==
    /\ \A c \in S : <<c, c>> \notin R
    /\ \A c, d \in S : c # d => <<c, d>> \in R \/ <<d, c>> \in R
    /\ \A c, d, e \in S : <<c, d>> \in R /\ <<d, e>> \in R => <<c, e>> \in R

\* The elements of S that come before c.
Ahead(R, S, c) == {d \in S : <<d, c>> \in R}

\* The elements of a strictly ordered finite set are ahead of each other as
\* their numbers of predecessors say, which are 0 up to the set's size less one.
LEMMA AheadCounts ==
    ASSUME NEW S, IsFiniteSet(S), NEW R, StrictOrder(R, S)
    PROVE  /\ Cardinality(S) \in Nat
           /\ \A c \in S : Cardinality(Ahead(R, S, c)) \in 0 .. Cardinality(S) - 1
           /\ \A c, d \in S : <<c, d>> \in R <=>
                  Cardinality(Ahead(R, S, c)) < Cardinality(Ahead(R, S, d))
           /\ \A i \in 1 .. Cardinality(S) : \E c \in S : Cardinality(Ahead(R, S, c)) = i - 1
<1> DEFINE A(c) == Ahead(R, S, c)
           n == Cardinality(S)
           place == [c \in S |-> Cardinality(A(c))]
<1>1. \A c \in S : A(c) \in SUBSET S /\ IsFiniteSet(A(c)) /\ Cardinality(A(c)) \in Nat
  BY FS_Subset, FS_CardinalityType DEF Ahead
<1>2. n \in Nat
  BY FS_CardinalityType
<1>3. \A c, d \in S : <<c, d>> \in R => Cardinality(A(c)) < Cardinality(A(d))
  <2> SUFFICES ASSUME NEW c \in S, NEW d \in S, <<c, d>> \in R
               PROVE  Cardinality(A(c)) < Cardinality(A(d))
    OBVIOUS
  <2>1. A(c) \in SUBSET A(d) /\ c \in A(d) /\ c \notin A(c)
    BY DEF Ahead, StrictOrder
  <2>2. Cardinality(A(c)) <= Cardinality(A(d)) /\ Cardinality(A(d)) # Cardinality(A(c))
    <3> HIDE DEF A
    <3> QED
      BY <1>1, <2>1, FS_Subset
  <2> QED
    BY <1>1, <2>2
<1>4. \A c \in S : Cardinality(A(c)) \in 0 .. n - 1
  <2> TAKE c \in S
  <2>1. A(c) \in SUBSET S /\ c \notin A(c)
    BY DEF Ahead, StrictOrder
  <2>2. Cardinality(A(c)) <= n /\ n # Cardinality(A(c))
    <3> HIDE DEF A
    <3> QED
      BY <2>1, FS_Subset
  <2> QED
    BY <1>1, <1>2, <2>2
<1>5. \A c, d \in S : <<c, d>> \in R <=> Cardinality(A(c)) < Cardinality(A(d))
  <2> SUFFICES ASSUME NEW c \in S, NEW d \in S, Cardinality(A(c)) < Cardinality(A(d))
               PROVE  <<c, d>> \in R
    BY <1>3
  <2>1. c # d
    BY <1>1
  <2>2. <<d, c>> \notin R
    BY <1>1, <1>3
  <2> QED
    BY <2>1, <2>2 DEF StrictOrder
<1>6. place \in Injection(S, 0 .. n - 1)
  <2>1. place \in [S -> 0 .. n - 1]
    BY <1>4
  <2>2. ASSUME NEW c \in S, NEW d \in S, place[c] = place[d] PROVE c = d
    <3>1. Cardinality(A(c)) = Cardinality(A(d))
      BY <2>2
    <3>2. <<c, d>> \notin R /\ <<d, c>> \notin R
      <4> HIDE DEF A
      <4> QED
        BY <1>1, <1>3, <3>1
    <3> QED
      BY <3>2 DEF StrictOrder
  <2> QED
    BY <2>1, <2>2 DEF Injection, IsInjective
<1>7. IsFiniteSet(0 .. n - 1) /\ Cardinality(0 .. n - 1) = n
  BY <1>2, FS_Interval
<1>8. place \in Surjection(S, 0 .. n - 1)
  <2> HIDE DEF place
  <2> QED
    BY <1>6, <1>7, FS_Injection
<1>9. \A i \in 1 .. n : \E c \in S : Cardinality(A(c)) = i - 1
  <2> TAKE i \in 1 .. n
  <2>1. i - 1 \in 0 .. n - 1
    BY <1>2
  <2> QED
    BY <1>8, <2>1 DEF Surjection
<1> QED
  BY <1>2, <1>4, <1>5, <1>9

\* A sequence whose i-th element has i - 1 predecessors is the ordered set,
\* each element once.
LEMMA SortedBy ==
    ASSUME NEW S, IsFiniteSet(S), NEW R, StrictOrder(R, S), NEW s,
           \A i \in 1 .. Cardinality(S) : s[i] \in S /\ Cardinality(Ahead(R, S, s[i])) = i - 1
    PROVE  /\ \A i, j \in 1 .. Cardinality(S) : <<s[i], s[j]>> \in R <=> i < j
           /\ \A i, j \in 1 .. Cardinality(S) : s[i] = s[j] => i = j
           /\ \A c \in S : \E i \in 1 .. Cardinality(S) : s[i] = c
<1>1. Cardinality(S) \in Nat
  BY AheadCounts
<1>2. \A i, j \in 1 .. Cardinality(S) : <<s[i], s[j]>> \in R <=> i < j
  <2> TAKE i, j \in 1 .. Cardinality(S)
  <2>1. <<s[i], s[j]>> \in R <=> Cardinality(Ahead(R, S, s[i])) < Cardinality(Ahead(R, S, s[j]))
    BY AheadCounts
  <2> QED
    BY <1>1, <2>1
<1>3. \A i, j \in 1 .. Cardinality(S) : s[i] = s[j] => i = j
  BY <1>1
<1>4. ASSUME NEW c \in S PROVE \E i \in 1 .. Cardinality(S) : s[i] = c
  <2> DEFINE i == Cardinality(Ahead(R, S, c)) + 1
  <2>1. i \in 1 .. Cardinality(S)
    BY <1>1, AheadCounts
  <2>2. s[i] \in S /\ Cardinality(Ahead(R, S, s[i])) = Cardinality(Ahead(R, S, c))
    <3>1. Cardinality(Ahead(R, S, c)) \in 0 .. Cardinality(S) - 1
      BY AheadCounts
    <3> QED
      BY <1>1, <2>1, <3>1
  <2>3. <<s[i], c>> \notin R /\ <<c, s[i]>> \notin R
    <3>1. Cardinality(Ahead(R, S, c)) \in Nat
      BY <1>1, AheadCounts
    <3> HIDE DEF i
    <3> QED
      BY <2>2, <3>1, AheadCounts
  <2> QED
    BY <2>1, <2>2, <2>3 DEF StrictOrder
<1> QED
  BY <1>2, <1>3, <1>4

\* Sequences joined by the library are a sequence of their elements.
LEMMA FlattenIsSeq ==
    ASSUME NEW X, NEW seqs \in Seq(Seq(X))
    PROVE  FlattenSeq(seqs) \in Seq(X)
<1> DEFINE n == Len(seqs)
           SX == Seq(X)
           Body(g) == [i \in 1 .. n |-> IF i = 1 THEN seqs[i] ELSE g[i - 1] \o seqs[i]]
           flatten == CHOOSE g : g = Body(g)
           Upto(g, m) == /\ g \in [1 .. m -> SX]
                         /\ \A i \in 1 .. m : g[i] = IF i = 1 THEN seqs[i] ELSE g[i - 1] \o seqs[i]
           I == {m \in Nat : m <= n => \E g : Upto(g, m)}
<1>1. n \in Nat /\ \A i \in 1 .. n : seqs[i] \in SX
  <2> DEFINE Y == SX
  <2>1. seqs \in Seq(Y)
    OBVIOUS
  <2> HIDE DEF Y
  <2>2. Len(seqs) \in Nat /\ \A i \in 1 .. Len(seqs) : seqs[i] \in Y
    BY <2>1
  <2> QED
    BY <2>2 DEF Y
<1>2. \A s, t \in SX : s \o t \in SX
  OBVIOUS
<1> HIDE DEF n, SX
<1>3. 0 \in I
  <2>1. Upto([i \in 1 .. 0 |-> seqs[i]], 0)
    OBVIOUS
  <2> QED
    BY <2>1
<1>4. \A m \in Nat : m \in I => m + 1 \in I
  <2> SUFFICES ASSUME NEW m \in Nat, m \in I, m + 1 <= n PROVE \E g : Upto(g, m + 1)
    <3> HIDE DEF Upto
    <3> QED
      OBVIOUS
  <2>0. m <= n /\ \E g : Upto(g, m)
    <3> HIDE DEF Upto
    <3>1. m <= n
      BY <1>1
    <3> QED
      BY <3>1
  <2>1. PICK g : Upto(g, m)
    BY <2>0
  <2> DEFINE h == [i \in 1 .. m + 1 |->
                     IF i = 1 THEN seqs[i] ELSE g[i - 1] \o seqs[i]]
  <2>2. \A i \in 1 .. m + 1 : i # 1 => i - 1 \in 1 .. m
    OBVIOUS
  <2>3. \A i \in 1 .. m : h[i] = g[i]
    <3> TAKE i \in 1 .. m
    <3>1. i \in 1 .. m + 1
      OBVIOUS
    <3>2. g[i] = IF i = 1 THEN seqs[i] ELSE g[i - 1] \o seqs[i]
      BY <2>1
    <3>3. h[i] = IF i = 1 THEN seqs[i] ELSE g[i - 1] \o seqs[i]
      BY <3>1
    <3> QED
      BY <3>2, <3>3
  <2>4. \A i \in 1 .. m + 1 : h[i] \in SX
    <3> TAKE i \in 1 .. m + 1
    <3>1. i \in 1 .. n /\ seqs[i] \in SX
      BY <1>1
    <3>2. i # 1 => g[i - 1] \in SX
      BY <2>1, <2>2
    <3> QED
      BY <1>2, <3>1, <3>2
  <2>5. Upto(h, m + 1)
    BY <2>2, <2>3, <2>4
  <2> QED
    BY <2>5
<1>5. n \in I
  <2> HIDE DEF I
  <2> QED
    BY <1>1, <1>3, <1>4, NatInductionSet
<1>6. PICK g : Upto(g, n)
  BY <1>1, <1>5
<1>7. g = Body(g)
  BY <1>6
<1>8. flatten = Body(flatten)
  <2> HIDE DEF Body
  <2> QED
    BY <1>7
<1>9. \A i \in Nat : i \in 1 .. n => flatten[i] \in SX
  <2> DEFINE J == {i \in Nat : i \in 1 .. n => flatten[i] \in SX}
  <2> HIDE DEF flatten
  <2>1. 0 \in J
    OBVIOUS
  <2>2. \A i \in Nat : i \in J => i + 1 \in J
    <3> SUFFICES ASSUME NEW i \in Nat, i \in J, i + 1 \in 1 .. n PROVE flatten[i + 1] \in SX
      OBVIOUS
    <3>1. flatten[i + 1] = IF i + 1 = 1 THEN seqs[i + 1] ELSE flatten[(i + 1) - 1] \o seqs[i + 1]
      BY <1>8
    <3>2. i # 0 => flatten[(i + 1) - 1] \in SX
      <4>1. i # 0 => i \in 1 .. n /\ (i + 1) - 1 = i
        BY <1>1
      <4> QED
        BY <4>1
    <3>3. seqs[i + 1] \in SX
      BY <1>1
    <3> QED
      BY <1>2, <3>1, <3>2, <3>3
  <2> HIDE DEF J
  <2>3. \A i \in Nat : i \in J
    BY <2>1, <2>2, NatInductionSet
  <2> QED
    BY <2>3 DEF J
<1>10. CASE n = 0
  <2>1. seqs = <<>>
    BY <1>10 DEF n
  <2>2. FlattenSeq(seqs) = seqs
    BY <1>10 DEF FlattenSeq, n
  <2>3. <<>> \in Seq(X)
    OBVIOUS
  <2> QED
    BY <2>1, <2>2, <2>3
<1>11. CASE n # 0
  <2>1. FlattenSeq(seqs) = flatten[n]
    BY <1>11 DEF FlattenSeq, n
  <2> HIDE DEF flatten
  <2>2. flatten[n] \in SX
    BY <1>1, <1>9, <1>11
  <2> QED
    BY <2>1, <2>2 DEF SX
<1> QED
  BY <1>10, <1>11

\* The folds of sequences pick the last position first; there is one.
LEMMA LastPosition ==
    ASSUME NEW n \in Nat
    PROVE  /\ IsFiniteSet(1 .. n)
           /\ \A T \in SUBSET (1 .. n) : T # {} => Max(T) \in T
<1>1. IsFiniteSet(1 .. n)
  BY FS_Interval
<1>2. ASSUME NEW T \in SUBSET (1 .. n), T # {} PROVE Max(T) \in T
  <2>1. IsFiniteSet(T) /\ T \subseteq Int
    <3> DEFINE D == 1 .. n
    <3>1. IsFiniteSet(D) /\ T \subseteq D /\ D \subseteq Int
      BY <1>1
    <3> HIDE DEF D
    <3> QED
      BY <3>1, FS_Subset
  <2> QED
    BY <1>2, <2>1, Extremes
<1> QED
  BY <1>1, <1>2

\* Every place has its element.
Filled(place, S) == \A i \in 1 .. Cardinality(S) : \E p \in S : place[p] = i

\* The elements of a finite set by a key that tells them apart: how many there
\* are up to each is its place in the order of the keys, and every place is taken.
LEMMA PlacesInOrder ==
    ASSUME NEW S, IsFiniteSet(S), NEW key \in [S -> Int],
           \A p, q \in S : key[p] = key[q] => p = q,
           NEW place, place = [p \in S |-> Cardinality({q \in S : key[q] <= key[p]})]
    PROVE  /\ Cardinality(S) \in Nat
           /\ \A p \in S : place[p] \in 1 .. Cardinality(S)
           /\ Filled(place, S)
           /\ \A p, q \in S : place[p] < place[q] <=> key[p] < key[q]
<1>. DEFINE n == Cardinality(S)
            R == {x \in S \X S : key[x[1]] < key[x[2]]}
            Upto(p) == {q \in S : key[q] <= key[p]}
            A(p) == Cardinality(Ahead(R, S, p))
<1>1. \A p, q \in S : <<p, q>> \in R <=> key[p] < key[q]
  OBVIOUS
<1>. HIDE DEF R
<1>2. StrictOrder(R, S)
  <2>1. \A c, d, e \in S : /\ ~(key[c] < key[c])
                           /\ (c # d => key[c] < key[d] \/ key[d] < key[c])
                           /\ (key[c] < key[d] /\ key[d] < key[e] => key[c] < key[e])
    <3>. SUFFICES ASSUME NEW c \in S, NEW d \in S, NEW e \in S
                  PROVE  /\ ~(key[c] < key[c])
                         /\ (c # d => key[c] < key[d] \/ key[d] < key[c])
                         /\ (key[c] < key[d] /\ key[d] < key[e] => key[c] < key[e])
      OBVIOUS
    <3>1. key[c] \in Int /\ key[d] \in Int /\ key[e] \in Int /\ (c # d => key[c] # key[d])
      OBVIOUS
    <3>. QED
      BY <3>1
  <2>. QED
    BY <1>1, <2>1 DEF StrictOrder
<1>3. /\ n \in Nat
      /\ \A p \in S : A(p) \in 0 .. n - 1
      /\ \A p, q \in S : <<p, q>> \in R <=> A(p) < A(q)
      /\ \A i \in 1 .. n : \E p \in S : A(p) = i - 1
  BY <1>2, AheadCounts
<1>4. ASSUME NEW p \in S
      PROVE  Cardinality(Upto(p)) = A(p) + 1
  <2>1. Upto(p) = Ahead(R, S, p) \cup {p} /\ p \notin Ahead(R, S, p)
    <3>1. \A q \in S : key[q] <= key[p] <=> key[q] < key[p] \/ q = p
      <4>. SUFFICES ASSUME NEW q \in S PROVE key[q] <= key[p] <=> key[q] < key[p] \/ q = p
        OBVIOUS
      <4>1. key[q] \in Int /\ key[p] \in Int /\ (key[q] = key[p] <=> q = p)
        OBVIOUS
      <4>. QED
        BY <4>1
    <3>2. <<p, p>> \notin R
      BY <1>2 DEF StrictOrder
    <3>. QED
      BY <1>1, <3>1, <3>2 DEF Ahead
  <2>. HIDE DEF Upto
  <2>2. IsFiniteSet(Ahead(R, S, p))
    BY FS_Subset DEF Ahead
  <2>. QED
    BY <2>1, <2>2, FS_AddElement
<1>. HIDE DEF n, A
<1>5. \A p \in S : place[p] = A(p) + 1
  BY <1>4
<1>6. ASSUME NEW p \in S PROVE place[p] \in 1 .. n
  <2>1. A(p) \in 0 .. n - 1
    BY <1>3
  <2>. QED
    BY <1>3, <1>5, <2>1
<1>7. ASSUME NEW i \in 1 .. n PROVE \E p \in S : place[p] = i
  <2>1. PICK p \in S : A(p) = i - 1
    BY <1>3
  <2>2. place[p] = (i - 1) + 1
    BY <1>5, <2>1
  <2>. QED
    BY <2>2
<1>8. ASSUME NEW p \in S, NEW q \in S PROVE place[p] < place[q] <=> key[p] < key[q]
  <2>1. A(p) \in Int /\ A(q) \in Int
    BY <1>3
  <2>2. place[p] < place[q] <=> A(p) < A(q)
    BY <1>5, <2>1
  <2>. QED
    BY <1>1, <1>3, <2>2
<1>. QED
  BY <1>3, <1>6, <1>7, <1>8 DEF n, Filled
=============================================================================
