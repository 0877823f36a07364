---------------------------- MODULE FusionProofs ----------------------------
(***************************************************************************)
(* What reciprocal rank fusion gives for any ranked lists: the lemmas on   *)
(* Fusion that the proofs about the query path and about multi-query       *)
(* retrieval rest on.                                                      *)
(***************************************************************************)
EXTENDS Fusion, FoldProofs

\* A ranked list: distinct items, best first; and lists of which each is one.
Distinct(list) ==
    /\ Len(list) \in Nat
    /\ \A i, j \in 1 .. Len(list) : list[i] = list[j] => i = j

RankedLists(lists) ==
    /\ Len(lists) \in Nat
    /\ \A i \in 1 .. Len(lists) : Distinct(lists[i])

\* The rank of an item is its position.
LEMMA RankIs ==
    ASSUME NEW list, Distinct(list)
    PROVE  /\ \A i \in 1 .. Len(list) : list[i] \in Items(list) /\ Rank(list, list[i]) = i
           /\ \A c \in Items(list) : /\ Rank(list, c) \in 1 .. Len(list)
                                     /\ list[Rank(list, c)] = c
<1>1. ASSUME NEW i \in 1 .. Len(list) PROVE Rank(list, list[i]) = i
  BY DEF Rank, Distinct
<1>2. \A c \in Items(list) : \E i \in 1 .. Len(list) : list[i] = c
  BY DEF Items
<1>3. \A i \in 1 .. Len(list) : list[i] \in Items(list)
  BY DEF Items
<1> QED
  BY <1>1, <1>2, <1>3

\* It has as many items as its length says.
LEMMA ItemsCounted ==
    ASSUME NEW list, Distinct(list)
    PROVE  IsFiniteSet(Items(list)) /\ Cardinality(Items(list)) = Len(list)
<1> DEFINE g == [i \in 1 .. Len(list) |-> list[i]]
<1>1. Len(list) \in Nat
  BY DEF Distinct
<1>2. IsFiniteSet(1 .. Len(list)) /\ Cardinality(1 .. Len(list)) = Len(list)
  <2> DEFINE n == Len(list)
  <2> HIDE DEF n
  <2>1. n \in Nat
    BY <1>1 DEF n
  <2>2. IsFiniteSet(1 .. n) /\ Cardinality(1 .. n) = n
    BY <2>1, FS_Interval
  <2> QED
    BY <2>2 DEF n
<1>3. g \in Bijection(1 .. Len(list), Items(list))
  BY DEF Distinct, Items, Bijection, Injection, IsInjective, Surjection
<1>4. ExistsBijection(1 .. Len(list), Items(list))
  BY <1>3 DEF ExistsBijection
<1> QED
  BY <1>2, <1>4, FS_Bijection

\* What the lists have is finite; an item is found if some list has it.
LEMMA FoundFinite ==
    ASSUME NEW lists, RankedLists(lists)
    PROVE  /\ IsFiniteSet(Found(lists))
           /\ \A c : /\ IsFiniteSet(Has(lists, c))
                     /\ Has(lists, c) \subseteq 1 .. Len(lists)
                     /\ c \in Found(lists) <=> Has(lists, c) # {}
<1> DEFINE f == [i \in 1 .. Len(lists) |-> Items(lists[i])]
           images == {f[i] : i \in 1 .. Len(lists)}
<1>1. IsFiniteSet(1 .. Len(lists))
  BY FS_Interval DEF RankedLists
<1>2. IsFiniteSet(images)
  <2> HIDE DEF f
  <2> QED
    BY <1>1, FiniteRange
<1>3. \A T \in images : IsFiniteSet(T)
  BY ItemsCounted DEF RankedLists
<1>4. Found(lists) = UNION images
  BY DEF Found
<1>5. IsFiniteSet(UNION images)
  <2> HIDE DEF images
  <2> QED
    BY <1>2, <1>3, FS_UNION
<1>6. \A c : Has(lists, c) \subseteq 1 .. Len(lists) /\ (c \in Found(lists) <=> Has(lists, c) # {})
  BY DEF Has, Found
<1>7. \A c : IsFiniteSet(Has(lists, c))
  BY <1>1, <1>6, FS_Subset
<1> QED
  BY <1>4, <1>5, <1>6, <1>7

\* No rank exceeds the longest list.
LEMMA RankBounded ==
    ASSUME NEW lists, RankedLists(lists), NEW c, NEW i \in Has(lists, c)
    PROVE  /\ i \in 1 .. Len(lists) /\ Distinct(lists[i]) /\ c \in Items(lists[i])
           /\ Longest(lists) \in Nat
           /\ Rank(lists[i], c) \in 1 .. Longest(lists)
<1> DEFINE f == [j \in 1 .. Len(lists) |-> Len(lists[j])]
           lens == {f[j] : j \in 1 .. Len(lists)}
<1>1. i \in 1 .. Len(lists) /\ c \in Items(lists[i]) /\ Distinct(lists[i])
  BY DEF Has, RankedLists
<1>2. Len(lists) \in Nat /\ \A j \in 1 .. Len(lists) : f[j] \in Nat
  BY DEF RankedLists, Distinct
<1>3. IsFiniteSet(lens)
  <2>1. IsFiniteSet(1 .. Len(lists))
    BY <1>2, FS_Interval
  <2> HIDE DEF f
  <2> QED
    BY <2>1, FiniteRange
<1>4. lens \subseteq Nat /\ lens # {} /\ Len(lists[i]) \in lens
  BY <1>1, <1>2
<1>5. Longest(lists) = Max(lens)
  BY DEF Longest
<1>6. Max(lens) \in Nat /\ Len(lists[i]) <= Max(lens)
  <2>1. lens \subseteq Int
    BY <1>4
  <2> HIDE DEF lens
  <2> QED
    BY <1>3, <1>4, <2>1, Extremes
<1>7. Rank(lists[i], c) \in 1 .. Len(lists[i]) /\ Len(lists[i]) \in Nat
  BY <1>1, RankIs DEF Distinct
<1> QED
  BY <1>1, <1>5, <1>6, <1>7

\* A bound on the lengths of the lists bounds the longest.
LEMMA LongestBounded ==
    ASSUME NEW lists, RankedLists(lists), NEW c \in Found(lists), NEW n \in Nat,
           \A i \in 1 .. Len(lists) : Len(lists[i]) <= n
    PROVE  Longest(lists) <= n
<1> DEFINE f == [j \in 1 .. Len(lists) |-> Len(lists[j])]
           lens == {f[j] : j \in 1 .. Len(lists)}
<1>1. Len(lists) \in Nat /\ \A j \in 1 .. Len(lists) : f[j] \in Nat
  BY DEF RankedLists, Distinct
<1>2. IsFiniteSet(lens)
  <2>1. IsFiniteSet(1 .. Len(lists))
    BY <1>1, FS_Interval
  <2> HIDE DEF f
  <2> QED
    BY <2>1, FiniteRange
<1>3. lens \subseteq Int /\ lens # {} /\ \A y \in lens : y <= n
  <2>1. 1 .. Len(lists) # {}
    BY DEF Found
  <2>2. \A j \in 1 .. Len(lists) : f[j] = Len(lists[j])
    OBVIOUS
  <2> HIDE DEF f
  <2>3. \A y \in lens : y \in Nat /\ y <= n
    BY <1>1, <2>2
  <2> QED
    BY <2>1, <2>3
<1>4. Max(lens) \in lens
  <2> HIDE DEF lens
  <2> QED
    BY <1>2, <1>3, Extremes
<1> QED
  BY <1>3, <1>4 DEF Longest

\* A share is the whole over the damped rank, exactly.
LEMMA ShareExact ==
    ASSUME NEW lists, RankedLists(lists), NEW k \in Nat, NEW c, NEW i \in Has(lists, c)
    PROVE  /\ Share(lists, k, i, c) \in Nat \ {0}
           /\ Share(lists, k, i, c) * (k + Rank(lists[i], c)) = Whole(lists, k)
           /\ Whole(lists, k) \in Nat \ {0}
<1> DEFINE S == k + 1 .. k + Longest(lists)
           x == k + Rank(lists[i], c)
<1>1. Longest(lists) \in Nat /\ Rank(lists[i], c) \in 1 .. Longest(lists)
  BY RankBounded
<1>2. IsFiniteSet(S) /\ S \subseteq Nat \ {0} /\ x \in S
  <2>1. k + 1 \in Int /\ k + Longest(lists) \in Int
    BY <1>1
  <2>2. IsFiniteSet(S)
    BY <2>1, FS_Interval
  <2> QED
    BY <1>1, <2>2
<1>3. ProductSet(S) \in Nat \ {0} /\ \E q \in Nat \ {0} : ProductSet(S) = x * q
  <2> HIDE DEF S, x
  <2> QED
    BY <1>2, ProductDivides
<1>4. PICK q \in Nat \ {0} : ProductSet(S) = x * q
  BY <1>3
<1>5. Whole(lists, k) = ProductSet(S) /\ Share(lists, k, i, c) = Whole(lists, k) \div x
  BY DEF Whole, Share
<1>6. x \in Nat \ {0}
  BY <1>2
<1> HIDE DEF S, x
<1>7. \A y, z \in Nat \ {0} : (y * z) \div y = z /\ z * y = y * z
  <2> SUFFICES ASSUME NEW y \in Nat \ {0}, NEW z \in Nat \ {0} PROVE (y * z) \div y = z /\ z * y = y * z
    OBVIOUS
  <2> QED
    OBVIOUS
<1>8. Share(lists, k, i, c) = q /\ q * x = Whole(lists, k)
  BY <1>4, <1>5, <1>6, <1>7
<1> QED
  BY <1>3, <1>5, <1>8 DEF x

\* The better of two ranks, in whatever lists, has the larger share.
LEMMA ShareFalls ==
    ASSUME NEW lists, RankedLists(lists), NEW k \in Nat,
           NEW c, NEW i \in Has(lists, c), NEW d, NEW j \in Has(lists, d)
    PROVE  /\ Rank(lists[i], c) < Rank(lists[j], d) => Share(lists, k, j, d) < Share(lists, k, i, c)
           /\ Rank(lists[i], c) = Rank(lists[j], d) => Share(lists, k, j, d) = Share(lists, k, i, c)
<1> DEFINE a == k + Rank(lists[i], c)
           b == k + Rank(lists[j], d)
           p == Share(lists, k, i, c)
           q == Share(lists, k, j, d)
<1>1. p * a = q * b /\ p \in Nat \ {0} /\ q \in Nat \ {0}
  BY ShareExact
<1>2. Rank(lists[i], c) \in Nat \ {0} /\ Rank(lists[j], d) \in Nat \ {0}
  <2>1. /\ Rank(lists[i], c) \in 1 .. Longest(lists) /\ Rank(lists[j], d) \in 1 .. Longest(lists)
        /\ Longest(lists) \in Nat
    BY RankBounded
  <2> QED
    BY <2>1
<1>3. a \in Nat \ {0} /\ b \in Nat \ {0}
  BY <1>2
<1>4. /\ Rank(lists[i], c) < Rank(lists[j], d) => a < b
  BY <1>2
<1>5. Rank(lists[i], c) = Rank(lists[j], d) => a = b /\ q = p
  BY DEF Share
<1> HIDE DEF a, b, p, q
<1>6. ASSUME a < b PROVE q < p
  <2>1. b = a + (b - a) /\ b - a \in Nat \ {0}
    BY <1>3, <1>6
  <2> DEFINE e == b - a
  <2>2. p * a = q * a + q * e /\ q * e \in Nat \ {0}
    <3>1. q * b = q * (a + e)
      BY <2>1
    <3>2. q * (a + e) = q * a + q * e
      BY <1>1, <1>3, <2>1
    <3>3. q * e = (q - 1) * e + e /\ (q - 1) * e \in Nat
      BY <1>1, <2>1
    <3>4. q * e \in Nat \ {0}
      BY <3>3, <2>1
    <3> QED
      BY <1>1, <3>1, <3>2, <3>4
  <2>3. CASE p <= q
    <3>1. q * a = p * a + (q - p) * a /\ (q - p) * a \in Nat /\ p * a \in Nat
      BY <1>1, <1>3, <2>3
    <3> HIDE DEF e
    <3> QED
      BY <2>2, <3>1
  <2> QED
    BY <1>1, <2>3
<1> QED
  BY <1>4, <1>5, <1>6 DEF p, q

\* A score is the sum of an item's shares.
LEMMA ScoreIsSum ==
    ASSUME NEW lists, RankedLists(lists), NEW k \in Nat, NEW c
    PROVE  /\ Score(lists, k, c) \in Nat
           /\ Score(lists, k, c) =
                SumFunctionOnSet([i \in Has(lists, c) |-> Share(lists, k, i, c)], Has(lists, c))
<1> DEFINE g == [i \in Has(lists, c) |-> Share(lists, k, i, c)]
<1>1. Score(lists, k, c) = SumFunctionOnSet(g, Has(lists, c))
  <2>1. DOMAIN g = Has(lists, c)
    OBVIOUS
  <2>2. Score(lists, k, c) = SumFunctionOnSet(g, DOMAIN g)
    BY DEF Score, SumFunction
  <2> HIDE DEF g
  <2> QED
    BY <2>1, <2>2
<1>2. \A i \in Has(lists, c) : g[i] \in Nat
  BY ShareExact
<1>3. IsFiniteSet(Has(lists, c))
  BY FoundFinite
<1> HIDE DEF g
<1>4. SumFunctionOnSet(g, Has(lists, c)) \in Nat
  BY <1>2, <1>3, SumRemove
<1> QED
  BY <1>1, <1>4 DEF g

\* An item that is in every list another is in, never placed lower, and is in
\* one more or once placed higher, scores more.
LEMMA ScoreDominates ==
    ASSUME NEW lists, RankedLists(lists), NEW k \in Nat, NEW c, NEW d,
           Has(lists, d) \subseteq Has(lists, c),
           \A i \in Has(lists, d) : Rank(lists[i], c) <= Rank(lists[i], d),
           \/ Has(lists, d) # Has(lists, c)
           \/ \E i \in Has(lists, d) : Rank(lists[i], c) < Rank(lists[i], d)
    PROVE  Score(lists, k, d) < Score(lists, k, c)
<1> DEFINE S == Has(lists, c)
           T == Has(lists, d)
           f == [i \in T |-> Share(lists, k, i, d)]
           g == [i \in S |-> Share(lists, k, i, c)]
<1>1. IsFiniteSet(S) /\ T \in SUBSET S
  BY FoundFinite
<1>2. \A i \in T : f[i] \in Nat
  BY ShareExact
<1>3. \A i \in S : g[i] \in Nat \ {0}
  BY ShareExact
<1>4. ASSUME NEW i \in T
      PROVE  /\ f[i] <= g[i]
             /\ Rank(lists[i], c) < Rank(lists[i], d) => f[i] < g[i]
  <2>1. i \in Has(lists, c) /\ i \in Has(lists, d)
    OBVIOUS
  <2>2. Rank(lists[i], c) \in Nat /\ Rank(lists[i], d) \in Nat
    BY <2>1, RankBounded
  <2>3. \/ Rank(lists[i], c) < Rank(lists[i], d)
        \/ Rank(lists[i], c) = Rank(lists[i], d)
    BY <2>1, <2>2
  <2>4. f[i] = Share(lists, k, i, d) /\ g[i] = Share(lists, k, i, c)
    BY <2>1
  <2>5. f[i] \in Nat /\ g[i] \in Nat
    BY <1>2, <1>3, <2>1
  <2>6. /\ Rank(lists[i], c) < Rank(lists[i], d) => f[i] < g[i]
        /\ Rank(lists[i], c) = Rank(lists[i], d) => f[i] = g[i]
    BY <2>1, <2>4, ShareFalls
  <2> QED
    BY <2>3, <2>5, <2>6
<1>5. T # S \/ \E i \in T : f[i] < g[i]
  BY <1>4
<1>6. Score(lists, k, d) = SumFunctionOnSet(f, T) /\ Score(lists, k, c) = SumFunctionOnSet(g, S)
  BY ScoreIsSum
<1> HIDE DEF S, T, f, g
<1>7. \A i \in T : f[i] <= g[i]
  BY <1>4
<1>8. SumFunctionOnSet(f, T) < SumFunctionOnSet(g, S)
  BY <1>1, <1>2, <1>3, <1>5, <1>7, SumDominates
<1> QED
  BY <1>6, <1>8

\* With two lists, an item that both have scores more than one only one of
\* them has, as long as the lists are no longer than the damping plus one.
LEMMA BothBeatOne ==
    ASSUME NEW lists, RankedLists(lists), NEW k \in Nat, NEW c, NEW d,
           Has(lists, c) = {1, 2}, NEW j, Has(lists, d) = {j},
           Longest(lists) <= k + 1
    PROVE  Score(lists, k, d) < Score(lists, k, c)
<1> DEFINE g == [i \in Has(lists, c) |-> Share(lists, k, i, c)]
           h == [i \in Has(lists, d) |-> Share(lists, k, i, d)]
<1>1. /\ Share(lists, k, 1, c) \in Nat /\ Share(lists, k, 2, c) \in Nat
      /\ Share(lists, k, j, d) \in Nat
  BY ShareExact
<1>2. Score(lists, k, c) = Share(lists, k, 1, c) + Share(lists, k, 2, c)
  <2>1. Score(lists, k, c) = SumFunctionOnSet(g, {1, 2})
    BY ScoreIsSum
  <2>2. g[1] = Share(lists, k, 1, c) /\ g[2] = Share(lists, k, 2, c)
    OBVIOUS
  <2>3. IsFiniteSet({1, 2}) /\ \A i \in {1, 2} : g[i] \in Nat
    <3>1. IsFiniteSet(Has(lists, c))
      BY FoundFinite
    <3> QED
      BY <1>1, <2>2, <3>1
  <2>4. {1, 2} \ {1} = {2} /\ {2} \ {2} = {}
    OBVIOUS
  <2>5. IsFiniteSet({2})
    BY FS_Singleton
  <2> HIDE DEF g
  <2>6. SumFunctionOnSet(g, {1, 2}) = g[1] + SumFunctionOnSet(g, {1, 2} \ {1})
    BY <2>3, SumRemove
  <2>7. SumFunctionOnSet(g, {2}) = g[2] + SumFunctionOnSet(g, {2} \ {2}) /\ SumFunctionOnSet(g, {}) = 0
    BY <2>3, <2>5, SumRemove
  <2> QED
    BY <1>1, <2>1, <2>2, <2>4, <2>6, <2>7
<1>3. Score(lists, k, d) = Share(lists, k, j, d)
  <2>1. Score(lists, k, d) = SumFunctionOnSet(h, {j})
    BY ScoreIsSum
  <2>2. h[j] = Share(lists, k, j, d) /\ IsFiniteSet({j}) /\ {j} \ {j} = {}
    BY FS_Singleton
  <2> HIDE DEF h
  <2>3. SumFunctionOnSet(h, {j}) = h[j] + SumFunctionOnSet(h, {j} \ {j}) /\ SumFunctionOnSet(h, {}) = 0
    BY <1>1, <2>2, SumRemove
  <2> QED
    BY <1>1, <2>1, <2>2, <2>3
<1>4. ASSUME NEW i \in {1, 2} PROVE Share(lists, k, j, d) < 2 * Share(lists, k, i, c)
  <2> DEFINE a == k + Rank(lists[i], c)
             b == k + Rank(lists[j], d)
             p == Share(lists, k, i, c)
             q == Share(lists, k, j, d)
  <2>1. p * a = q * b /\ p \in Nat \ {0} /\ q \in Nat \ {0}
    BY ShareExact
  <2>2. /\ Rank(lists[i], c) \in 1 .. Longest(lists) /\ Rank(lists[j], d) \in 1 .. Longest(lists)
        /\ Longest(lists) \in Nat
    BY RankBounded
  <2>3. a \in Nat \ {0} /\ b \in Nat \ {0} /\ a < b + b
    BY <2>2
  <2> HIDE DEF a, b, p, q
  <2>4. ASSUME q >= p + p PROVE FALSE
    <3>1. q * b = (p + p) * b + (q - (p + p)) * b /\ (q - (p + p)) * b \in Nat
      BY <2>1, <2>3, <2>4
    <3>2. (p + p) * b = p * (b + b)
      BY <2>1, <2>3
    <3>3. p * (b + b) = p * a + p * ((b + b) - a) /\ p * ((b + b) - a) \in Nat \ {0}
      <4> DEFINE e == (b + b) - a
      <4>1. e \in Nat \ {0} /\ b + b = a + e
        BY <2>3
      <4> HIDE DEF e
      <4>2. p * (b + b) = p * a + p * e
        BY <2>1, <2>3, <4>1
      <4>3. p * e = (p - 1) * e + e /\ (p - 1) * e \in Nat
        BY <2>1, <4>1
      <4>4. p * e \in Nat \ {0}
        BY <4>1, <4>3
      <4> QED
        BY <4>2, <4>4 DEF e
    <3>4. p * a \in Nat
      BY <2>1, <2>3
    <3> DEFINE u == p * a
               v == p * ((b + b) - a)
               w == (q - (p + p)) * b
    <3>5. u \in Nat /\ v \in Nat \ {0} /\ w \in Nat /\ u = (u + v) + w
      BY <2>1, <3>1, <3>2, <3>3, <3>4
    <3> HIDE DEF u, v, w
    <3> QED
      BY <3>5
  <2>5. q < p + p
    BY <2>1, <2>4
  <2> QED
    BY <2>1, <2>5 DEF p, q
<1> DEFINE p1 == Share(lists, k, 1, c)
           p2 == Share(lists, k, 2, c)
           q == Share(lists, k, j, d)
<1>5. q < 2 * p1 /\ q < 2 * p2
  BY <1>4
<1> HIDE DEF p1, p2, q
<1>6. p1 \in Nat /\ p2 \in Nat /\ q \in Nat
  BY <1>1 DEF p1, p2, q
<1>7. q < p1 + p2
  BY <1>5, <1>6
<1> QED
  BY <1>2, <1>3, <1>7 DEF p1, p2, q

\* Item c is fused before d.
Beats(lists, k, c, d) ==
    \/ Score(lists, k, d) < Score(lists, k, c)
    \/ Score(lists, k, d) = Score(lists, k, c) /\ MetBefore(lists, c, d)

\* The order of the fused list is strict and total: no two items are met at
\* the same place of the same list.
LEMMA BeatsIsOrder ==
    ASSUME NEW lists, RankedLists(lists), NEW k \in Nat
    PROVE  StrictOrder({p \in Found(lists) \X Found(lists) : Beats(lists, k, p[1], p[2])},
                       Found(lists))
<1> DEFINE F == Found(lists)
           R == {p \in F \X F : Beats(lists, k, p[1], p[2])}
           first(c) == Min(Has(lists, c))
           at(c) == Rank(lists[first(c)], c)
<1>1. ASSUME NEW c \in F
      PROVE  /\ first(c) \in Nat /\ at(c) \in Nat /\ Score(lists, k, c) \in Nat
             /\ first(c) \in Has(lists, c)
  <2>1. Has(lists, c) # {} /\ IsFiniteSet(Has(lists, c)) /\ Has(lists, c) \subseteq 1 .. Len(lists)
    BY FoundFinite
  <2>2. Len(lists) \in Nat
    BY DEF RankedLists
  <2>3. Has(lists, c) \subseteq Int
    BY <2>1, <2>2
  <2>4. first(c) \in Has(lists, c)
    BY <2>1, <2>3, Extremes
  <2>5. at(c) \in 1 .. Longest(lists) /\ Longest(lists) \in Nat
    <3> HIDE DEF first
    <3> QED
      BY <2>4, RankBounded
  <2>6. Score(lists, k, c) \in Nat
    BY ScoreIsSum
  <2> HIDE DEF first, at
  <2>7. first(c) \in Nat /\ at(c) \in Nat
    BY <2>1, <2>2, <2>4, <2>5
  <2> QED
    BY <2>4, <2>6, <2>7
<1>2. ASSUME NEW c \in F, NEW d \in F, first(c) = first(d), at(c) = at(d) PROVE c = d
  <2> DEFINE i == first(c)
  <2>1. i \in Has(lists, c) /\ i \in Has(lists, d) /\ Rank(lists[i], c) = Rank(lists[i], d)
    BY <1>1, <1>2
  <2> HIDE DEF i
  <2>2. Distinct(lists[i]) /\ c \in Items(lists[i]) /\ d \in Items(lists[i])
    BY <2>1, RankBounded
  <2> QED
    BY <2>1, <2>2, RankIs
<1>3. \A c, d \in F : <<c, d>> \in R <=>
        \/ Score(lists, k, d) < Score(lists, k, c)
        \/ /\ Score(lists, k, d) = Score(lists, k, c)
           /\ first(c) < first(d) \/ (first(c) = first(d) /\ at(c) < at(d))
  BY DEF Beats, MetBefore
<1> DEFINE s == [c \in F |-> Score(lists, k, c)]
           m == [c \in F |-> first(c)]
           n == [c \in F |-> at(c)]
<1>4. \A c \in F : s[c] \in Nat /\ m[c] \in Nat /\ n[c] \in Nat
  BY <1>1
<1>5. \A c, d \in F : m[c] = m[d] /\ n[c] = n[d] => c = d
  BY <1>2
<1>6. \A c, d \in F : <<c, d>> \in R <=>
        s[d] < s[c] \/ (s[d] = s[c] /\ (m[c] < m[d] \/ (m[c] = m[d] /\ n[c] < n[d])))
  BY <1>3
<1> HIDE DEF F, R, s, m, n
<1>7. \A c \in F : <<c, c>> \notin R
  BY <1>4, <1>6
<1>8. \A c, d \in F : c # d => <<c, d>> \in R \/ <<d, c>> \in R
  BY <1>4, <1>5, <1>6
<1>9. \A c, d, e \in F : <<c, d>> \in R /\ <<d, e>> \in R => <<c, e>> \in R
  <2> SUFFICES ASSUME NEW c \in F, NEW d \in F, NEW e \in F, <<c, d>> \in R, <<d, e>> \in R
               PROVE  <<c, e>> \in R
    OBVIOUS
  <2>1. s[d] < s[c] \/ (s[d] = s[c] /\ (m[c] < m[d] \/ (m[c] = m[d] /\ n[c] < n[d])))
    BY <1>6
  <2>2. s[e] < s[d] \/ (s[e] = s[d] /\ (m[d] < m[e] \/ (m[d] = m[e] /\ n[d] < n[e])))
    BY <1>6
  <2>3. s[e] < s[c] \/ (s[e] = s[c] /\ (m[c] < m[e] \/ (m[c] = m[e] /\ n[c] < n[e])))
    BY <1>4, <2>1, <2>2
  <2> QED
    BY <1>6, <2>3
<1>10. StrictOrder(R, F)
  BY <1>7, <1>8, <1>9 DEF StrictOrder
<1> QED
  BY <1>10 DEF R, F

\* The fused list: the best of what was found, each once, in the order of Beats.
LEMMA FuseIs ==
    ASSUME NEW lists, RankedLists(lists), NEW k \in Nat, NEW top \in Nat
    PROVE  LET fused == Fuse(lists, k, top)
               met == Cardinality(Found(lists))
           IN  /\ met \in Nat
               /\ fused \in [1 .. IF met < top THEN met ELSE top -> Found(lists)]
               /\ Len(fused) = IF met < top THEN met ELSE top
               /\ Distinct(fused)
               /\ Items(fused) \subseteq Found(lists)
               /\ \A c, d \in Found(lists) : Beats(lists, k, c, d) =>
                    Above(fused, c, d) \/ {c, d} \cap Items(fused) = {}
<1> DEFINE F == Found(lists)
           R == {p \in F \X F : Beats(lists, k, p[1], p[2])}
           fused == Fuse(lists, k, top)
           met == Cardinality(F)
           n == IF met < top THEN met ELSE top
           score == [c \in F |-> Score(lists, k, c)]
           before(c, d) ==
               score[c] > score[d] \/ (score[c] = score[d] /\ MetBefore(lists, c, d))
           s == [i \in 1 .. met |-> CHOOSE c \in F : Cardinality({d \in F : before(d, c)}) = i - 1]
<1>1. StrictOrder(R, F)
  BY BeatsIsOrder
<1>2. IsFiniteSet(F)
  BY FoundFinite
<1>3. met \in Nat
  BY <1>2, FS_CardinalityType
<1>4. n \in Nat /\ n <= met
  BY <1>3
<1>5. \A c \in F : {d \in F : before(d, c)} = Ahead(R, F, c)
  <2>1. \A c, d \in F : before(d, c) <=> Beats(lists, k, d, c)
    <3>1. \A c \in F : score[c] = Score(lists, k, c) /\ Score(lists, k, c) \in Nat
      BY ScoreIsSum
    <3> HIDE DEF score
    <3> QED
      BY <3>1 DEF Beats
  <2>2. \A c, d \in F : before(d, c) <=> <<d, c>> \in R
    BY <2>1
  <2> HIDE DEF R, before
  <2> QED
    BY <2>2 DEF Ahead
<1>6. fused = [i \in 1 .. n |-> s[i]]
  BY DEF Fuse, Sorted
<1>7. \A i \in 1 .. met : s[i] \in F /\ Cardinality(Ahead(R, F, s[i])) = i - 1
  <2> TAKE i \in 1 .. met
  <2>1. PICK c \in F : Cardinality(Ahead(R, F, c)) = i - 1
    <3> HIDE DEF F, R
    <3> QED
      BY <1>1, <1>2, AheadCounts
  <2>2. Cardinality({d \in F : before(d, c)}) = i - 1
    BY <1>5, <2>1
  <2>3. s[i] \in F /\ Cardinality({d \in F : before(d, s[i])}) = i - 1
    <3>1. s[i] = CHOOSE e \in F : Cardinality({d \in F : before(d, e)}) = i - 1
      OBVIOUS
    <3> HIDE DEF s, before, F
    <3> QED
      BY <2>2, <3>1
  <2> HIDE DEF s, before
  <2> QED
    BY <1>5, <2>3
<1> HIDE DEF s
<1>8. /\ \A i, j \in 1 .. met : <<s[i], s[j]>> \in R <=> i < j
      /\ \A i, j \in 1 .. met : s[i] = s[j] => i = j
      /\ \A c \in F : \E i \in 1 .. met : s[i] = c
  <2> HIDE DEF R, F
  <2> QED
    BY <1>1, <1>2, <1>7, SortedBy
<1>9. fused \in [1 .. n -> F] /\ Len(fused) = n /\ Distinct(fused) /\ Items(fused) \subseteq F
  <2>1. fused \in [1 .. n -> F]
    <3> HIDE DEF fused, F, met, n
    <3>1. \A i \in 1 .. n : i \in 1 .. met
      BY <1>3, <1>4
    <3> QED
      BY <1>6, <1>7, <3>1
  <2> HIDE DEF fused, F, met, n
  <2>2. Len(fused) = n
    BY <1>4, <2>1
  <2>3. Distinct(fused)
    <3>1. \A i \in 1 .. n : i \in 1 .. met /\ fused[i] = s[i]
      BY <1>3, <1>4, <1>6
    <3> QED
      BY <1>4, <1>8, <2>2, <3>1 DEF Distinct
  <2> QED
    BY <2>1, <2>2, <2>3 DEF Items
<1>10. ASSUME NEW c \in F, NEW d \in F, Beats(lists, k, c, d)
       PROVE  Above(fused, c, d) \/ {c, d} \cap Items(fused) = {}
  <2>1. <<c, d>> \in R
    BY <1>10
  <2>2. PICK i \in 1 .. met, j \in 1 .. met : s[i] = c /\ s[j] = d
    BY <1>8
  <2> HIDE DEF fused, F, met, n, R
  <2>3. i < j /\ i \in Nat /\ j \in Nat
    BY <1>3, <1>8, <2>1, <2>2
  <2>4. \A l \in 1 .. n : l \in 1 .. met /\ fused[l] = s[l]
    BY <1>3, <1>4, <1>6
  <2>5. ASSUME NEW e \in {c, d}, e \in Items(fused)
        PROVE  \E l \in 1 .. n : s[l] = e /\ fused[l] = e /\ Rank(fused, e) = l
    <3>1. Rank(fused, e) \in 1 .. n /\ fused[Rank(fused, e)] = e
      BY <1>9, <2>5, RankIs
    <3> QED
      BY <2>4, <3>1
  <2>6. d \in Items(fused) => j <= n /\ Rank(fused, d) = j
    BY <1>8, <2>2, <2>4, <2>5
  <2>7. i <= n => c \in Items(fused) /\ Rank(fused, c) = i
    <3>1. ASSUME i <= n PROVE c \in Items(fused)
      BY <1>3, <1>4, <1>9, <2>2, <2>3, <2>4, <3>1 DEF Items
    <3> QED
      BY <1>8, <2>2, <2>4, <2>5, <3>1
  <2>8. c \in Items(fused) => i <= n
    BY <1>8, <2>2, <2>4, <2>5
  <2> QED
    BY <1>4, <2>3, <2>6, <2>7, <2>8 DEF Above
<1> QED
  BY <1>3, <1>9, <1>10
=============================================================================
