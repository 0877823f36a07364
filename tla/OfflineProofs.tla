---------------------------- MODULE OfflineProofs ----------------------------
(***************************************************************************)
(* What the two offline programs keep, for any files, any dataset and any  *)
(* answers of the services: the types of IngestRun and of Evaluation, and  *)
(* each of their promises.                                                 *)
(*                                                                         *)
(* Ingestion, the counts: a chunk carries the visit that made it.  The     *)
(* chunks of a visit reach the collection when its turn comes, after every *)
(* report of an earlier batch, so they change no count but the one under   *)
(* way; and a visit is skipped before any of its chunks is stored.         *)
(*                                                                         *)
(* Ingestion, the provenance: the loop of a loader keeps an invariant of   *)
(* its own (Cutting): its buffer and its segments share out the text read  *)
(* so far, each under the title of its position.  A chunk has what its     *)
(* segment has, and the visits only grow.                                  *)
(*                                                                         *)
(* Evaluation, the scores: a mean of fractions is between 0 and 1, and     *)
(* adds up along any split of the rows; a ranking gains no more than the   *)
(* ideal one, since the relevant ranks can be moved to the front without   *)
(* a loss.                                                                 *)
(*                                                                         *)
(* Evaluation, the reports: the rows of each stage are those of the        *)
(* examples and of the responses so far, and of the files of a run the     *)
(* first few are written, in their order (RunInv).                         *)
(***************************************************************************)
EXTENDS Offline, FoldProofs

-----------------------------------------------------------------------------
(* The fractions.                                                          *)

\* Numerators are whole, denominators positive.
Fraction == Int \X (Nat \ {0})

\* What the arithmetic of the fractions rests on.
LEMMA Cancels ==
    ASSUME NEW a \in Int, NEW b \in Int, NEW c \in Nat \ {0}
    PROVE  /\ a * c = b * c => a = b
           /\ a * c <= b * c => a <= b
           /\ a <= b => a * c <= b * c
           /\ a < b => a * c < b * c
<1>1. a < b => a * c < b * c
  <2>1. a < b => a * c + c <= b * c
    <3>. SUFFICES ASSUME a < b PROVE a * c + c <= b * c
      OBVIOUS
    <3>1. \E d \in Nat : b = a + 1 + d
      <4>1. b - a - 1 \in Nat /\ b = a + 1 + (b - a - 1)
        OBVIOUS
      <4>. QED
        BY <4>1
    <3>2. PICK d \in Nat : b = a + 1 + d
      BY <3>1
    <3>3. b * c = a * c + c + d * c /\ d * c \in Nat /\ a * c \in Int /\ b * c \in Int
      BY <3>2
    <3>. QED
      BY <3>3
  <2>2. a * c \in Int /\ b * c \in Int
    OBVIOUS
  <2>. QED
    BY <2>1, <2>2
<1>2. b < a => b * c < a * c
  <2>1. b < a => b * c + c <= a * c
    <3>. SUFFICES ASSUME b < a PROVE b * c + c <= a * c
      OBVIOUS
    <3>1. \E d \in Nat : a = b + 1 + d
      <4>1. a - b - 1 \in Nat /\ a = b + 1 + (a - b - 1)
        OBVIOUS
      <4>. QED
        BY <4>1
    <3>2. PICK d \in Nat : a = b + 1 + d
      BY <3>1
    <3>3. a * c = b * c + c + d * c /\ d * c \in Nat /\ a * c \in Int /\ b * c \in Int
      BY <3>2
    <3>. QED
      BY <3>3
  <2>2. a * c \in Int /\ b * c \in Int
    OBVIOUS
  <2>. QED
    BY <2>1, <2>2
<1>3. a * c \in Int /\ b * c \in Int
  OBVIOUS
<1>. QED
  BY <1>1, <1>2, <1>3

\* A sum of two fractions is one, whichever way it is written.
LEMMA PlusIs ==
    ASSUME NEW p \in Fraction, NEW q \in Fraction
    PROVE  /\ Plus(p, q) \in Fraction
           /\ Plus(p, q)[1] * (p[2] * q[2]) = (p[1] * q[2] + q[1] * p[2]) * Plus(p, q)[2]
<1>1. p[1] \in Int /\ q[1] \in Int /\ p[2] \in Nat \ {0} /\ q[2] \in Nat \ {0}
  BY DEF Fraction
<1>2. p[2] * q[2] \in Nat \ {0}
  BY <1>1
<1>3. CASE p[2] = q[2]
  <2>1. Plus(p, q) = <<p[1] + q[1], p[2]>>
    BY <1>3 DEF Plus
  <2>. QED
    BY <1>1, <1>3, <2>1 DEF Fraction
<1>4. CASE p[2] # q[2]
  <2>1. Plus(p, q) = <<p[1] * q[2] + q[1] * p[2], p[2] * q[2]>>
    BY <1>4 DEF Plus
  <2>. QED
    BY <1>1, <1>2, <2>1 DEF Fraction
<1>. QED
  BY <1>3, <1>4

\* Fractions compared are in one order, and equal ones are alike.
LEMMA Compared ==
    ASSUME NEW p \in Fraction, NEW q \in Fraction, NEW r \in Fraction
    PROVE  /\ Equal(p, p) /\ AtMost(p, p)
           /\ Equal(p, q) <=> AtMost(p, q) /\ AtMost(q, p)
           /\ Equal(p, q) => Equal(q, p)
           /\ AtMost(p, q) /\ AtMost(q, r) => AtMost(p, r)
           /\ Equal(p, q) /\ Equal(q, r) => Equal(p, r)
<1>1. /\ p[1] \in Int /\ q[1] \in Int /\ r[1] \in Int
      /\ p[2] \in Nat \ {0} /\ q[2] \in Nat \ {0} /\ r[2] \in Nat \ {0}
  BY DEF Fraction
<1>2. ASSUME NEW a \in Int, NEW b \in Int, NEW c \in Int,
             NEW x \in Nat \ {0}, NEW y \in Nat \ {0}, NEW z \in Nat \ {0},
             a * y <= b * x, b * z <= c * y
      PROVE  a * z <= c * x
  <2>1. (a * y) * z <= (b * x) * z
    <3>1. a * y \in Int /\ b * x \in Int
      OBVIOUS
    <3>. QED
      BY <1>2, <3>1, Cancels
  <2>2. (b * z) * x <= (c * y) * x
    <3>1. b * z \in Int /\ c * y \in Int
      OBVIOUS
    <3>. QED
      BY <1>2, <3>1, Cancels
  <2>3. (b * x) * z = (b * z) * x
    OBVIOUS
  <2>4. (a * y) * z = (a * z) * y /\ (c * y) * x = (c * x) * y
    OBVIOUS
  <2>5. a * z \in Int /\ c * x \in Int /\ (a * z) * y \in Int /\ (c * x) * y \in Int /\ (b * x) * z \in Int
    OBVIOUS
  <2>6. (a * z) * y <= (c * x) * y
    BY <2>1, <2>2, <2>3, <2>4, <2>5
  <2>. QED
    BY <2>5, <2>6, Cancels
<1>3. AtMost(p, q) /\ AtMost(q, r) => AtMost(p, r)
  BY <1>1, <1>2 DEF AtMost
<1>4. AtMost(r, q) /\ AtMost(q, p) => AtMost(r, p)
  BY <1>1, <1>2 DEF AtMost
<1>5. /\ Equal(p, p) /\ AtMost(p, p)
      /\ Equal(p, q) <=> AtMost(p, q) /\ AtMost(q, p)
      /\ Equal(q, r) <=> AtMost(q, r) /\ AtMost(r, q)
      /\ Equal(p, r) <=> AtMost(p, r) /\ AtMost(r, p)
      /\ Equal(p, q) => Equal(q, p)
  <2>1. \A a, b \in Fraction : /\ a[1] * b[2] \in Int /\ b[1] * a[2] \in Int
    BY DEF Fraction
  <2>. QED
    BY <2>1 DEF AtMost, Equal
<1>. QED
  BY <1>3, <1>4, <1>5

\* Larger terms make a larger sum.
LEMMA PlusMonotone ==
    ASSUME NEW p \in Fraction, NEW q \in Fraction, NEW r \in Fraction, NEW s \in Fraction,
           AtMost(p, r), AtMost(q, s)
    PROVE  AtMost(Plus(p, q), Plus(r, s))
<1>. DEFINE u == Plus(p, q)
            v == Plus(r, s)
<1>1. /\ u \in Fraction /\ u[1] * (p[2] * q[2]) = (p[1] * q[2] + q[1] * p[2]) * u[2]
      /\ v \in Fraction /\ v[1] * (r[2] * s[2]) = (r[1] * s[2] + s[1] * r[2]) * v[2]
  BY PlusIs
<1>. HIDE DEF u, v
<1>. DEFINE a == p[1]
            b == q[1]
            c == r[1]
            d == s[1]
            e == u[1]
            f == v[1]
            w == p[2]
            x == q[2]
            y == r[2]
            z == s[2]
            g == u[2]
            h == v[2]
<1>2. /\ a \in Int /\ b \in Int /\ c \in Int /\ d \in Int /\ e \in Int /\ f \in Int
      /\ w \in Nat \ {0} /\ x \in Nat \ {0} /\ y \in Nat \ {0} /\ z \in Nat \ {0}
      /\ g \in Nat \ {0} /\ h \in Nat \ {0}
      /\ a * y <= c * w /\ b * z <= d * x
      /\ e * (w * x) = (a * x + b * w) * g /\ f * (y * z) = (c * z + d * y) * h
  BY <1>1 DEF Fraction, AtMost
<1>3. e * h <= f * g
  <2>. HIDE DEF a, b, c, d, e, f, w, x, y, z, g, h
  <2>. DEFINE m == (w * x) * (y * z)
  <2>1. m \in Nat \ {0} /\ w * x \in Nat \ {0} /\ y * z \in Nat \ {0}
    BY <1>2
  <2>2. (e * h) * m = ((e * (w * x)) * (y * z)) * h
    BY <1>2
  <2>3. (f * g) * m = ((f * (y * z)) * (w * x)) * g
    BY <1>2
  <2>4. ((e * (w * x)) * (y * z)) * h = ((a * x + b * w) * (y * z)) * (g * h)
    BY <1>2
  <2>5. ((f * (y * z)) * (w * x)) * g = ((c * z + d * y) * (w * x)) * (g * h)
    BY <1>2
  <2>6. (a * x + b * w) * (y * z) = (a * y) * (x * z) + (b * z) * (w * y)
    BY <1>2
  <2>7. (c * z + d * y) * (w * x) = (c * w) * (x * z) + (d * x) * (w * y)
    BY <1>2
  <2>8. (a * y) * (x * z) <= (c * w) * (x * z) /\ (b * z) * (w * y) <= (d * x) * (w * y)
    <3>1. /\ a * y \in Int /\ c * w \in Int /\ b * z \in Int /\ d * x \in Int
          /\ x * z \in Nat \ {0} /\ w * y \in Nat \ {0}
      BY <1>2
    <3>. QED
      BY <1>2, <3>1, Cancels
  <2>9. (a * x + b * w) * (y * z) <= (c * z + d * y) * (w * x)
    <3>1. /\ (a * y) * (x * z) \in Int /\ (c * w) * (x * z) \in Int
          /\ (b * z) * (w * y) \in Int /\ (d * x) * (w * y) \in Int
      BY <1>2
    <3>. QED
      BY <2>6, <2>7, <2>8, <3>1
  <2>10. ((a * x + b * w) * (y * z)) * (g * h) <= ((c * z + d * y) * (w * x)) * (g * h)
    <3>1. /\ (a * x + b * w) * (y * z) \in Int /\ (c * z + d * y) * (w * x) \in Int
          /\ g * h \in Nat \ {0}
      BY <1>2
    <3>. QED
      BY <2>9, <3>1, Cancels
  <2>11. (e * h) * m <= (f * g) * m
    BY <2>2, <2>3, <2>4, <2>5, <2>10
  <2>12. e * h \in Int /\ f * g \in Int
    BY <1>2
  <2>. HIDE DEF m
  <2>. QED
    BY <2>1, <2>11, <2>12, Cancels
<1>. QED
  BY <1>3 DEF AtMost, u, v

\* Three fractions added, over their common denominator.
LEMMA PlusThree ==
    ASSUME NEW p \in Fraction, NEW q \in Fraction, NEW r \in Fraction
    PROVE  LET u == Plus(p, Plus(q, r))
           IN  /\ u \in Fraction
               /\ u[1] * (p[2] * q[2] * r[2])
                      = (p[1] * q[2] * r[2] + q[1] * p[2] * r[2] + r[1] * p[2] * q[2]) * u[2]
<1>. DEFINE v == Plus(q, r)
            u == Plus(p, v)
<1>1. v \in Fraction /\ v[1] * (q[2] * r[2]) = (q[1] * r[2] + r[1] * q[2]) * v[2]
  BY PlusIs
<1>2. u \in Fraction /\ u[1] * (p[2] * v[2]) = (p[1] * v[2] + v[1] * p[2]) * u[2]
  BY <1>1, PlusIs
<1>. DEFINE a == p[1]
            b == q[1]
            c == r[1]
            d == v[1]
            e == u[1]
            x == p[2]
            y == q[2]
            z == r[2]
            w == v[2]
            g == u[2]
<1>. HIDE DEF u, v
<1>3. /\ a \in Int /\ b \in Int /\ c \in Int /\ d \in Int /\ e \in Int
      /\ x \in Nat \ {0} /\ y \in Nat \ {0} /\ z \in Nat \ {0} /\ w \in Nat \ {0} /\ g \in Nat \ {0}
      /\ d * (y * z) = (b * z + c * y) * w
      /\ e * (x * w) = (a * w + d * x) * g
  BY <1>1, <1>2 DEF Fraction
<1>4. e * (x * y * z) = (a * y * z + b * x * z + c * x * y) * g
  <2>. HIDE DEF a, b, c, d, e, x, y, z, w, g
  <2>1. (e * (x * y * z)) * w = (e * (x * w)) * (y * z)
    BY <1>3
  <2>2. (e * (x * w)) * (y * z) = (a * (y * z)) * (w * g) + (d * (y * z)) * (x * g)
    <3>1. ((a * w + d * x) * g) * (y * z) = (a * (y * z)) * (w * g) + (d * (y * z)) * (x * g)
      BY <1>3
    <3>. QED
      BY <1>3, <3>1
  <2>3. (d * (y * z)) * (x * g) = ((b * z + c * y) * x) * (w * g)
    <3>1. ((b * z + c * y) * w) * (x * g) = ((b * z + c * y) * x) * (w * g)
      BY <1>3
    <3>. QED
      BY <1>3, <3>1
  <2>4. (a * (y * z)) * (w * g) + ((b * z + c * y) * x) * (w * g)
            = ((a * y * z + b * x * z + c * x * y) * g) * w
    BY <1>3
  <2>5. (e * (x * y * z)) * w = ((a * y * z + b * x * z + c * x * y) * g) * w
    BY <2>1, <2>2, <2>3, <2>4
  <2>6. /\ e * (x * y * z) \in Int
        /\ (a * y * z + b * x * z + c * x * y) * g \in Int
    BY <1>3
  <2>. QED
    BY <1>3, <2>5, <2>6, Cancels
<1>. QED
  BY <1>2, <1>4 DEF u, v

\* Two terms may be added in either order.
LEMMA PlusSwap ==
    ASSUME NEW p \in Fraction, NEW q \in Fraction, NEW r \in Fraction
    PROVE  Equal(Plus(p, Plus(q, r)), Plus(q, Plus(p, r)))
<1>. DEFINE u == Plus(p, Plus(q, r))
            v == Plus(q, Plus(p, r))
<1>1. /\ u \in Fraction
      /\ u[1] * (p[2] * q[2] * r[2])
             = (p[1] * q[2] * r[2] + q[1] * p[2] * r[2] + r[1] * p[2] * q[2]) * u[2]
  BY PlusThree
<1>2. /\ v \in Fraction
      /\ v[1] * (q[2] * p[2] * r[2])
             = (q[1] * p[2] * r[2] + p[1] * q[2] * r[2] + r[1] * q[2] * p[2]) * v[2]
  BY PlusThree
<1>. DEFINE a == p[1]
            b == q[1]
            c == r[1]
            x == p[2]
            y == q[2]
            z == r[2]
            e == u[1]
            g == u[2]
            f == v[1]
            h == v[2]
            n == a * y * z + b * x * z + c * x * y
            m == x * y * z
<1>. HIDE DEF u, v
<1>3. /\ a \in Int /\ b \in Int /\ c \in Int /\ e \in Int /\ f \in Int
      /\ x \in Nat \ {0} /\ y \in Nat \ {0} /\ z \in Nat \ {0} /\ g \in Nat \ {0} /\ h \in Nat \ {0}
      /\ e * m = n * g
      /\ f * (y * x * z) = (b * x * z + a * y * z + c * y * x) * h
  BY <1>1, <1>2 DEF Fraction
<1>. HIDE DEF a, b, c, x, y, z, e, g, f, h
<1>4. f * m = n * h
  <2>1. y * x * z = m /\ b * x * z + a * y * z + c * y * x = n
    BY <1>3
  <2>. QED
    BY <1>3, <2>1
<1>5. n \in Int /\ m \in Nat \ {0}
  BY <1>3
<1>. HIDE DEF n, m
<1>6. e * h = f * g
  <2>1. (e * h) * m = (e * m) * h /\ (f * g) * m = (f * m) * g
    BY <1>3, <1>5
  <2>2. (n * g) * h = (n * h) * g
    BY <1>3, <1>5
  <2>3. (e * h) * m = (f * g) * m
    BY <1>3, <1>4, <2>1, <2>2
  <2>4. e * h \in Int /\ f * g \in Int
    BY <1>3
  <2>. QED
    BY <1>5, <2>3, <2>4, Cancels
<1>. QED
  BY <1>6 DEF Equal, u, v, e, f, g, h

-----------------------------------------------------------------------------
(* Their sums.                                                             *)

\* The sum of f over S, in the library's order.
SumOver(f, S) == FoldFunctionOnSet(Plus, Zero, f, S)

\* h adds f up over every subset of S.
Adds(h, f, S) ==
    \A T \in SUBSET S :
        h[T] = IF T = {} THEN Zero
               ELSE Plus(f[CHOOSE x \in T : TRUE], h[T \ {CHOOSE x \in T : TRUE}])

\* A sum of fractions over the subsets of a finite set exists.
LEMMA AddsExist ==
    ASSUME NEW S, IsFiniteSet(S), NEW f, \A x \in S : f[x] \in Fraction
    PROVE  \E h \in [SUBSET S -> Fraction] : Adds(h, f, S)
<1>. DEFINE pick == [T \in SUBSET S |-> CHOOSE x \in T : TRUE]
            F == [x \in S |-> [v \in Fraction |-> Plus(f[x], v)]]
<1>1. \A T \in SUBSET S : T # {} => (CHOOSE x \in T : TRUE) \in T /\ pick[T] = CHOOSE x \in T : TRUE
  OBVIOUS
<1>2. PICK w \in [SUBSET S -> Fraction] : IsFold(w, S, Zero, F, pick)
  <2>1. F \in [S -> [Fraction -> Fraction]]
    BY PlusIs
  <2>2. \A T \in SUBSET S : T # {} => pick[T] \in T
    BY <1>1
  <2>3. Zero \in Fraction
    BY DEF Zero, Fraction
  <2>. HIDE DEF F, pick
  <2>4. Foldable(S, Fraction, Zero, F, pick)
    BY <2>1, <2>2, <2>3 DEF Foldable
  <2>. QED
    BY <2>4, FoldExists
<1>3. ASSUME NEW T \in SUBSET S
      PROVE  w[T] = IF T = {} THEN Zero
                    ELSE Plus(f[CHOOSE x \in T : TRUE], w[T \ {CHOOSE x \in T : TRUE}])
  <2>1. CASE T = {}
    BY <1>2, <2>1 DEF IsFold
  <2>2. CASE T # {}
    <3>1. pick[T] \in S /\ T \ {pick[T]} \in SUBSET S
      BY <1>1, <2>2
    <3>2. F[pick[T]][w[T \ {pick[T]}]] = Plus(f[pick[T]], w[T \ {pick[T]}])
      BY <3>1
    <3>. QED
      BY <1>1, <1>2, <2>2, <3>2 DEF IsFold
  <2>. QED
    BY <2>1, <2>2
<1>. QED
  BY <1>3 DEF Adds

\* Two functions that agree on S have the same sum over it.
LEMMA AddsUnique ==
    ASSUME NEW S, IsFiniteSet(S), NEW f, NEW d, \A x \in S : f[x] = d[x],
           NEW g, NEW h, Adds(g, f, S), Adds(h, d, S)
    PROVE  \A T \in SUBSET S : g[T] = h[T]
<1>. DEFINE I == {T \in SUBSET S : g[T] = h[T]}
<1>1. \A T \in SUBSET S : (\A U \in SUBSET T : U # T => U \in I) => T \in I
  <2>. SUFFICES ASSUME NEW T \in SUBSET S, \A U \in SUBSET T : U # T => U \in I
                PROVE  g[T] = h[T]
    OBVIOUS
  <2>1. CASE T = {}
    BY <2>1 DEF Adds
  <2>2. CASE T # {}
    <3>. DEFINE c == CHOOSE x \in T : TRUE
    <3>1. c \in T /\ T \ {c} \in SUBSET S
      BY <2>2
    <3>2. g[T \ {c}] = h[T \ {c}] /\ f[c] = d[c]
      BY <3>1
    <3>3. g[T] = Plus(f[c], g[T \ {c}]) /\ h[T] = Plus(d[c], h[T \ {c}])
      BY <2>2 DEF Adds
    <3>. QED
      BY <3>2, <3>3
  <2>. QED
    BY <2>1, <2>2
<1>2. \A T \in SUBSET S : T \in I
  <2>. HIDE DEF I
  <2>. QED
    BY <1>1, SmallerSets
<1>. QED
  BY <1>2

\* The library's sum solves the equation.
LEMMA SumOverUnfolds ==
    ASSUME NEW S, IsFiniteSet(S), NEW f, \A x \in S : f[x] \in Fraction, NEW h, Adds(h, f, S)
    PROVE  SumOver(f, S) = h[S]
<1>. DEFINE Unfolded(g) == [T \in SUBSET S |->
                          IF T = {} THEN Zero
                          ELSE Plus(f[CHOOSE x \in T : TRUE], g[T \ {CHOOSE x \in T : TRUE}])]
            iter == CHOOSE g : g = Unfolded(g)
<1>1. PICK w \in [SUBSET S -> Fraction] : Adds(w, f, S)
  BY AddsExist
<1>2. w = Unfolded(w)
  <2>1. ASSUME NEW T \in SUBSET S PROVE w[T] = Unfolded(w)[T]
    BY <1>1 DEF Adds
  <2>. QED
    BY <2>1
<1>3. iter = Unfolded(iter)
  <2>. HIDE DEF Unfolded
  <2>. QED
    BY <1>2
<1>4. SumOver(f, S) = iter[S]
  BY DEF SumOver, FoldFunctionOnSet, MapThenFoldSet
<1>5. Adds(iter, f, S)
  <2>. HIDE DEF iter
  <2>. QED
    BY <1>3 DEF Adds
<1>. HIDE DEF iter
<1>. QED
  BY <1>4, <1>5, AddsUnique

\* h has the sums of f over all the subsets of S.
HasSums(h, f, S) ==
    /\ h \in [SUBSET S -> Fraction] /\ Adds(h, f, S)
    /\ \A T \in SUBSET S : SumOver(f, T) = h[T]

\* There are such sums.
LEMMA SumsOver ==
    ASSUME NEW S, IsFiniteSet(S), NEW f, \A x \in S : f[x] \in Fraction
    PROVE  \E h : HasSums(h, f, S)
<1>1. PICK h \in [SUBSET S -> Fraction] : Adds(h, f, S)
  BY AddsExist
<1>2. \A T \in SUBSET S : SumOver(f, T) = h[T]
  <2>. TAKE T \in SUBSET S
  <2>1. IsFiniteSet(T) /\ (\A x \in T : f[x] \in Fraction)
    BY FS_Subset
  <2>2. Adds(h, f, T)
    BY <1>1 DEF Adds
  <2>. QED
    BY <2>1, <2>2, SumOverUnfolds
<1>. QED
  BY <1>1, <1>2 DEF HasSums

\* Functions that agree on a set have the same sum over it.
LEMMA SumOverSame ==
    ASSUME NEW S, IsFiniteSet(S), NEW f, NEW d, \A x \in S : f[x] \in Fraction,
           \A x \in S : f[x] = d[x]
    PROVE  SumOver(f, S) = SumOver(d, S)
<1>1. PICK g : HasSums(g, f, S)
  BY SumsOver
<1>2. PICK h : HasSums(h, d, S)
  <2>1. \A x \in S : d[x] \in Fraction
    OBVIOUS
  <2>. QED
    BY <2>1, SumsOver
<1>3. \A T \in SUBSET S : g[T] = h[T]
  BY <1>1, <1>2, AddsUnique DEF HasSums
<1>. QED
  BY <1>1, <1>2, <1>3 DEF HasSums

\* Any element may be taken out of a sum first.
LEMMA SumOverRemove ==
    ASSUME NEW S, IsFiniteSet(S), NEW f, \A x \in S : f[x] \in Fraction
    PROVE  /\ SumOver(f, S) \in Fraction
           /\ SumOver(f, {}) = Zero
           /\ \A x \in S : Equal(SumOver(f, S), Plus(f[x], SumOver(f, S \ {x})))
<1>0. PICK h : HasSums(h, f, S)
  BY SumsOver
<1>1. /\ h \in [SUBSET S -> Fraction] /\ Adds(h, f, S)
      /\ \A T \in SUBSET S : SumOver(f, T) = h[T]
  BY <1>0 DEF HasSums
<1>2. h[{}] = Zero
  BY <1>1 DEF Adds
<1>. DEFINE I == {T \in SUBSET S : \A x \in T : Equal(h[T], Plus(f[x], h[T \ {x}]))}
<1>3. \A T \in SUBSET S : (\A U \in SUBSET T : U # T => U \in I) => T \in I
  <2>. SUFFICES ASSUME NEW T \in SUBSET S, \A U \in SUBSET T : U # T => U \in I, NEW x \in T
                PROVE  Equal(h[T], Plus(f[x], h[T \ {x}]))
    OBVIOUS
  <2>. DEFINE c == CHOOSE y \in T : TRUE
  <2>1. c \in T /\ h[T] = Plus(f[c], h[T \ {c}])
    BY <1>1 DEF Adds
  <2>. HIDE DEF c
  <2>2. \A U \in SUBSET S : h[U] \in Fraction
    BY <1>1
  <2>3. CASE x = c
    <3>1. h[T] \in Fraction /\ h[T] = Plus(f[x], h[T \ {x}])
      BY <2>1, <2>2, <2>3
    <3>. QED
      BY <3>1, Compared
  <2>4. CASE x # c
    <3>. DEFINE rest == (T \ {x}) \ {c}
    <3>1. T \ {c} \in I /\ T \ {x} \in I
      BY <2>1
    <3>2. (T \ {c}) \ {x} = rest /\ rest \in SUBSET S /\ T \ {c} \in SUBSET S /\ T \ {x} \in SUBSET S
      OBVIOUS
    <3>3. /\ Equal(h[T \ {c}], Plus(f[x], h[rest]))
          /\ Equal(h[T \ {x}], Plus(f[c], h[rest]))
      BY <2>1, <2>4, <3>1, <3>2
    <3>. DEFINE fx == f[x]
                fc == f[c]
                hr == h[rest]
                tc == h[T \ {c}]
                tx == h[T \ {x}]
    <3>4. fx \in Fraction /\ fc \in Fraction /\ hr \in Fraction /\ tc \in Fraction /\ tx \in Fraction
      BY <2>1, <2>2, <3>2
    <3>5. h[T] = Plus(fc, tc) /\ Equal(tc, Plus(fx, hr)) /\ Equal(tx, Plus(fc, hr))
      BY <2>1, <3>3
    <3>. HIDE DEF fx, fc, hr, tc, tx, rest
    <3>6. Plus(fx, hr) \in Fraction /\ Plus(fc, hr) \in Fraction
      BY <3>4, PlusIs
    <3>7. Equal(Plus(fc, tc), Plus(fc, Plus(fx, hr)))
      <4>1. AtMost(tc, Plus(fx, hr)) /\ AtMost(Plus(fx, hr), tc) /\ AtMost(fc, fc)
        BY <3>4, <3>5, <3>6, Compared
      <4>2. /\ AtMost(Plus(fc, tc), Plus(fc, Plus(fx, hr)))
            /\ AtMost(Plus(fc, Plus(fx, hr)), Plus(fc, tc))
        BY <3>4, <3>6, <4>1, PlusMonotone
      <4>3. Plus(fc, tc) \in Fraction /\ Plus(fc, Plus(fx, hr)) \in Fraction
        BY <3>4, <3>6, PlusIs
      <4>. QED
        BY <4>2, <4>3, Compared
    <3>8. Equal(Plus(fc, Plus(fx, hr)), Plus(fx, Plus(fc, hr)))
      BY <3>4, PlusSwap
    <3>9. Equal(Plus(fx, Plus(fc, hr)), Plus(fx, tx))
      <4>1. AtMost(tx, Plus(fc, hr)) /\ AtMost(Plus(fc, hr), tx) /\ AtMost(fx, fx)
        BY <3>4, <3>5, <3>6, Compared
      <4>2. /\ AtMost(Plus(fx, tx), Plus(fx, Plus(fc, hr)))
            /\ AtMost(Plus(fx, Plus(fc, hr)), Plus(fx, tx))
        BY <3>4, <3>6, <4>1, PlusMonotone
      <4>3. Plus(fx, tx) \in Fraction /\ Plus(fx, Plus(fc, hr)) \in Fraction
        BY <3>4, <3>6, PlusIs
      <4>. QED
        BY <4>2, <4>3, Compared
    <3>10. /\ Plus(fc, tc) \in Fraction /\ Plus(fx, tx) \in Fraction
           /\ Plus(fc, Plus(fx, hr)) \in Fraction /\ Plus(fx, Plus(fc, hr)) \in Fraction
      BY <3>4, <3>6, PlusIs
    <3>11. Equal(Plus(fc, tc), Plus(fx, Plus(fc, hr)))
      BY <3>7, <3>8, <3>10, Compared
    <3>12. Equal(Plus(fc, tc), Plus(fx, tx))
      BY <3>9, <3>10, <3>11, Compared
    <3>. QED
      BY <3>5, <3>12 DEF fx, tx
  <2>. QED
    BY <2>3, <2>4
<1>4. S \in I
  <2>. HIDE DEF I
  <2>1. \A T \in SUBSET S : T \in I
    BY <1>3, SmallerSets
  <2>. QED
    BY <2>1
<1>5. \A x \in S : S \ {x} \in SUBSET S
  OBVIOUS
<1>. QED
  BY <1>1, <1>2, <1>4, <1>5

\* One element more.
LEMMA SumOverAdd ==
    ASSUME NEW S, IsFiniteSet(S), NEW f, \A x \in S : f[x] \in Fraction,
           NEW T \in SUBSET S, NEW x \in S \ T
    PROVE  /\ SumOver(f, T) \in Fraction /\ SumOver(f, T \cup {x}) \in Fraction
           /\ Equal(SumOver(f, T \cup {x}), Plus(f[x], SumOver(f, T)))
<1>. DEFINE U == T \cup {x}
<1>1. U \in SUBSET S /\ x \in U /\ U \ {x} = T
  OBVIOUS
<1>2. IsFiniteSet(U) /\ (\A y \in U : f[y] \in Fraction) /\ IsFiniteSet(T) /\ (\A y \in T : f[y] \in Fraction)
  BY <1>1, FS_Subset
<1>. HIDE DEF U
<1>3. SumOver(f, U) \in Fraction /\ Equal(SumOver(f, U), Plus(f[x], SumOver(f, U \ {x})))
  BY <1>1, <1>2, SumOverRemove
<1>4. SumOver(f, T) \in Fraction
  BY <1>2, SumOverRemove
<1>. QED
  BY <1>1, <1>3, <1>4 DEF U

\* Larger fractions have a larger sum.
LEMMA SumOverMonotone ==
    ASSUME NEW S, IsFiniteSet(S), NEW f, NEW g,
           \A x \in S : f[x] \in Fraction, \A x \in S : g[x] \in Fraction,
           \A x \in S : AtMost(f[x], g[x])
    PROVE  AtMost(SumOver(f, S), SumOver(g, S))
<1>. DEFINE I == {T \in SUBSET S : AtMost(SumOver(f, T), SumOver(g, T))}
<1>1. {} \in I
  <2>1. SumOver(f, {}) = Zero /\ SumOver(g, {}) = Zero
    BY SumOverRemove
  <2>. QED
    BY <2>1 DEF AtMost, Zero
<1>2. ASSUME NEW T \in SUBSET S, NEW x \in S \ T, T \in I
      PROVE  AtMost(SumOver(f, T \cup {x}), SumOver(g, T \cup {x}))
  <2>. DEFINE a == SumOver(f, T)
              b == SumOver(g, T)
              c == SumOver(f, T \cup {x})
              d == SumOver(g, T \cup {x})
              p == f[x]
              q == g[x]
  <2>1. a \in Fraction /\ c \in Fraction /\ Equal(c, Plus(p, a))
    BY SumOverAdd
  <2>2. b \in Fraction /\ d \in Fraction /\ Equal(d, Plus(q, b))
    BY SumOverAdd
  <2>3. p \in Fraction /\ q \in Fraction /\ AtMost(p, q) /\ AtMost(a, b)
    BY <1>2
  <2>. HIDE DEF a, b, c, d, p, q
  <2>4. Plus(p, a) \in Fraction /\ Plus(q, b) \in Fraction
    BY <2>1, <2>2, <2>3, PlusIs
  <2>5. AtMost(Plus(p, a), Plus(q, b))
    BY <2>1, <2>2, <2>3, PlusMonotone
  <2>6. AtMost(c, Plus(p, a)) /\ AtMost(Plus(q, b), d)
    BY <2>1, <2>2, <2>4, Compared
  <2>7. AtMost(c, Plus(q, b))
    BY <2>1, <2>4, <2>5, <2>6, Compared
  <2>8. AtMost(c, d)
    BY <2>1, <2>2, <2>4, <2>6, <2>7, Compared
  <2>. QED
    BY <2>8 DEF c, d
<1>3. S \in I
  <2>1. \A T \in SUBSET S : \A x \in S \ T : T \in I => T \cup {x} \in I
    BY <1>2
  <2>. HIDE DEF I
  <2>. QED
    BY <1>1, <2>1, SetInduction
<1>. QED
  BY <1>3

\* What is zero adds nothing.
LEMMA SumOverZero ==
    ASSUME NEW S, IsFiniteSet(S), NEW f, \A x \in S : f[x] \in Fraction,
           NEW A \in SUBSET S, \A x \in S \ A : f[x] = Zero
    PROVE  Equal(SumOver(f, S), SumOver(f, A))
<1>. DEFINE R == S \ A
            I == {T \in SUBSET R : Equal(SumOver(f, A \cup T), SumOver(f, A))}
<1>0. \A T \in SUBSET S : SumOver(f, T) \in Fraction
  BY FS_Subset, SumOverRemove
<1>1. {} \in I
  BY <1>0, Compared
<1>2. ASSUME NEW T \in SUBSET R, NEW x \in R \ T, T \in I
      PROVE  Equal(SumOver(f, A \cup (T \cup {x})), SumOver(f, A))
  <2>. DEFINE a == SumOver(f, A \cup T)
              b == SumOver(f, (A \cup T) \cup {x})
              c == SumOver(f, A)
  <2>0. A \cup T \in SUBSET S /\ x \in S \ (A \cup T) /\ (A \cup T) \cup {x} = A \cup (T \cup {x})
    OBVIOUS
  <2>1. a \in Fraction /\ b \in Fraction /\ Equal(b, Plus(f[x], a))
    BY <2>0, SumOverAdd
  <2>2. f[x] = Zero /\ c \in Fraction /\ Equal(a, c)
    BY <1>0, <1>2
  <2>. HIDE DEF a, b, c
  <2>3. Equal(Plus(Zero, a), a) /\ Zero \in Fraction
    <3>1. a[1] \in Int /\ a[2] \in Nat \ {0}
      BY <2>1 DEF Fraction
    <3>2. CASE a[2] = 1
      <4>1. Plus(Zero, a) = <<0 + a[1], 1>>
        BY <3>2 DEF Plus, Zero
      <4>. QED
        BY <3>1, <3>2, <4>1 DEF Equal, Zero, Fraction
    <3>3. CASE a[2] # 1
      <4>1. Plus(Zero, a) = <<0 * a[2] + a[1] * 1, 1 * a[2]>>
        BY <3>3 DEF Plus, Zero
      <4>. QED
        BY <3>1, <4>1 DEF Equal, Zero, Fraction
    <3>. QED
      BY <3>2, <3>3
  <2>4. Plus(Zero, a) \in Fraction
    BY <2>1, <2>3, PlusIs
  <2>5. Equal(b, a)
    BY <2>1, <2>2, <2>3, <2>4, Compared
  <2>6. Equal(b, c)
    BY <2>1, <2>2, <2>5, Compared
  <2>. QED
    BY <2>0, <2>6 DEF b, c
<1>3. R \in I
  <2>1. \A T \in SUBSET R : \A x \in R \ T : T \in I => T \cup {x} \in I
    BY <1>2
  <2>2. IsFiniteSet(R)
    BY FS_Subset
  <2>. HIDE DEF I, R
  <2>. QED
    BY <1>1, <2>1, <2>2, SetInduction
<1>4. A \cup R = S
  OBVIOUS
<1>. QED
  BY <1>3, <1>4

\* Zeros and ones add up to the number of the ones.
LEMMA SumOverOnes ==
    ASSUME NEW S, IsFiniteSet(S), NEW f, \A x \in S : f[x] \in {Zero, One}
    PROVE  Equal(SumOver(f, S), <<Cardinality({x \in S : f[x] = One}), 1>>)
<1>. DEFINE Ones(T) == {x \in T : f[x] = One}
            I == {T \in SUBSET S : Equal(SumOver(f, T), <<Cardinality(Ones(T)), 1>>)}
<1>0. /\ \A x \in S : f[x] \in Fraction
      /\ \A T \in SUBSET S : IsFiniteSet(Ones(T)) /\ Cardinality(Ones(T)) \in Nat
  <2>1. Zero \in Fraction /\ One \in Fraction
    BY DEF Zero, One, Fraction
  <2>2. \A T \in SUBSET S : Ones(T) \subseteq S
    OBVIOUS
  <2>. QED
    BY <2>1, <2>2, FS_Subset, FS_CardinalityType
<1>1. {} \in I
  <2>1. SumOver(f, {}) = Zero
    BY <1>0, SumOverRemove
  <2>2. Ones({}) = {} /\ Cardinality({}) = 0
    BY FS_EmptySet
  <2>3. Equal(Zero, <<0, 1>>)
    BY DEF Equal, Zero
  <2>. QED
    BY <2>1, <2>2, <2>3
<1>2. ASSUME NEW T \in SUBSET S, NEW x \in S \ T, T \in I
      PROVE  Equal(SumOver(f, T \cup {x}), <<Cardinality(Ones(T \cup {x})), 1>>)
  <2>. DEFINE a == SumOver(f, T)
              b == SumOver(f, T \cup {x})
              n == Cardinality(Ones(T))
              m == Cardinality(Ones(T \cup {x}))
  <2>1. a \in Fraction /\ b \in Fraction /\ Equal(b, Plus(f[x], a))
    BY <1>0, SumOverAdd
  <2>2. n \in Nat /\ m \in Nat /\ Equal(a, <<n, 1>>)
    BY <1>0, <1>2
  <2>3. (f[x] = Zero /\ m = n) \/ (f[x] = One /\ m = n + 1)
    <3>1. CASE f[x] = Zero
      <4>1. f[x] # One
        BY <3>1 DEF Zero, One
      <4>2. Ones(T \cup {x}) = Ones(T)
        BY <4>1
      <4>. QED
        BY <3>1, <4>2
    <3>2. CASE f[x] = One
      <4>1. Ones(T \cup {x}) = Ones(T) \cup {x} /\ x \notin Ones(T)
        BY <3>2
      <4>. HIDE DEF Ones
      <4>. QED
        BY <1>0, <3>2, <4>1, FS_AddElement
    <3>. QED
      BY <3>1, <3>2
  <2>. HIDE DEF a, b, n, m
  <2>4. \E k \in {0, 1} : f[x] = <<k, 1>> /\ m = n + k
    BY <2>2, <2>3 DEF Zero, One
  <2>5. PICK k \in {0, 1} : f[x] = <<k, 1>> /\ m = n + k
    BY <2>4
  <2>6. <<k, 1>> \in Fraction /\ <<n, 1>> \in Fraction /\ <<m, 1>> \in Fraction
    BY <2>2 DEF Fraction
  <2>7. Plus(<<k, 1>>, <<n, 1>>) = <<m, 1>>
    BY <2>2, <2>5 DEF Plus
  <2>8. Equal(Plus(<<k, 1>>, a), <<m, 1>>)
    <3>. DEFINE p == <<k, 1>>
                q == <<n, 1>>
                r == <<m, 1>>
    <3>1. p \in Fraction /\ q \in Fraction /\ r \in Fraction /\ Plus(p, q) = r /\ Equal(a, q)
      BY <2>2, <2>6, <2>7
    <3>. HIDE DEF p, q, r
    <3>2. AtMost(a, q) /\ AtMost(q, a) /\ AtMost(p, p)
      BY <2>1, <3>1, Compared
    <3>3. AtMost(Plus(p, a), r) /\ AtMost(r, Plus(p, a))
      BY <2>1, <3>1, <3>2, PlusMonotone
    <3>4. Plus(p, a) \in Fraction
      BY <2>1, <3>1, PlusIs
    <3>5. Equal(Plus(p, a), r)
      BY <3>1, <3>3, <3>4, Compared
    <3>. QED
      BY <3>5 DEF p, r
  <2>9. Plus(<<k, 1>>, a) \in Fraction
    BY <2>1, <2>6, PlusIs
  <2>10. Equal(b, <<m, 1>>)
    BY <2>1, <2>5, <2>6, <2>8, <2>9, Compared
  <2>. QED
    BY <2>10 DEF b, m
<1>3. S \in I
  <2>1. \A T \in SUBSET S : \A x \in S \ T : T \in I => T \cup {x} \in I
    BY <1>2
  <2>. HIDE DEF I
  <2>. QED
    BY <1>1, <2>1, SetInduction
<1>. QED
  BY <1>3

-----------------------------------------------------------------------------
(* The means.                                                              *)

\* The mean of larger fractions is larger.
LEMMA MeanMonotone ==
    ASSUME NEW f, NEW g, NEW D, IsFiniteSet(D), DOMAIN f = D, DOMAIN g = D,
           \A x \in D : f[x] \in Fraction, \A x \in D : g[x] \in Fraction,
           \A x \in D : AtMost(f[x], g[x])
    PROVE  Mean(f) \in Fraction /\ Mean(g) \in Fraction /\ AtMost(Mean(f), Mean(g))
<1>. DEFINE a == SumOver(f, D)
            b == SumOver(g, D)
            n == Cardinality(D)
<1>1. Sum(f) = a /\ Sum(g) = b
  BY DEF Sum, SumOver, FoldFunction
<1>2. a \in Fraction /\ b \in Fraction /\ AtMost(a, b)
  BY SumOverRemove, SumOverMonotone
<1>3. CASE D = {}
  BY <1>3 DEF Mean, Zero, Fraction, AtMost
<1>4. CASE D # {}
  <2>1. n \in Nat \ {0}
    BY <1>4, FS_CardinalityType, FS_EmptySet
  <2>2. Mean(f) = <<a[1], a[2] * n>> /\ Mean(g) = <<b[1], b[2] * n>>
    BY <1>1, <1>4 DEF Mean
  <2>. HIDE DEF a, b, n
  <2>3. a[1] \in Int /\ b[1] \in Int /\ a[2] \in Nat \ {0} /\ b[2] \in Nat \ {0} /\ a[1] * b[2] <= b[1] * a[2]
    BY <1>2 DEF Fraction, AtMost
  <2>4. a[2] * n \in Nat \ {0} /\ b[2] * n \in Nat \ {0}
    BY <2>1, <2>3
  <2>5. a[1] * (b[2] * n) <= b[1] * (a[2] * n)
    <3>. DEFINE x == a[1] * b[2]
                y == b[1] * a[2]
    <3>1. x \in Int /\ y \in Int /\ x <= y
      BY <2>3
    <3>2. x * n = a[1] * (b[2] * n) /\ y * n = b[1] * (a[2] * n)
      BY <2>1, <2>3
    <3>. HIDE DEF x, y
    <3>. QED
      BY <2>1, <3>1, <3>2, Cancels
  <2>. QED
    BY <2>2, <2>3, <2>4, <2>5 DEF Fraction, AtMost
<1>. QED
  BY <1>3, <1>4

\* The mean of zeros and ones is the share of the ones.
LEMMA MeanOfOnes ==
    ASSUME NEW f, NEW D, IsFiniteSet(D), DOMAIN f = D, \A x \in D : f[x] \in {Zero, One}
    PROVE  Equal(Mean(f), Ratio(Cardinality({x \in D : f[x] = One}), Cardinality(D)))
<1>. DEFINE a == SumOver(f, D)
            n == Cardinality(D)
            k == Cardinality({x \in D : f[x] = One})
<1>1. Sum(f) = a
  BY DEF Sum, SumOver, FoldFunction
<1>2. a \in Fraction /\ Equal(a, <<k, 1>>) /\ k \in Nat
  <2>1. \A x \in D : f[x] \in Fraction
    BY DEF Zero, One, Fraction
  <2>2. IsFiniteSet({x \in D : f[x] = One})
    BY FS_Subset
  <2>. QED
    BY <2>1, <2>2, SumOverRemove, SumOverOnes, FS_CardinalityType
<1>3. CASE D = {}
  <2>1. n = 0
    BY <1>3, FS_EmptySet
  <2>. QED
    BY <1>3, <2>1 DEF Mean, Zero, Ratio, Equal
<1>4. CASE D # {}
  <2>1. n \in Nat \ {0}
    BY <1>4, FS_CardinalityType, FS_EmptySet
  <2>2. Mean(f) = <<a[1], a[2] * n>> /\ Ratio(k, n) = <<k, n>>
    BY <1>1, <1>4, <2>1 DEF Mean, Ratio
  <2>. HIDE DEF a, n, k
  <2>3. a[1] \in Int /\ a[2] \in Nat \ {0} /\ a[1] * 1 = k * a[2]
    BY <1>2 DEF Fraction, Equal
  <2>4. a[1] * n = k * (a[2] * n)
    <3>1. a[1] = k * a[2]
      BY <1>2, <2>3
    <3>2. (k * a[2]) * n = k * (a[2] * n)
      BY <1>2, <2>1, <2>3
    <3>. QED
      BY <3>1, <3>2
  <2>. QED
    BY <2>2, <2>4 DEF Equal, k, n
<1>. QED
  BY <1>3, <1>4

-----------------------------------------------------------------------------
(* What the loaders make of a file.                                        *)

\* An item, as the assumption on the disks has it.
AnItem == [heading : BOOLEAN, text : STRING]

\* The states of the loop of a loader that begins with a title.
SegmentsOf(file, title) ==
    [items : SUBSET Positions(file), section_title : STRING \cup {title}, page_number : {NoPage}]
States(file, title) ==
    [segments : Seq(SegmentsOf(file, title)), title : STRING \cup {title},
     buffer : SUBSET Positions(file)]

\* What flush does: u is st with the text of the buffer in a segment.
Flushed(file, st, u) ==
    /\ u.buffer = {} /\ u.title = st.title
    /\ WithText(file, st.buffer) = {} => u.segments = st.segments
    /\ WithText(file, st.buffer) # {} =>
           u.segments = Append(st.segments, Segment(WithText(file, st.buffer), st.title, NoPage))

\* A flush does that, and keeps the type of the state.
LEMMA FlushIs ==
    ASSUME NEW file, NEW title, NEW st \in States(file, title)
    PROVE  Flush(file, st) \in States(file, title) /\ Flushed(file, st, Flush(file, st))
<1>. DEFINE X == SegmentsOf(file, title)
            text == WithText(file, st.buffer)
            new == Segment(text, st.title, NoPage)
            more == IF text = {} THEN st.segments ELSE Append(st.segments, new)
<1>1. /\ st.segments \in Seq(X) /\ st.title \in STRING \cup {title}
      /\ st.buffer \in SUBSET Positions(file)
      /\ st = [segments |-> st.segments, title |-> st.title, buffer |-> st.buffer]
  BY DEF States
<1>2. new \in X
  <2>1. text \in SUBSET Positions(file)
    BY <1>1 DEF WithText
  <2>. HIDE DEF text
  <2>. QED
    BY <1>1, <2>1 DEF Segment, SegmentsOf
<1>3. Flush(file, st) = [segments |-> more, title |-> st.title, buffer |-> {}]
  <2>1. Flush(file, st) = [st EXCEPT !.segments = more, !.buffer = {}]
    BY DEF Flush
  <2>. HIDE DEF more
  <2>. QED
    BY <1>1, <2>1
<1>. HIDE DEF X, new
<1>4. more \in Seq(X)
  BY <1>1, <1>2
<1>5. Flush(file, st) \in States(file, title)
  <2>. HIDE DEF more
  <2>. QED
    BY <1>1, <1>3, <1>4 DEF States, X
<1>. QED
  BY <1>3, <1>5 DEF new, Flushed

\* What either loop does with an item: u is what it makes of st.
Taken(file, st, i, u) ==
    LET f == Flush(file, st)
        item == file.items[i]
    IN  /\ ~item.heading => /\ u.segments = st.segments /\ u.title = st.title
                            /\ u.buffer = st.buffer \cup {i}
        /\ item.heading =>
               /\ u.segments = f.segments
               /\ u.buffer = IF file.kind = "markdown" THEN {} ELSE {i}
               /\ u.title = IF file.kind # "markdown" /\ item.text = "" THEN st.title
                            ELSE item.text

\* Both do that with an item, and keep the type of the state.
LEMMA ItemIs ==
    ASSUME NEW file, file.items \in Seq(AnItem), NEW title, NEW st \in States(file, title),
           NEW i \in Positions(file)
    PROVE  /\ Item(file, st, i) \in States(file, title) /\ Taken(file, st, i, Item(file, st, i))
           /\ file.items[i].heading \in BOOLEAN
<1>. DEFINE f == Flush(file, st)
            item == file.items[i]
            V == States(file, title)
            u == Item(file, st, i)
<1>1. item \in AnItem
  <2>. DEFINE items == file.items
              A == AnItem
  <2>1. items \in Seq(A) /\ i \in DOMAIN items
    BY DEF Positions
  <2>. HIDE DEF items, A
  <2>2. items[i] \in A
    BY <2>1
  <2>. QED
    BY <2>2 DEF items, A
<1>2. item.heading \in BOOLEAN /\ item.text \in STRING
  BY <1>1 DEF AnItem
<1>3. f \in V /\ f.title = st.title /\ f.buffer = {}
  BY FlushIs DEF Flushed
<1>4. /\ \A r \in V : r = [segments |-> r.segments, title |-> r.title, buffer |-> r.buffer]
      /\ \A r \in V : \A t \in STRING \cup {title} : \A b \in SUBSET Positions(file) :
             [segments |-> r.segments, title |-> t, buffer |-> b] \in V
      /\ \A r \in V : r.title \in STRING \cup {title} /\ r.buffer \in SUBSET Positions(file)
  <2>. DEFINE S == Seq(SegmentsOf(file, title))
              T == STRING \cup {title}
              P == SUBSET Positions(file)
  <2>1. V = [segments : S, title : T, buffer : P]
    BY DEF States
  <2>. HIDE DEF S, T, P, V
  <2>2. /\ \A r \in V : r = [segments |-> r.segments, title |-> r.title, buffer |-> r.buffer]
        /\ \A r \in V : \A t \in T : \A b \in P :
               [segments |-> r.segments, title |-> t, buffer |-> b] \in V
        /\ \A r \in V : r.title \in T /\ r.buffer \in P
    BY <2>1
  <2>. QED
    BY <2>2 DEF T, P
<1>. HIDE DEF f, item, V
<1>10. /\ st = [segments |-> st.segments, title |-> st.title, buffer |-> st.buffer]
      /\ f = [segments |-> f.segments, title |-> st.title, buffer |-> {}]
  BY <1>3, <1>4 DEF V
<1>5. ~item.heading => /\ u \in V /\ u.segments = st.segments /\ u.title = st.title
                       /\ u.buffer = st.buffer \cup {i}
  <2>. SUFFICES ASSUME ~item.heading
                PROVE  /\ u \in V /\ u.segments = st.segments /\ u.title = st.title
                       /\ u.buffer = st.buffer \cup {i}
    OBVIOUS
  <2>1. u = [st EXCEPT !.buffer = @ \cup {i}]
    BY DEF Item, MarkdownLine, HtmlNode, item
  <2>. HIDE DEF u
  <2>2. u = [segments |-> st.segments, title |-> st.title, buffer |-> st.buffer \cup {i}]
    BY <1>10, <2>1
  <2>3. st.buffer \cup {i} \in SUBSET Positions(file) /\ st \in V
    BY <1>4 DEF V
  <2>4. u \in V
    BY <1>4, <2>2, <2>3
  <2>. QED
    BY <2>2, <2>4
<1>6. item.heading /\ file.kind = "markdown" =>
          u \in V /\ u.segments = f.segments /\ u.title = item.text /\ u.buffer = {}
  <2>. SUFFICES ASSUME item.heading, file.kind = "markdown"
                PROVE  u \in V /\ u.segments = f.segments /\ u.title = item.text /\ u.buffer = {}
    OBVIOUS
  <2>1. u = [f EXCEPT !.title = item.text]
    BY DEF Item, MarkdownLine, item, f
  <2>. HIDE DEF u
  <2>. DEFINE a == f.segments  b == item.text
  <2>0. f = [segments |-> a, title |-> st.title, buffer |-> {}]
    BY <1>10
  <2>. HIDE DEF a, b
  <2>2. u = [segments |-> a, title |-> b, buffer |-> {}]
    BY <2>0, <2>1 DEF b
  <2>. USE DEF a, b
  <2>3. u \in V
    BY <1>2, <1>3, <1>4, <2>2
  <2>. QED
    BY <2>2, <2>3
<1>. DEFINE t == IF item.text = "" THEN st.title ELSE item.text
<1>7. item.heading /\ file.kind # "markdown" =>
          u \in V /\ u.segments = f.segments /\ u.title = t /\ u.buffer = {i}
  <2>. SUFFICES ASSUME item.heading, file.kind # "markdown"
                PROVE  u \in V /\ u.segments = f.segments /\ u.title = t /\ u.buffer = {i}
    OBVIOUS
  <2>1. u = [f EXCEPT !.title = t, !.buffer = {i}]
    BY <1>3 DEF Item, HtmlNode, item, f
  <2>2. t \in STRING \cup {title}
    BY <1>2, <1>3, <1>4
  <2>. HIDE DEF t, u
  <2>3. u = [segments |-> f.segments, title |-> t, buffer |-> {i}]
    BY <1>10, <2>1
  <2>4. {i} \in SUBSET Positions(file)
    OBVIOUS
  <2>5. u \in V
    BY <1>3, <1>4, <2>2, <2>3, <2>4
  <2>. QED
    BY <2>3, <2>5
<1>. HIDE DEF u
<1>8. /\ u \in V
      /\ ~item.heading => /\ u.segments = st.segments /\ u.title = st.title
                          /\ u.buffer = st.buffer \cup {i}
      /\ item.heading =>
             /\ u.segments = f.segments
             /\ u.buffer = IF file.kind = "markdown" THEN {} ELSE {i}
             /\ u.title = IF file.kind # "markdown" /\ item.text = "" THEN st.title ELSE item.text
  BY <1>2, <1>5, <1>6, <1>7
<1>9. u \in V /\ Taken(file, st, i, u)
  BY <1>8 DEF Taken, item, f
<1>. QED
  BY <1>2, <1>9 DEF u, V, item

\* An item that names the section it begins.
Names(file, i) ==
    file.items[i].heading /\ (file.kind = "html" => file.items[i].text # "")

\* The title of a position is that of the item, if it names a section, or the
\* title of the position before.
LEMMA NearestStep ==
    ASSUME NEW file, file.kind \in {"markdown", "html"}, NEW i \in Nat, NEW m \in Nat, i = m + 1
    PROVE  /\ Names(file, i) => NearestTitle(file, i) = file.items[i].text
           /\ ~Names(file, i) => NearestTitle(file, i) = NearestTitle(file, m)
<1>1. 1 .. i = (1 .. m) \cup {i}
  OBVIOUS
<1>2. CASE Names(file, i)
  <2>. DEFINE A == Above(file, i)
              h == CHOOSE g \in A : \A k \in A : k <= g
  <2>0. i \in 1 .. i
    OBVIOUS
  <2>1. i \in A /\ \A k \in A : k \in 1 .. i
    BY <1>2, <2>0, Zenon DEF Above, Names
  <2>2. \A k \in A : k <= i
    BY <2>1
  <2>. HIDE DEF A
  <2>3. h \in A /\ \A k \in A : k <= h
    BY <2>1, <2>2
  <2>4. h = i
    <3>. HIDE DEF h
    <3>. QED
      BY <2>1, <2>3
  <2>5. NearestTitle(file, i) = file.items[h].text
    BY <2>1 DEF NearestTitle, A
  <2>. QED
    BY <1>2, <2>4, <2>5
<1>3. CASE ~Names(file, i)
  <2>1. Above(file, i) = Above(file, m)
    BY <1>1, <1>3 DEF Above, Names
  <2>. DEFINE T(A) == IF file.kind \notin {"markdown", "html"} THEN None
                     ELSE IF A # {}
                          THEN file.items[CHOOSE h \in A : \A g \in A : g <= h].text
                          ELSE IF file.kind = "html" THEN file.title ELSE None
  <2>2. NearestTitle(file, i) = T(Above(file, i))
        /\ NearestTitle(file, m) = T(Above(file, m))
    BY DEF NearestTitle
  <2>. HIDE DEF T
  <2>3. NearestTitle(file, i) = NearestTitle(file, m)
    BY <2>1, <2>2
  <2>. QED
    BY <1>3, <2>3
<1>. QED
  BY <1>2, <1>3

\* Above the first item there is no heading.
LEMMA NearestFirst ==
    ASSUME NEW file, file.kind \in {"markdown", "html"}
    PROVE  NearestTitle(file, 0) = IF file.kind = "html" THEN file.title ELSE None
<1>1. Above(file, 0) = {}
  BY DEF Above
<1>. QED
  BY <1>1 DEF NearestTitle

\* A title that is the one of every position it is given to.
Titled(file, segments) ==
    \A s \in DOMAIN segments : /\ segments[s].page_number = NoPage
                               /\ \A i \in segments[s].items :
                                      segments[s].section_title = NearestTitle(file, i)

\* What the loops keep after m items: what is in the buffer and in the segments
\* comes under its title; no item is in two of them, and no text in none.
Cutting(file, m, st) ==
    /\ st.title = NearestTitle(file, m)
    /\ st.buffer \subseteq 1 .. m
    /\ \A i \in st.buffer : NearestTitle(file, i) = st.title
    /\ Titled(file, st.segments)
    /\ \A s \in DOMAIN st.segments : st.segments[s].items \subseteq (1 .. m) \ st.buffer
    /\ \A s, t \in DOMAIN st.segments :
           s # t => st.segments[s].items \cap st.segments[t].items = {}
    /\ \A i \in Body(file) \cap (1 .. m) :
           i \in st.buffer \/ \E s \in DOMAIN st.segments : i \in st.segments[s].items

\* A flush keeps it, and leaves no text in the buffer.
LEMMA FlushKeeps ==
    ASSUME NEW file, NEW title, NEW st \in States(file, title), NEW m \in Nat,
           Cutting(file, m, st)
    PROVE  Cutting(file, m, Flush(file, st))
<1>. DEFINE u == Flush(file, st)
            text == WithText(file, st.buffer)
            new == Segment(text, st.title, NoPage)
<1>1. /\ u.buffer = {} /\ u.title = st.title
      /\ text = {} => u.segments = st.segments
      /\ text # {} => u.segments = Append(st.segments, new)
  <2>1. Flushed(file, st, u)
    BY FlushIs
  <2>. HIDE DEF u
  <2>. QED
    BY <2>1 DEF Flushed
<1>2. text \subseteq st.buffer /\ \A i \in st.buffer \cap Body(file) : i \in text
  BY DEF WithText, Body
<1>3. new.items = text /\ new.section_title = st.title /\ new.page_number = NoPage
  BY DEF Segment
<1>. HIDE DEF u, text, new
<1>4. CASE text = {}
  <2>1. Cutting(file, m, u)
    BY <1>1, <1>2, <1>4 DEF Cutting
  <2>. QED
    BY <2>1 DEF u
<1>5. CASE text # {}
  <2>. DEFINE old == st.segments
              n == Len(old)
              X == SegmentsOf(file, title)
  <2>1. old \in Seq(X)
    BY DEF States
  <2>. HIDE DEF X
  <2>2. /\ n \in Nat /\ DOMAIN old = 1 .. n /\ DOMAIN u.segments = 1 .. n + 1
        /\ \A s \in 1 .. n : u.segments[s] = old[s]
        /\ u.segments[n + 1] = new
    BY <1>1, <1>5, <2>1
  <2>3. \A s \in 1 .. n + 1 : s \in 1 .. n \/ s = n + 1
    BY <2>2
  <2>4. 1 .. n \subseteq 1 .. n + 1 /\ n + 1 \in 1 .. n + 1 /\ n + 1 \notin 1 .. n
    BY <2>2
  <2>5. /\ Titled(file, old)
        /\ \A s \in 1 .. n : old[s].items \subseteq (1 .. m) \ st.buffer
        /\ \A s, t \in 1 .. n : s # t => old[s].items \cap old[t].items = {}
        /\ \A i \in Body(file) \cap (1 .. m) : i \in st.buffer \/ \E s \in 1 .. n : i \in old[s].items
        /\ st.buffer \subseteq 1 .. m /\ \A i \in st.buffer : NearestTitle(file, i) = st.title
        /\ st.title = NearestTitle(file, m)
    BY <2>2 DEF Cutting
  <2>. HIDE DEF old, n
  <2>6. Titled(file, u.segments)
    <3>. SUFFICES ASSUME NEW s \in 1 .. n + 1
                  PROVE  /\ u.segments[s].page_number = NoPage
                         /\ \A i \in u.segments[s].items :
                                u.segments[s].section_title = NearestTitle(file, i)
      BY <2>2 DEF Titled
    <3>1. CASE s \in 1 .. n
      BY <2>2, <2>5, <3>1 DEF Titled
    <3>2. CASE s = n + 1
      BY <1>2, <1>3, <2>2, <2>5, <3>2
    <3>. QED
      BY <2>3, <3>1, <3>2
  <2>7. \A s \in 1 .. n + 1 : u.segments[s].items \subseteq 1 .. m
    BY <1>2, <1>3, <2>2, <2>3, <2>5
  <2>8. \A s, t \in 1 .. n + 1 : s # t => u.segments[s].items \cap u.segments[t].items = {}
    <3>. SUFFICES ASSUME NEW s \in 1 .. n + 1, NEW t \in 1 .. n + 1, s # t
                  PROVE  u.segments[s].items \cap u.segments[t].items = {}
      OBVIOUS
    <3>1. CASE s \in 1 .. n /\ t \in 1 .. n
      BY <2>2, <2>5, <3>1
    <3>2. CASE s = n + 1
      <4>1. t \in 1 .. n
        BY <2>3, <3>2
      <4>2. u.segments[s].items = text /\ u.segments[t].items = old[t].items
        BY <1>3, <2>2, <3>2, <4>1
      <4>. QED
        BY <1>2, <2>5, <4>1, <4>2
    <3>3. CASE t = n + 1
      <4>1. s \in 1 .. n
        BY <2>3, <3>3
      <4>2. u.segments[t].items = text /\ u.segments[s].items = old[s].items
        BY <1>3, <2>2, <3>3, <4>1
      <4>. QED
        BY <1>2, <2>5, <4>1, <4>2
    <3>. QED
      BY <2>3, <3>1, <3>2, <3>3
  <2>9. ASSUME NEW i \in Body(file) \cap (1 .. m)
        PROVE  \E s \in 1 .. n + 1 : i \in u.segments[s].items
    <3>1. CASE i \in st.buffer
      BY <1>2, <1>3, <2>2, <2>4, <3>1
    <3>2. CASE \E s \in 1 .. n : i \in old[s].items
      BY <2>2, <2>4, <3>2
    <3>. QED
      BY <2>5, <3>1, <3>2
  <2>10. Cutting(file, m, u)
    BY <1>1, <2>2, <2>5, <2>6, <2>7, <2>8, <2>9 DEF Cutting
  <2>. QED
    BY <2>10 DEF u
<1>. QED
  BY <1>4, <1>5

\* Another item keeps it.
LEMMA ItemKeeps ==
    ASSUME NEW file, file.kind \in {"markdown", "html"}, file.items \in Seq(AnItem),
           NEW title, NEW st \in States(file, title),
           NEW m \in Nat, m + 1 \in Positions(file), Cutting(file, m, st)
    PROVE  Cutting(file, m + 1, Item(file, st, m + 1))
<1>. DEFINE i == m + 1
            u == Item(file, st, i)
            f == Flush(file, st)
            item == file.items[i]
            html == file.kind # "markdown"
<1>1. /\ ~item.heading => /\ u.segments = st.segments /\ u.title = st.title
                          /\ u.buffer = st.buffer \cup {i}
      /\ item.heading => /\ u.segments = f.segments
                         /\ u.buffer = IF file.kind = "markdown" THEN {} ELSE {i}
                         /\ u.title = IF html /\ item.text = "" THEN st.title ELSE item.text
  <2>1. Taken(file, st, i, u)
    BY ItemIs
  <2>. HIDE DEF u, i
  <2>. QED
    BY <2>1 DEF Taken
<1>2. item.heading \in BOOLEAN
  BY ItemIs
<1>3. NearestTitle(file, i) = IF item.heading /\ (html => item.text # "") THEN item.text
                              ELSE NearestTitle(file, m)
  <2>1. Names(file, i) <=> item.heading /\ (html => item.text # "")
    BY DEF Names
  <2>2. i \in Nat /\ i = m + 1
    OBVIOUS
  <2>. HIDE DEF i
  <2>3. /\ Names(file, i) => NearestTitle(file, i) = file.items[i].text
        /\ ~Names(file, i) => NearestTitle(file, i) = NearestTitle(file, m)
    BY <2>2, NearestStep
  <2>. QED
    BY <2>1, <2>3
<1>4. /\ 1 .. i = (1 .. m) \cup {i} /\ i \notin 1 .. m
  OBVIOUS
<1>5. Cutting(file, m, f) /\ f.buffer = {}
  BY FlushKeeps, FlushIs DEF Flushed
<1>6. i \in Body(file) /\ file.kind = "markdown" => ~item.heading
  BY DEF Body
<1>. HIDE DEF i, u, f, item
<1>7. CASE ~item.heading
  <2>1. u.title = NearestTitle(file, i) /\ NearestTitle(file, i) = st.title
    BY <1>1, <1>3, <1>7 DEF Cutting
  <2>2. \A j \in u.buffer : NearestTitle(file, j) = u.title
    BY <1>1, <1>7, <2>1 DEF Cutting
  <2>3. Cutting(file, i, u)
    BY <1>1, <1>4, <1>7, <2>1, <2>2 DEF Cutting
  <2>. QED
    BY <2>3 DEF u, i
<1>8. CASE item.heading
  <2>1. u.title = NearestTitle(file, i)
    <3>1. st.title = NearestTitle(file, m)
      BY DEF Cutting
    <3>. QED
      BY <1>1, <1>3, <1>8, <3>1
  <2>2. u.buffer \subseteq {i} /\ (i \in Body(file) => i \in u.buffer)
    BY <1>1, <1>6, <1>8
  <2>3. u.segments = f.segments
    BY <1>1, <1>8
  <2>4. Cutting(file, i, u)
    BY <1>4, <1>5, <2>1, <2>2, <2>3 DEF Cutting
  <2>. QED
    BY <2>4 DEF u, i
<1>. QED
  BY <1>2, <1>7, <1>8

\* w is the loop of a loader over a file, item by item.
Walk(w, file, title) ==
    LET n == Len(file.items)
    IN  /\ w \in [0 .. n -> States(file, title)] /\ w[0] = Opening(title)
        /\ \A m \in 0 .. n - 1 : w[m + 1] = Item(file, w[m], m + 1)
        /\ Cut(file, title) = Flush(file, w[n]).segments

\* There is such a loop.
LEMMA Walked ==
    ASSUME NEW file, file.items \in Seq(AnItem), NEW title
    PROVE  \E w : Walk(w, file, title)
<1>. DEFINE n == Len(file.items)
            D == 1 .. n
            V == States(file, title)
            seq == [i \in DOMAIN file.items |-> i]
            Next(st, i) == Item(file, st, i)
            end == FoldLeftDomain(Next, Opening(title), file.items)
            pick == [T \in SUBSET D |-> Max(T)]
            F == [i \in D |-> [v \in V |-> Item(file, v, i)]]
            Unfolded(g) == [T \in SUBSET D |-> IF T = {} THEN Opening(title)
                                            ELSE Item(file, g[T \ {Max(T)}], seq[Max(T)])]
            iter == CHOOSE g : g = Unfolded(g)
<1>1. n \in Nat /\ DOMAIN file.items = D /\ Positions(file) = D
  BY DEF Positions
<1>2. IsFiniteSet(D) /\ \A T \in SUBSET D : T # {} => Max(T) \in T
  <2>. HIDE DEF n
  <2>. QED
    BY <1>1, LastPosition
<1>3. \A i \in D : \A v \in V : Item(file, v, i) \in V
  BY <1>1, ItemIs
<1>4. Opening(title) \in V
  <2>. DEFINE X == SegmentsOf(file, title)
              empty == <<>>
  <2>1. empty \in Seq(X)
    OBVIOUS
  <2>. HIDE DEF X, empty
  <2>2. [segments |-> empty, title |-> title, buffer |-> {}]
            \in [segments : Seq(X), title : STRING \cup {title}, buffer : SUBSET Positions(file)]
    BY <2>1
  <2>. QED
    BY <2>2 DEF Opening, States, X, empty
<1>5. PICK h \in [SUBSET D -> V] : IsFold(h, D, Opening(title), F, pick)
  <2>1. F \in [D -> [V -> V]]
    BY <1>3
  <2>2. \A T \in SUBSET D : T # {} => pick[T] \in T
    BY <1>2
  <2>. DEFINE none == Opening(title)
  <2>. HIDE DEF D, V, F, pick, none
  <2>3. none \in V
    BY <1>4 DEF none
  <2>4. Foldable(D, V, none, F, pick)
    BY <1>2, <2>1, <2>2, <2>3 DEF Foldable
  <2>5. \E h \in [SUBSET D -> V] : IsFold(h, D, none, F, pick)
    BY <2>4, FoldExists
  <2>. QED
    BY <2>5 DEF none
<1>6. h = Unfolded(h)
  <2>1. ASSUME NEW T \in SUBSET D PROVE h[T] = Unfolded(h)[T]
    <3>1. CASE T = {}
      BY <1>5, <3>1 DEF IsFold
    <3>2. CASE T # {}
      <4>1. Max(T) \in D /\ T \ {Max(T)} \in SUBSET D /\ pick[T] = Max(T) /\ seq[Max(T)] = Max(T)
        BY <1>1, <1>2, <3>2
      <4>. HIDE DEF D, V
      <4>2. h[T \ {Max(T)}] \in V
        BY <1>5, <4>1
      <4>3. F[Max(T)][h[T \ {Max(T)}]] = Item(file, h[T \ {Max(T)}], Max(T))
        BY <4>1, <4>2
      <4>. HIDE DEF F, pick, seq
      <4>. QED
        BY <1>5, <3>2, <4>1, <4>3 DEF IsFold
    <3>. QED
      BY <3>1, <3>2
  <2>. HIDE DEF D, V
  <2>. QED
    BY <1>5, <2>1
<1>7. iter = Unfolded(iter)
  <2>. HIDE DEF Unfolded
  <2>. QED
    BY <1>6
<1>8. end = iter[D]
  BY <1>1 DEF FoldLeftDomain, FoldLeft, MapThenFoldSet
<1>9. iter[{}] = Opening(title)
  <2>. HIDE DEF iter
  <2>. QED
    BY <1>7
<1>10. ASSUME NEW m \in 0 .. n - 1
       PROVE  iter[1 .. m + 1] = Item(file, iter[1 .. m], m + 1)
  <2>. DEFINE T == 1 .. m + 1
  <2>1. T \in SUBSET D /\ T # {} /\ m + 1 \in T /\ m + 1 \in D
    BY <1>1
  <2>2. Max(T) \in T /\ \A k \in T : Max(T) >= k
    <3>1. IsFiniteSet(T) /\ T \subseteq Int
      <4>1. m + 1 \in Int /\ 1 \in Int
        OBVIOUS
      <4>. QED
        BY <4>1, FS_Interval
    <3>. HIDE DEF T
    <3>. QED
      BY <2>1, <3>1, Extremes
  <2>3. Max(T) = m + 1
    <3>. DEFINE x == Max(T)
    <3>1. x \in 1 .. m + 1 /\ x >= m + 1
      BY <2>1, <2>2
    <3>. HIDE DEF x
    <3>2. x = m + 1
      BY <3>1
    <3>. QED
      BY <3>2 DEF x
  <2>4. T \ {m + 1} = 1 .. m
    OBVIOUS
  <2>5. seq[m + 1] = m + 1
    BY <1>1, <2>1
  <2>. HIDE DEF iter, T, D, seq
  <2>6. iter[T] = Item(file, iter[T \ {Max(T)}], seq[Max(T)])
    BY <1>7, <2>1
  <2>. QED
    BY <2>3, <2>4, <2>5, <2>6 DEF T
<1>. DEFINE w == [m \in 0 .. n |-> iter[1 .. m]]
<1>. HIDE DEF iter
<1>11. \A m \in Nat : m \in 0 .. n => iter[1 .. m] \in V
  <2>. DEFINE I == {m \in Nat : m \in 0 .. n => iter[1 .. m] \in V}
  <2>1. 0 \in I
    <3>1. 1 .. 0 = {}
      OBVIOUS
    <3>. QED
      BY <1>4, <1>9, <3>1
  <2>2. ASSUME NEW m \in Nat, m \in I PROVE m + 1 \in I
    <3>. SUFFICES ASSUME m + 1 \in 0 .. n PROVE iter[1 .. m + 1] \in V
      OBVIOUS
    <3>1. m \in 0 .. n - 1 /\ m \in 0 .. n /\ m + 1 \in D
      BY <1>1
    <3>2. iter[1 .. m] \in V /\ iter[1 .. m + 1] = Item(file, iter[1 .. m], m + 1)
      BY <1>10, <2>2, <3>1
    <3>. HIDE DEF V, D
    <3>. QED
      BY <1>3, <3>1, <3>2
  <2>. HIDE DEF I
  <2>3. \A m \in Nat : m \in I
    BY <2>1, <2>2, NatInductionSet
  <2>. QED
    BY <2>3 DEF I
<1>12. w \in [0 .. n -> V]
  BY <1>1, <1>11
<1>13. w[0] = Opening(title)
  <2>1. 1 .. 0 = {} /\ 0 \in 0 .. n
    BY <1>1
  <2>. QED
    BY <1>9, <2>1
<1>14. \A m \in 0 .. n - 1 : w[m + 1] = Item(file, w[m], m + 1)
  <2>. SUFFICES ASSUME NEW m \in 0 .. n - 1 PROVE w[m + 1] = Item(file, w[m], m + 1)
    OBVIOUS
  <2>1. m \in 0 .. n /\ m + 1 \in 0 .. n
    BY <1>1
  <2>2. w[m] = iter[1 .. m] /\ w[m + 1] = iter[1 .. m + 1]
    BY <2>1
  <2>. QED
    BY <1>10, <2>2
<1>15. w[n] = end
  <2>1. n \in 0 .. n
    BY <1>1
  <2>. HIDE DEF n, end
  <2>2. w[n] = iter[1 .. n]
    BY <2>1
  <2>. QED
    BY <1>8, <2>2
<1>16. Cut(file, title) = Flush(file, w[n]).segments
  <2>1. Cut(file, title) = Flush(file, end).segments
    BY DEF Cut
  <2>. HIDE DEF end, w
  <2>. QED
    BY <1>15, <2>1
<1>17. Walk(w, file, title)
  <2>. HIDE DEF w
  <2>. QED
    BY <1>12, <1>13, <1>14, <1>16 DEF Walk
<1>. QED
  BY <1>17

\* st is what the loop and its last flush make of a file.
CutOf(file, title, st) ==
    /\ Cutting(file, Len(file.items), st) /\ st.buffer = {}
    /\ st.segments \in Seq(SegmentsOf(file, title)) /\ Cut(file, title) = st.segments

\* What a loader cuts is what a loop ends with that kept its invariant.
LEMMA CutIs ==
    ASSUME NEW file, file.kind \in {"markdown", "html"}, file.items \in Seq(AnItem), NEW title,
           title = IF file.kind = "html" THEN file.title ELSE None
    PROVE  \E st : CutOf(file, title, st)
<1>. DEFINE n == Len(file.items)
            V == States(file, title)
<1>1. n \in Nat /\ Positions(file) = 1 .. n
  BY DEF Positions
<1>2. PICK w : Walk(w, file, title)
  BY Walked
<1>3. /\ w \in [0 .. n -> V] /\ w[0] = Opening(title)
      /\ \A m \in 0 .. n - 1 : w[m + 1] = Item(file, w[m], m + 1)
      /\ Cut(file, title) = Flush(file, w[n]).segments
  BY <1>2 DEF Walk
<1>4. \A m \in Nat : m \in 0 .. n => Cutting(file, m, w[m])
  <2>. DEFINE I == {m \in Nat : m \in 0 .. n => Cutting(file, m, w[m])}
  <2>1. 0 \in I
    <3>1. w[0].segments = <<>> /\ w[0].title = title /\ w[0].buffer = {}
      BY <1>3 DEF Opening
    <3>2. NearestTitle(file, 0) = title
      BY NearestFirst
    <3>3. DOMAIN w[0].segments = {} /\ 1 .. 0 = {}
      BY <3>1
    <3>4. Cutting(file, 0, w[0])
      BY <3>1, <3>2, <3>3 DEF Cutting, Titled
    <3>. QED
      BY <3>4
  <2>2. ASSUME NEW m \in Nat, m \in I PROVE m + 1 \in I
    <3>. SUFFICES ASSUME m + 1 \in 0 .. n PROVE Cutting(file, m + 1, w[m + 1])
      OBVIOUS
    <3>1. m \in 0 .. n - 1 /\ m \in 0 .. n /\ m + 1 \in 1 .. n
      BY <1>1
    <3>2. Cutting(file, m, w[m]) /\ w[m] \in V /\ w[m + 1] = Item(file, w[m], m + 1)
      BY <1>3, <2>2, <3>1
    <3>. QED
      BY <1>1, <3>1, <3>2, ItemKeeps
  <2>. HIDE DEF I
  <2>3. \A m \in Nat : m \in I
    BY <2>1, <2>2, NatInductionSet
  <2>. QED
    BY <2>3 DEF I
<1>. DEFINE st == Flush(file, w[n])
<1>5. w[n] \in V /\ Cutting(file, n, w[n])
  BY <1>1, <1>3, <1>4
<1>6. Cutting(file, n, st) /\ st.buffer = {} /\ st \in V
  BY <1>1, <1>5, FlushKeeps, FlushIs DEF Flushed
<1>7. st.segments \in Seq(SegmentsOf(file, title))
  BY <1>6 DEF States
<1>8. CutOf(file, title, st)
  BY <1>3, <1>6, <1>7 DEF CutOf
<1>. QED
  BY <1>8

\* What a file's segments should be: each with the title and the page of every
\* item in it, and every item with text for the chunkers in just one.
SegmentsRight(file, segments) ==
    /\ IsFiniteSet(DOMAIN segments)
    /\ \A s \in DOMAIN segments : \A i \in segments[s].items :
           /\ Body(file) # {} => segments[s].section_title = NearestTitle(file, i)
           /\ segments[s].page_number = PageOf(file, i)
    /\ \A i \in Body(file) : Cardinality({s \in DOMAIN segments : i \in segments[s].items}) = 1

\* Just one.
LEMMA OneOf ==
    ASSUME NEW S, NEW e \in S, \A s \in S : s = e
    PROVE  Cardinality(S) = 1
<1>1. S = {e}
  OBVIOUS
<1>. QED
  BY <1>1, FS_Singleton

\* What the loops of the Markdown and of the HTML loader cut is right, and there
\* is some if there is a text.
LEMMA CutRight ==
    ASSUME NEW file, file.kind \in {"markdown", "html"}, file.items \in Seq(AnItem), NEW title,
           title = IF file.kind = "html" THEN file.title ELSE None
    PROVE  /\ SegmentsRight(file, Cut(file, title))
           /\ Body(file) # {} => Cut(file, title) # <<>>
<1>. DEFINE n == Len(file.items)
            X == SegmentsOf(file, title)
<1>a. PICK st : CutOf(file, title, st)
  BY CutIs
<1>1. /\ Cutting(file, n, st) /\ st.buffer = {} /\ st.segments \in Seq(X)
      /\ Cut(file, title) = st.segments
  BY <1>a DEF CutOf
<1>. DEFINE cut == st.segments
<1>2. Body(file) \subseteq 1 .. n
  <2>1. Positions(file) = 1 .. n
    BY DEF Positions
  <2>2. Body(file) \subseteq Positions(file)
    BY DEF Body, WithText
  <2>. QED
    BY <2>1, <2>2
<1>3. IsFiniteSet(DOMAIN cut)
  <2>. HIDE DEF X
  <2>. DEFINE l == Len(cut)
  <2>1. l \in Nat /\ DOMAIN cut = 1 .. l
    BY <1>1
  <2>. HIDE DEF l, cut
  <2>. QED
    BY <2>1, LastPosition
<1>4. /\ \A s \in DOMAIN cut : /\ cut[s].page_number = NoPage
                               /\ \A i \in cut[s].items :
                                      cut[s].section_title = NearestTitle(file, i)
      /\ \A s, t \in DOMAIN cut : s # t => cut[s].items \cap cut[t].items = {}
      /\ \A i \in Body(file) : \E s \in DOMAIN cut : i \in cut[s].items
  BY <1>1, <1>2 DEF Cutting, Titled
<1>5. \A i : PageOf(file, i) = NoPage
  BY DEF PageOf
<1>. HIDE DEF cut
<1>6. ASSUME NEW i \in Body(file)
      PROVE  Cardinality({s \in DOMAIN cut : i \in cut[s].items}) = 1
  <2>1. PICK s \in DOMAIN cut : i \in cut[s].items
    BY <1>4
  <2>2. \A t \in {t \in DOMAIN cut : i \in cut[t].items} : t = s
    BY <1>4, <2>1
  <2>. QED
    BY <2>1, <2>2, OneOf
<1>7. SegmentsRight(file, cut)
  BY <1>3, <1>4, <1>5, <1>6 DEF SegmentsRight
<1>8. Body(file) # {} => cut # <<>>
  <2>1. DOMAIN <<>> = {}
    OBVIOUS
  <2>. QED
    BY <1>4, <2>1
<1>. QED
  BY <1>1, <1>7, <1>8 DEF cut

\* A single segment.
LEMMA OneSegment ==
    ASSUME NEW file, NEW items, NEW title, NEW page, Body(file) \subseteq items,
           \A i \in items : /\ Body(file) # {} => title = NearestTitle(file, i)
                            /\ page = PageOf(file, i)
    PROVE  SegmentsRight(file, <<Segment(items, title, page)>>)
<1>. DEFINE new == Segment(items, title, page)
            one == <<new>>
<1>1. DOMAIN one = {1} /\ one[1] = new
  OBVIOUS
<1>2. new.items = items /\ new.section_title = title /\ new.page_number = page
  BY DEF Segment
<1>. HIDE DEF new, one
<1>3. IsFiniteSet(DOMAIN one)
  BY <1>1, FS_Singleton
<1>4. ASSUME NEW i \in Body(file)
      PROVE  Cardinality({s \in DOMAIN one : i \in one[s].items}) = 1
  <2>1. {s \in DOMAIN one : i \in one[s].items} = {1}
    BY <1>1, <1>2
  <2>. QED
    BY <2>1, FS_Singleton
<1>5. SegmentsRight(file, one)
  BY <1>1, <1>2, <1>3, <1>4 DEF SegmentsRight
<1>. QED
  BY <1>5 DEF one, new

\* The pages of a PDF that have text, in their order.
LEMMA PdfRight ==
    ASSUME NEW file, file.kind = "pdf", file.items \in Seq(AnItem)
    PROVE  SegmentsRight(file, Pdf(file))
<1>. DEFINE pages == WithText(file, Positions(file))
            n == Cardinality(pages)
            Upto(i) == {h \in pages : h <= i}
            Page(j) == CHOOSE i \in pages : Cardinality(Upto(i)) = j
            R == {x \in pages \X pages : x[1] < x[2]}
            pdf == [j \in 1 .. n |-> Segment({Page(j)}, None, Page(j))]
<1>1. IsFiniteSet(pages) /\ pages \subseteq Int /\ Body(file) = pages
  <2>. DEFINE l == Len(file.items)
  <2>1. l \in Nat /\ Positions(file) = 1 .. l
    BY DEF Positions
  <2>. HIDE DEF l
  <2>2. IsFiniteSet(1 .. l) /\ pages \subseteq 1 .. l /\ 1 .. l \subseteq Int
    <3>1. IsFiniteSet(1 .. l)
      BY <2>1, LastPosition
    <3>2. pages \subseteq 1 .. l
      BY <2>1 DEF WithText
    <3>3. 1 .. l \subseteq Int
      BY <2>1
    <3>. QED
      BY <3>1, <3>2, <3>3
  <2>3. Body(file) = pages
    BY DEF Body
  <2>. DEFINE I == 1 .. l
  <2>. HIDE DEF I, pages
  <2>4. IsFiniteSet(I) /\ pages \subseteq I /\ I \subseteq Int
    BY <2>2 DEF I
  <2>. QED
    BY <2>3, <2>4, FS_Subset
<1>. HIDE DEF pages
<1>2. StrictOrder(R, pages)
  <2>1. \A c, d \in pages : <<c, d>> \in R <=> c < d
    OBVIOUS
  <2>2. \A c, d, e \in pages : /\ ~(c < c) /\ (c # d => c < d \/ d < c)
                               /\ (c < d /\ d < e => c < e)
    BY <1>1
  <2>. HIDE DEF R
  <2>. QED
    BY <2>1, <2>2 DEF StrictOrder
<1>3. ASSUME NEW i \in pages
      PROVE  Cardinality(Upto(i)) = Cardinality(Ahead(R, pages, i)) + 1
  <2>1. Upto(i) = Ahead(R, pages, i) \cup {i} /\ i \notin Ahead(R, pages, i)
    <3>1. \A h \in pages : h <= i <=> h < i \/ h = i
      BY <1>1
    <3>2. \A h \in pages : <<h, i>> \in R <=> h < i
      OBVIOUS
    <3>3. ~(i < i)
      BY <1>1
    <3>. HIDE DEF R
    <3>. QED
      BY <3>1, <3>2, <3>3 DEF Ahead
  <2>. HIDE DEF Upto, R
  <2>2. IsFiniteSet(Ahead(R, pages, i))
    <3>1. Ahead(R, pages, i) \subseteq pages
      BY DEF Ahead
    <3>. QED
      BY <1>1, <3>1, FS_Subset
  <2>3. Cardinality(Ahead(R, pages, i) \cup {i}) = Cardinality(Ahead(R, pages, i)) + 1
    BY <2>1, <2>2, FS_AddElement
  <2>. QED
    BY <2>1, <2>3
<1>. HIDE DEF R, Upto
<1>4. /\ n \in Nat
      /\ \A i \in pages : Cardinality(Ahead(R, pages, i)) \in 0 .. n - 1
      /\ \A i, h \in pages : <<i, h>> \in R <=>
             Cardinality(Ahead(R, pages, i)) < Cardinality(Ahead(R, pages, h))
      /\ \A j \in 1 .. n : \E i \in pages : Cardinality(Ahead(R, pages, i)) = j - 1
  BY <1>1, <1>2, AheadCounts
<1>5. ASSUME NEW j \in 1 .. n
      PROVE  Page(j) \in pages /\ Cardinality(Upto(Page(j))) = j
  <2>1. PICK i \in pages : Cardinality(Ahead(R, pages, i)) = j - 1
    BY <1>4
  <2>2. Cardinality(Upto(i)) = j
    <3>1. j - 1 + 1 = j
      BY <1>4
    <3>. QED
      BY <1>3, <2>1, <3>1
  <2>. QED
    BY <2>2
<1>6. ASSUME NEW i \in pages, NEW h \in pages, Cardinality(Upto(i)) = Cardinality(Upto(h))
      PROVE  i = h
  <2>. DEFINE a == Cardinality(Ahead(R, pages, i))  b == Cardinality(Ahead(R, pages, h))
  <2>1. a + 1 = b + 1 /\ a \in 0 .. n - 1 /\ b \in 0 .. n - 1
    BY <1>3, <1>4, <1>6
  <2>2. (<<i, h>> \in R <=> a < b) /\ (<<h, i>> \in R <=> b < a)
    BY <1>4
  <2>. HIDE DEF a, b
  <2>3. ~(a < b) /\ ~(b < a)
    BY <1>4, <2>1
  <2>4. <<i, h>> \notin R /\ <<h, i>> \notin R
    BY <2>2, <2>3
  <2>. QED
    BY <1>2, <2>4 DEF StrictOrder
<1>7. \A i \in pages : Cardinality(Upto(i)) \in 1 .. n
  <2>. SUFFICES ASSUME NEW i \in pages PROVE Cardinality(Upto(i)) \in 1 .. n
    OBVIOUS
  <2>. DEFINE a == Cardinality(Ahead(R, pages, i))
  <2>1. a \in 0 .. n - 1 /\ n \in Nat /\ Cardinality(Upto(i)) = a + 1
    BY <1>3, <1>4
  <2>. HIDE DEF a, n
  <2>2. a + 1 \in 1 .. n
    BY <2>1
  <2>. QED
    BY <2>1, <2>2
<1>8. /\ DOMAIN pdf = 1 .. n
      /\ \A j \in 1 .. n : /\ pdf[j].items = {Page(j)} /\ pdf[j].section_title = None
                           /\ pdf[j].page_number = Page(j)
  BY DEF Segment
<1>9. Pdf(file) = pdf
  BY DEF Pdf, pages, Upto
<1>. HIDE DEF pdf
<1>10. \A i : NearestTitle(file, i) = None /\ PageOf(file, i) = i
  BY DEF NearestTitle, PageOf
<1>11. ASSUME NEW i \in pages
       PROVE  Cardinality({j \in DOMAIN pdf : i \in pdf[j].items}) = 1
  <2>. DEFINE k == Cardinality(Upto(i))
  <2>1. k \in 1 .. n
    BY <1>7
  <2>2. Page(k) = i
    BY <1>5, <1>6, <2>1
  <2>. HIDE DEF n
  <2>3. ASSUME NEW j \in 1 .. n, i \in pdf[j].items PROVE j = k
    <3>1. Page(j) = i
      BY <1>8, <2>3
    <3>. QED
      BY <1>5, <3>1
  <2>. HIDE DEF Page, k
  <2>4. k \in {j \in DOMAIN pdf : i \in pdf[j].items}
    BY <1>8, <2>1, <2>2
  <2>5. \A j \in {j \in DOMAIN pdf : i \in pdf[j].items} : j = k
    BY <1>8, <2>3
  <2>. QED
    BY <2>4, <2>5, OneOf
<1>12. IsFiniteSet(DOMAIN pdf)
  <2>. HIDE DEF n
  <2>. QED
    BY <1>4, <1>8, LastPosition
<1>13. SegmentsRight(file, pdf)
  <2>. HIDE DEF Page, n
  <2>. QED
    BY <1>1, <1>8, <1>10, <1>11, <1>12 DEF SegmentsRight
<1>. QED
  BY <1>9, <1>13

\* Whatever the file, its segments are right.
LEMMA SegmentsAreRight ==
    ASSUME NEW file, file.items \in Seq(AnItem)
    PROVE  SegmentsRight(file, Segments(file))
<1>1. CASE file.kind = "markdown"
  <2>1. SegmentsRight(file, Cut(file, None)) /\ (Body(file) # {} => Cut(file, None) # <<>>)
    BY <1>1, CutRight
  <2>2. Segments(file) = IF Cut(file, None) = <<>> THEN <<Segment(Positions(file), None, NoPage)>>
                         ELSE Cut(file, None)
    BY <1>1 DEF Segments, Markdown
  <2>3. CASE Cut(file, None) = <<>>
    <3>1. Body(file) = {}
      BY <2>1, <2>3
    <3>2. \A i : PageOf(file, i) = NoPage
      BY <1>1 DEF PageOf
    <3>3. SegmentsRight(file, <<Segment(Positions(file), None, NoPage)>>)
      BY <3>1, <3>2, OneSegment
    <3>. QED
      BY <2>2, <2>3, <3>3
  <2>. QED
    BY <2>1, <2>2, <2>3
<1>2. CASE file.kind = "html"
  <2>1. SegmentsRight(file, Cut(file, file.title))
    BY <1>2, CutRight
  <2>2. Segments(file) = Cut(file, file.title)
    BY <1>2 DEF Segments, Html
  <2>. QED
    BY <2>1, <2>2
<1>3. CASE file.kind = "pdf"
  <2>1. Segments(file) = Pdf(file)
    BY <1>3 DEF Segments
  <2>. QED
    BY <1>3, <2>1, PdfRight
<1>4. CASE file.kind \notin {"markdown", "html", "pdf"}
  <2>1. Segments(file) = <<Segment(WithText(file, Positions(file)), None, NoPage)>>
    BY <1>4 DEF Segments
  <2>2. \A i : NearestTitle(file, i) = None /\ PageOf(file, i) = NoPage
    BY <1>4 DEF NearestTitle, PageOf
  <2>3. Body(file) \subseteq WithText(file, Positions(file))
    BY DEF Body
  <2>. QED
    BY <2>1, <2>2, <2>3, OneSegment
<1>. QED
  BY <1>1, <1>2, <1>3, <1>4

\* What is stored was made by the visits so far.
StoredSound ==
    /\ IsFiniteSet(stored)
    /\ \A c \in stored : c.visit \in 1 .. Len(visits)

\* What is to be stored was made by the last visit, of this batch.
MadeSound ==
    /\ IsFiniteSet(made)
    /\ made # {} => /\ stage \in {"batch", "aborted"}
                    /\ first <= Len(visits) /\ Len(visits) \notin passed
    /\ \A c \in made : c.visit = Len(visits)
    /\ stage = "batch" => \A c \in stored : c.visit <= Over

\* The reports logged are exact, and of visits before this batch.
ReportedSound ==
    \A i \in DOMAIN reported :
        /\ Exact(reported[i].tally, reported[i].from, reported[i].to)
        /\ reported[i].to <= Len(visits)
        /\ stage = "batch" => reported[i].to < first

TallySound == stage \in {"batch", "aborted"} => Exact(tally, first, Over)

AbortSound == stage = "aborted" => \A c \in stored : c.visit <= Over \/ c \in made

\* Nothing has happened before main() has a collection.
StartSound ==
    /\ stage \notin {"batch", "aborted"} => made = {}
    /\ stage = "starting" => tally = NoTally /\ first = 1 /\ visits = <<>> /\ stored = {}

Counts == StoredSound /\ MadeSound /\ ReportedSound /\ TallySound /\ AbortSound /\ StartSound

-----------------------------------------------------------------------------
(* The operators.                                                          *)

\* An order of a finite set is a sequence of its elements.
LEMMA OrdersAreSequences ==
    ASSUME NEW S, IsFiniteSet(S), NEW s \in SetToSeqs(S)
    PROVE  s \in Seq(S)
<1>1. Cardinality(S) \in Nat
  BY FS_CardinalityType
<1>2. s \in [1 .. Cardinality(S) -> S]
  BY DEF SetToSeqs
<1>. QED
  BY <1>1, <1>2

\* The items of the files of a disk.
LEMMA ItemsOfFiles ==
    ASSUME disk \in Disks
    PROVE  \A path \in DOMAIN disk.files : File(path).items \in Seq(AnItem)
BY DisksAssumption DEF AnItem, File

\* The chunks of a document are finitely many, and all of the visit.
LEMMA ChunksOfVisit ==
    ASSUME NEW visit, NEW segments, IsFiniteSet(DOMAIN segments),
           NEW parts \in [DOMAIN segments -> 0 .. MaxParts]
    PROVE  /\ IsFiniteSet(Chunks(visit, segments, parts))
           /\ \A c \in Chunks(visit, segments, parts) : c.visit = visit
<1>. DEFINE D == DOMAIN segments
            ChunkOf(s, p) == [visit |-> visit, segment |-> s, part |-> p,
                              items |-> segments[s].items,
                              section_title |-> segments[s].section_title,
                              page_number |-> segments[s].page_number]
            Places == D \X (1 .. MaxParts)
            of == [x \in Places |-> ChunkOf(x[1], x[2])]
            all == {of[x] : x \in Places}
<1>1. IsFiniteSet(Places)
  <2>1. IsFiniteSet(1 .. MaxParts)
    BY FS_Interval, PartsAssumption
  <2>. QED
    BY <2>1, FS_Product
<1>2. IsFiniteSet(all)
  <2>1. of \in Surjection(Places, all)
    BY DEF Surjection
  <2>. QED
    BY <1>1, <2>1, FS_Surjection
<1>3. Chunks(visit, segments, parts) \subseteq all
  <2>. SUFFICES ASSUME NEW c \in Chunks(visit, segments, parts)
                PROVE  c \in all
    OBVIOUS
  <2>1. PICK s \in D : \E p \in 1 .. parts[s] : c = ChunkOf(s, p)
    BY DEF Chunks
  <2>2. PICK p \in 1 .. parts[s] : c = ChunkOf(s, p)
    BY <2>1
  <2>3. <<s, p>> \in Places
    BY PartsAssumption
  <2>4. of[<<s, p>>] = ChunkOf(s, p)
    BY <2>3
  <2>. QED
    BY <2>2, <2>3, <2>4
<1>4. \A c \in Chunks(visit, segments, parts) : c.visit = visit
  BY DEF Chunks
<1>. QED
  BY <1>2, <1>3, <1>4, FS_Subset

-----------------------------------------------------------------------------
(* Types.                                                                  *)

\* A report that counts nothing.
LEMMA NoTallyType == NoTally \in Tallies
BY DEF NoTally, Tallies

\* What Append makes.
LEMMA Appended ==
    ASSUME NEW F, NEW q \in Seq(F), NEW e \in F
    PROVE  /\ Append(q, e) \in Seq(F) /\ Len(Append(q, e)) = Len(q) + 1 /\ Len(q) \in Nat
           /\ DOMAIN Append(q, e) = 1 .. Len(q) + 1 /\ DOMAIN q = 1 .. Len(q)
           /\ \A i \in 1 .. Len(q) : Append(q, e)[i] = q[i]
           /\ Append(q, e)[Len(q) + 1] = e
OBVIOUS

\* A file more is skipped.
LEMMA SkippedType ==
    ASSUME NEW t \in Tallies, NEW path \in DOMAIN disk.files
    PROVE  LET u == [t EXCEPT !.skipped = Append(@, path)]
           IN  /\ u \in Tallies /\ u.documents = t.documents /\ u.chunks = t.chunks
               /\ u.skipped = Append(t.skipped, path)
<1>1. t.skipped \in Seq(DOMAIN disk.files) /\ t.documents \in Nat /\ t.chunks \in Nat
  BY DEF Tallies
<1>2. Append(t.skipped, path) \in Seq(DOMAIN disk.files)
  BY <1>1, Appended
<1>. QED
  BY <1>1, <1>2 DEF Tallies

\* A batch of files of the disk begins.
LEMMA BatchTypes ==
    ASSUME IngestTypeOK, NEW paths \in Seq(DOMAIN disk.files), Batch(paths)
    PROVE  IngestTypeOK'
<1>1. Tallies' = Tallies
  BY DEF Batch, Tallies
<1>2. Len(visits) \in Nat
  BY DEF IngestTypeOK
<1>. QED
  BY <1>1, <1>2, NoTallyType DEF Batch, IngestTypeOK

\* Chunks to be stored are of a visit there was.
LEMMA LastVisit ==
    ASSUME IngestTypeOK, MadeSound, made # {}
    PROVE  visits[Len(visits)] \in DOMAIN disk.files /\ Len(visits) \in 1 .. Len(visits)
<1>1. visits \in Seq(DOMAIN disk.files) /\ first \in 1 .. Len(visits) + 1 /\ first <= Len(visits)
  BY DEF IngestTypeOK, MadeSound
<1>2. Len(visits) \in Nat /\ first \in Nat \ {0}
  BY <1>1
<1>3. Len(visits) \in 1 .. Len(visits)
  BY <1>1, <1>2
<1>. QED
  BY <1>1, <1>3

\* Every step keeps the types.
LEMMA TypeStep ==
    ASSUME IngestTypeOK, MadeSound, [IngestNext]_ingestVars
    PROVE  IngestTypeOK'
<1>. USE DEF IngestTypeOK
<1>0. disk' = disk /\ Tallies' = Tallies
  BY DEF Tallies, IngestNext, ingestVars, Start, TakeDirectory, TakeFile, TakeFiles, Finish, Batch,
         Skip, LoadBreaks, Load, Index, IndexRejects, IndexBreaks, EndBatch
<1>a. Len(visits) \in Nat /\ first \in Nat
  OBVIOUS
<1>b. queue # <<>> => Head(queue) \in DOMAIN disk.files /\ Tail(queue) \in Seq(DOMAIN disk.files)
  OBVIOUS
<1>c. \A path \in DOMAIN disk.files : Append(visits, path) \in Seq(DOMAIN disk.files)
                                       /\ Len(Append(visits, path)) = Len(visits) + 1
  OBVIOUS
<1>d. /\ tally = [documents |-> tally.documents, chunks |-> tally.chunks, skipped |-> tally.skipped]
      /\ tally.documents \in Nat /\ tally.chunks \in Nat
      /\ tally.skipped \in Seq(DOMAIN disk.files)
  BY DEF Tallies
<1>1. CASE Start
  BY <1>0, <1>1 DEF Start
<1>2. CASE TakeDirectory
  <2>1. PICK candidates \in SetToSeqs({p \in disk.directories[Paths[argument]] :
                                        File(p).kind \in Supported}) : Batch(candidates)
    BY <1>2 DEF TakeDirectory
  <2>. DEFINE here == disk.directories[Paths[argument]]
              S == {p \in here : File(p).kind \in Supported}
  <2>2. IsFiniteSet(here) /\ here \subseteq DOMAIN disk.files
    BY <1>2, DisksAssumption DEF TakeDirectory, IsDirectory
  <2>3. IsFiniteSet(S)
    BY <2>2, FS_Subset
  <2>4. candidates \in Seq(S)
    BY <2>1, <2>3, OrdersAreSequences
  <2>5. candidates \in Seq(DOMAIN disk.files)
    BY <2>2, <2>4
  <2>. QED
    BY <2>1, <2>5, BatchTypes
<1>3. CASE TakeFile
  <2>1. Paths \in Seq(DOMAIN disk.files \cup DOMAIN disk.directories)
    BY DisksAssumption DEF Paths
  <2>2. argument \in DOMAIN Paths /\ Paths[argument] \notin DOMAIN disk.directories
    BY <1>3 DEF TakeFile, IsDirectory
  <2>3. Paths[argument] \in DOMAIN disk.files
    BY <2>1, <2>2
  <2>. QED
    BY <1>0, <1>3, <2>3 DEF TakeFile
<1>4. CASE TakeFiles
  BY <1>4, BatchTypes DEF TakeFiles
<1>5. CASE Finish
  BY <1>0, <1>5 DEF Finish
<1>6. CASE Skip
  <2>1. [tally EXCEPT !.skipped = Append(@, Head(queue))] \in Tallies
    BY <1>6, <1>b, SkippedType DEF Skip, Loading
  <2>. QED
    BY <1>0, <1>6, <1>a, <1>b, <1>c, <2>1 DEF Skip, Loading
<1>7. CASE LoadBreaks
  BY <1>0, <1>7 DEF LoadBreaks
<1>8. CASE Load
  <2>1. tally' = tally \/ tally' = [documents |-> tally.documents + 1, skipped |-> tally.skipped,
                                    chunks |-> tally.chunks]
    BY <1>8, <1>d DEF Load
  <2>2. tally.documents + 1 \in Nat
    BY <1>d
  <2>3. tally' \in Tallies
    BY <1>d, <2>1, <2>2 DEF Tallies
  <2>. QED
    BY <1>0, <1>8, <1>a, <1>b, <1>c, <2>3 DEF Load, Loading
<1>9. CASE IndexBreaks
  BY <1>0, <1>9 DEF IndexBreaks
<1>10. CASE Index
  <2>1. Cardinality(made) \in Nat
    BY FS_CardinalityType DEF MadeSound
  <2>2. tally' \in Tallies
    <3>1. tally' = [documents |-> tally.documents + 1, skipped |-> tally.skipped,
                    chunks |-> tally.chunks + Cardinality(made)]
      BY <1>10, <1>d DEF Index
    <3>2. /\ tally.documents + 1 \in Nat
          /\ tally.chunks \in Nat /\ tally.chunks + Cardinality(made) \in Nat
      <4>1. \A m, k \in Nat : m + k \in Nat /\ m + 1 \in Nat
        OBVIOUS
      <4>. QED
        BY <1>d, <2>1, <4>1
    <3>. QED
      BY <1>d, <3>1, <3>2 DEF Tallies
  <2>. QED
    BY <1>0, <1>10, <2>2 DEF Index
<1>11. CASE EndBatch
  <2>1. [tally |-> tally, from |-> first, to |-> Len(visits)]
            \in [tally : Tallies, from : Nat \ {0}, to : Nat]
    OBVIOUS
  <2>. QED
    BY <1>0, <1>11, <2>1 DEF EndBatch
<1>12. CASE IndexRejects
  <2>1. visits[Len(visits)] \in DOMAIN disk.files /\ Len(visits) \in 1 .. Len(visits)
    BY <1>12, LastVisit DEF IndexRejects
  <2>2. [tally EXCEPT !.skipped = Append(@, visits[Len(visits)])] \in Tallies
    BY <2>1, SkippedType
  <2>. QED
    BY <1>0, <1>12, <2>1, <2>2 DEF IndexRejects
<1>13. CASE UNCHANGED ingestVars
  BY <1>0, <1>13 DEF ingestVars
<1>. QED
  BY <1>1, <1>2, <1>3, <1>4, <1>5, <1>6, <1>7, <1>8, <1>9, <1>10, <1>11, <1>12, <1>13 DEF IngestNext

-----------------------------------------------------------------------------
(* The counts.                                                             *)

\* What was reported stays exact while nothing changes of the visits it is about.
LEMMA ReportedStays ==
    ASSUME IngestTypeOK, ReportedSound, reported' = reported, NEW n \in Nat,
           \A i \in DOMAIN reported : reported[i].to <= n,
           \A c \in stored \cup stored' : c.visit \in 1 .. n => (c \in stored' <=> c \in stored),
           \A v \in 1 .. n : visits'[v] = visits[v] /\ (v \in passed' <=> v \in passed),
           n <= Len(visits'), Len(visits') \in Nat, stage' = "batch" => n < first',
           first' \in Nat
    PROVE  ReportedSound'
<1>. SUFFICES ASSUME NEW i \in DOMAIN reported
              PROVE  /\ Exact(reported[i].tally, reported[i].from, reported[i].to)'
                     /\ reported[i].to <= Len(visits')
                     /\ stage' = "batch" => reported[i].to < first'
  BY DEF ReportedSound
<1>. DEFINE Reports == [tally : Tallies, from : Nat \ {0}, to : Nat]
            t == reported[i].tally
            a == reported[i].from
            b == reported[i].to
<1>1. /\ a \in Nat \ {0} /\ b \in Nat
  <2>1. reported \in Seq(Reports)
    BY DEF IngestTypeOK
  <2>. HIDE DEF Reports
  <2>2. reported[i] \in Reports
    BY <2>1
  <2>. QED
    BY <2>2 DEF Reports
<1>2. Exact(t, a, b) /\ b <= n
  BY DEF ReportedSound
<1>. HIDE DEF t, a, b
<1>3. a .. b \subseteq 1 .. n
  BY <1>1, <1>2
<1>4. {c \in stored' : c.visit \in (a .. b) \ passed'} = {c \in stored : c.visit \in (a .. b) \ passed}
  BY <1>3
<1>5. {visits'[v] : v \in passed' \cap (a .. b)} = {visits[v] : v \in passed \cap (a .. b)}
  BY <1>3
<1>6. /\ t.documents + Len(t.skipped) = b - a + 1
      /\ t.chunks = Cardinality({c \in stored' : c.visit \in (a .. b) \ passed'})
      /\ {t.skipped[j] : j \in DOMAIN t.skipped} = {visits'[v] : v \in passed' \cap (a .. b)}
  BY <1>2, <1>4, <1>5 DEF Exact
<1>7. Exact(reported[i].tally, reported[i].from, reported[i].to)'
  BY <1>6 DEF Exact, t, a, b
<1>. QED
  BY <1>1, <1>2, <1>7 DEF b

\* The reports are of visits before the batch, and of visits there were.
LEMMA ReportedBefore ==
    ASSUME IngestTypeOK, ReportedSound
    PROVE  /\ \A i \in DOMAIN reported : reported[i].to <= Len(visits)
           /\ stage = "batch" => \A i \in DOMAIN reported : reported[i].to <= first - 1
<1>. DEFINE Reports == [tally : Tallies, from : Nat \ {0}, to : Nat]
<1>1. reported \in Seq(Reports) /\ first \in Nat
  BY DEF IngestTypeOK
<1>2. \A i \in DOMAIN reported : reported[i].to \in Nat
  <2>. HIDE DEF Reports
  <2>1. \A i \in DOMAIN reported : reported[i] \in Reports
    BY <1>1
  <2>. QED
    BY <2>1 DEF Reports
<1>. QED
  BY <1>1, <1>2 DEF ReportedSound

\* A step that is about no visit changes no report.
LEMMA ReportsUnchanged ==
    ASSUME IngestTypeOK, ReportedSound, stored' = stored, visits' = visits, passed' = passed,
           reported' = reported, first' = first, stage' = "batch" => stage = "batch"
    PROVE  ReportedSound'
<1>1. Len(visits) \in Nat /\ first \in 1 .. Len(visits) + 1
  BY DEF IngestTypeOK
<1>2. CASE stage' = "batch"
  <2>1. first - 1 \in Nat /\ first - 1 <= Len(visits) /\ first - 1 < first /\ first \in Nat
    BY <1>1
  <2>. QED
    BY <1>1, <1>2, <2>1, ReportedBefore, ReportedStays
<1>3. CASE stage' # "batch"
  <2>1. Len(visits) <= Len(visits) /\ first \in Nat
    BY <1>1
  <2>. QED
    BY <1>1, <1>3, <2>1, ReportedBefore, ReportedStays
<1>. QED
  BY <1>2, <1>3

\* A visit that is skipped is one more, and its file one name more.
LEMMA SkippedExact ==
    ASSUME IngestTypeOK, NEW n \in Nat, first <= n, Exact(tally, first, n - 1),
           NEW path \in DOMAIN disk.files, tally' = [tally EXCEPT !.skipped = Append(@, path)],
           passed' = passed \cup {n}, visits'[n] = path,
           \A v \in first .. n - 1 : visits'[v] = visits[v],
           {c \in stored' : c.visit \in (first .. n) \ passed'} = {c \in stored : c.visit \in (first .. n - 1) \ passed}
    PROVE  /\ tally'.documents + Len(tally'.skipped) = n - first + 1
           /\ tally'.chunks = Cardinality({c \in stored' : c.visit \in (first .. n) \ passed'})
           /\ {tally'.skipped[i] : i \in DOMAIN tally'.skipped}
                  = {visits'[v] : v \in passed' \cap (first .. n)}
<1>1. tally \in Tallies /\ first \in Nat
  BY DEF IngestTypeOK
<1>2. /\ tally'.documents = tally.documents /\ tally'.chunks = tally.chunks
      /\ tally'.skipped = Append(tally.skipped, path)
      /\ tally.skipped \in Seq(DOMAIN disk.files) /\ tally.documents \in Nat
  BY <1>1, SkippedType DEF Tallies
<1>. DEFINE s == tally.skipped
<1>3. /\ Len(tally'.skipped) = Len(s) + 1 /\ Len(s) \in Nat
      /\ DOMAIN tally'.skipped = 1 .. Len(s) + 1 /\ DOMAIN s = 1 .. Len(s)
      /\ \A i \in 1 .. Len(s) : tally'.skipped[i] = s[i]
      /\ tally'.skipped[Len(s) + 1] = path
  BY <1>2, Appended
<1>4. {tally'.skipped[i] : i \in DOMAIN tally'.skipped} = {s[i] : i \in DOMAIN s} \cup {path}
  <2>. HIDE DEF s
  <2>. QED
    BY <1>3
<1>5. {visits'[v] : v \in passed' \cap (first .. n)}
          = {visits[v] : v \in passed \cap (first .. n - 1)} \cup {path}
  BY <1>1
<1>6. tally'.documents + Len(tally'.skipped) = n - first + 1
  <2>1. tally.documents + Len(s) = n - 1 - first + 1
    BY DEF Exact
  <2>. HIDE DEF s
  <2>2. n - first + 1 = (n - 1 - first + 1) + 1
    BY <1>1
  <2>3. \A d, l \in Nat : d + (l + 1) = (d + l) + 1
    OBVIOUS
  <2>4. tally'.documents = tally.documents /\ Len(tally'.skipped) = Len(s) + 1
    BY <1>2, <1>3
  <2>5. tally.documents \in Nat /\ Len(s) \in Nat
    BY <1>2, <1>3
  <2>6. tally.documents + (Len(s) + 1) = (tally.documents + Len(s)) + 1
    BY <2>3, <2>5
  <2>. QED
    BY <2>1, <2>2, <2>4, <2>6
<1>7. tally'.chunks = Cardinality({c \in stored' : c.visit \in (first .. n) \ passed'})
  BY <1>2 DEF Exact
<1>8. {s[i] : i \in DOMAIN s} = {visits[v] : v \in passed \cap (first .. n - 1)}
  BY DEF Exact
<1>. QED
  BY <1>4, <1>5, <1>6, <1>7, <1>8

\* A visit that is counted as a document names no file more.
LEMMA CountedExact ==
    ASSUME IngestTypeOK, NEW n \in Nat, first <= n, Exact(tally, first, n - 1),
           tally'.documents = tally.documents + 1, tally'.skipped = tally.skipped,
           tally'.chunks = Cardinality({c \in stored' : c.visit \in (first .. n) \ passed'}),
           passed' = passed, n \notin passed,
           \A v \in first .. n - 1 : visits'[v] = visits[v]
    PROVE  /\ tally'.documents + Len(tally'.skipped) = n - first + 1
           /\ tally'.chunks = Cardinality({c \in stored' : c.visit \in (first .. n) \ passed'})
           /\ {tally'.skipped[i] : i \in DOMAIN tally'.skipped}
                  = {visits'[v] : v \in passed' \cap (first .. n)}
<1>1. tally.documents \in Nat /\ Len(tally.skipped) \in Nat /\ first \in Nat
  BY DEF IngestTypeOK, Tallies
<1>2. {visits'[v] : v \in passed' \cap (first .. n)} = {visits[v] : v \in passed \cap (first .. n - 1)}
  BY <1>1
<1>3. tally'.documents + Len(tally'.skipped) = n - first + 1
  BY <1>1 DEF Exact
<1>4. {tally.skipped[i] : i \in DOMAIN tally.skipped}
          = {visits[v] : v \in passed \cap (first .. n - 1)}
  BY DEF Exact
<1>5. {tally'.skipped[i] : i \in DOMAIN tally'.skipped}
          = {tally.skipped[i] : i \in DOMAIN tally.skipped}
  OBVIOUS
<1>. QED
  BY <1>2, <1>3, <1>4, <1>5

\* A batch of which nothing has been visited is counted rightly.
LEMMA TallyEmpty ==
    ASSUME tally' = NoTally, NEW n \in Nat, first' = n + 1, Over' = n
    PROVE  TallySound'
<1>1. {c \in stored' : c.visit \in (n + 1 .. n) \ passed'} = {} /\ Cardinality({}) = 0
  BY FS_EmptySet
<1>2. {visits'[v] : v \in passed' \cap (n + 1 .. n)} = {}
  OBVIOUS
<1>3. NoTally.documents + Len(NoTally.skipped) = n - (n + 1) + 1
  BY DEF NoTally
<1>4. NoTally.chunks = 0 /\ {NoTally.skipped[i] : i \in DOMAIN NoTally.skipped} = {}
  BY DEF NoTally
<1>5. Exact(tally, first, Over)'
  <2>1. tally'.chunks = Cardinality({c \in stored' : c.visit \in (first' .. Over') \ passed'})
    BY <1>1, <1>4
  <2>2. {tally'.skipped[i] : i \in DOMAIN tally'.skipped}
            = {visits'[v] : v \in passed' \cap (first' .. Over')}
    BY <1>2, <1>4
  <2>3. tally'.documents + Len(tally'.skipped) = Over' - first' + 1
    BY <1>3
  <2>. QED
    BY <2>1, <2>2, <2>3 DEF Exact
<1>. QED
  BY <1>5 DEF TallySound

\* A count stays right while nothing of its visits changes.
LEMMA TallyUnchanged ==
    ASSUME Exact(tally, first, Over), tally' = tally, first' = first, Over' = Over,
           visits' = visits, passed' = passed,
           {c \in stored' : c.visit \in (first .. Over) \ passed'} = {c \in stored : c.visit \in (first .. Over) \ passed}
    PROVE  TallySound'
<1>1. tally'.documents + Len(tally'.skipped) = Over' - first' + 1
  BY DEF Exact
<1>2. tally'.chunks = Cardinality({c \in stored' : c.visit \in (first' .. Over') \ passed'})
  BY DEF Exact
<1>3. {tally'.skipped[i] : i \in DOMAIN tally'.skipped}
          = {visits'[v] : v \in passed' \cap (first' .. Over')}
  <2>1. {tally.skipped[i] : i \in DOMAIN tally.skipped}
            = {visits[v] : v \in passed \cap (first .. Over)}
    BY DEF Exact
  <2>. QED
    BY <2>1
<1>4. Exact(tally, first, Over)'
  BY <1>1, <1>2, <1>3 DEF Exact
<1>. QED
  BY <1>4 DEF TallySound

\* A batch begins with nothing counted.
LEMMA BatchCounts ==
    ASSUME IngestTypeOK, Counts, stage = "arguments", NEW paths, Batch(paths)
    PROVE  Counts'
<1>. USE DEF Counts
<1>1. /\ made = {} /\ made' = {} /\ stored' = stored /\ visits' = visits /\ passed' = passed
      /\ stage' = "batch" /\ first' = Len(visits) + 1 /\ tally' = NoTally /\ reported' = reported
      /\ Len(visits) \in Nat /\ passed \subseteq 1 .. Len(visits)
  BY DEF Batch, StartSound, IngestTypeOK
<1>2. StoredSound'
  BY <1>1 DEF StoredSound
<1>3. Over = Len(visits) /\ Over' = Len(visits)
  BY <1>1 DEF Over
<1>4. MadeSound'
  <2>1. \A c \in stored : c.visit <= Len(visits)
    BY <1>1 DEF StoredSound
  <2>2. IsFiniteSet(made')
    BY <1>1, FS_EmptySet
  <2>. QED
    BY <1>1, <1>3, <2>1, <2>2 DEF MadeSound
<1>5. ReportedSound'
  BY <1>1, ReportedBefore, ReportedStays
<1>6. TallySound'
  BY <1>1, <1>3, TallyEmpty
<1>7. AbortSound' /\ StartSound'
  BY <1>1 DEF AbortSound, StartSound
<1>. QED
  BY <1>2, <1>4, <1>5, <1>6, <1>7

\* A visit more changes nothing that was said of the earlier ones.
LEMMA NewVisit ==
    ASSUME IngestTypeOK, Counts, Loading, stored' = stored, reported' = reported, first' = first,
           visits' = Append(visits, Head(queue)),
           passed' \in {passed, passed \cup {Len(visits) + 1}}
    PROVE  /\ StoredSound' /\ ReportedSound'
           /\ Len(visits) \in Nat /\ first \in 1 .. Len(visits) + 1 /\ Len(visits') = Len(visits) + 1
           /\ Head(queue) \in DOMAIN disk.files /\ visits'[Len(visits) + 1] = Head(queue)
           /\ \A v \in 1 .. Len(visits) : visits'[v] = visits[v]
           /\ \A c \in stored : c.visit \in 1 .. Len(visits)
           /\ {c \in stored' : c.visit \in (first .. Len(visits) + 1) \ passed'}
                  = {c \in stored : c.visit \in (first .. Len(visits)) \ passed}
           /\ Exact(tally, first, Len(visits)) /\ passed \subseteq 1 .. Len(visits)
<1>1. Head(queue) \in DOMAIN disk.files
  BY DEF Loading, IngestTypeOK
<1>2. /\ Len(visits) \in Nat /\ first \in 1 .. Len(visits) + 1 /\ Len(visits') = Len(visits) + 1
      /\ visits'[Len(visits) + 1] = Head(queue) /\ passed \subseteq 1 .. Len(visits)
      /\ \A i \in 1 .. Len(visits) : visits'[i] = visits[i]
  BY <1>1, Appended DEF IngestTypeOK
<1>3. \A c \in stored : c.visit \in 1 .. Len(visits)
  BY DEF Counts, StoredSound
<1>4. StoredSound'
  BY <1>2, <1>3 DEF Counts, StoredSound
<1>5. \A c \in stored : c.visit \in (first .. Len(visits) + 1) \ passed'
                                 <=> c.visit \in (first .. Len(visits)) \ passed
  BY <1>2, <1>3
<1>6. Exact(tally, first, Len(visits))
  BY DEF Counts, TallySound, Loading, Over
<1>7. ReportedSound'
  <2>1. \A i \in DOMAIN reported : reported[i].to <= first - 1
    BY ReportedBefore DEF Counts, Loading
  <2>2. /\ first - 1 \in Nat /\ first - 1 <= Len(visits') /\ first - 1 < first'
        /\ Len(visits') \in Nat /\ first' \in Nat
        /\ \A v \in 1 .. first - 1 : visits'[v] = visits[v] /\ (v \in passed' <=> v \in passed)
    BY <1>2
  <2>. QED
    BY <2>1, <2>2, ReportedStays DEF Counts
<1>. QED
  BY <1>1, <1>2, <1>3, <1>4, <1>5, <1>6, <1>7

\* A file that cannot be loaded is one visit, and one of the skipped.
LEMMA SkipCounts ==
    ASSUME IngestTypeOK, Counts, Skip
    PROVE  Counts'
<1>. DEFINE path == Head(queue)
            n == Len(visits) + 1
<1>1. /\ Loading /\ disk' = disk /\ stored' = stored /\ stage' = stage /\ made' = {}
      /\ visits' = Append(visits, path) /\ first' = first /\ reported' = reported
      /\ passed' = passed \cup {n} /\ tally' = [tally EXCEPT !.skipped = Append(@, path)]
  BY DEF Skip, Loading
<1>2. /\ StoredSound' /\ ReportedSound' /\ Len(visits) \in Nat /\ first \in 1 .. Len(visits) + 1
      /\ Len(visits') = n /\ path \in DOMAIN disk.files /\ visits'[n] = path
      /\ \A v \in 1 .. Len(visits) : visits'[v] = visits[v]
      /\ \A c \in stored : c.visit \in 1 .. Len(visits)
      /\ {c \in stored' : c.visit \in (first .. n) \ passed'}
             = {c \in stored : c.visit \in (first .. Len(visits)) \ passed}
      /\ Exact(tally, first, Len(visits))
  BY <1>1, NewVisit
<1>3. Over' = n
  BY <1>1, <1>2 DEF Over
<1>4. MadeSound'
  <2>1. IsFiniteSet(made')
    BY <1>1, FS_EmptySet
  <2>. QED
    BY <1>1, <1>2, <1>3, <2>1 DEF MadeSound
<1>5. TallySound'
  <2>1. n \in Nat /\ first <= n /\ n - 1 = Len(visits) /\ \A v \in first .. n - 1 : visits'[v] = visits[v]
    BY <1>2
  <2>2. /\ tally'.documents + Len(tally'.skipped) = n - first + 1
        /\ tally'.chunks = Cardinality({c \in stored' : c.visit \in (first .. n) \ passed'})
        /\ {tally'.skipped[i] : i \in DOMAIN tally'.skipped}
               = {visits'[v] : v \in passed' \cap (first .. n)}
    <3>. HIDE DEF n, path
    <3>1. {c \in stored' : c.visit \in (first .. n) \ passed'} = {c \in stored : c.visit \in (first .. n - 1) \ passed}
      BY <1>1, <1>2, <2>1
    <3>. QED
      BY <1>1, <1>2, <2>1, <3>1, SkippedExact
  <2>. QED
    BY <1>1, <1>3, <2>2 DEF TallySound, Exact
<1>6. AbortSound' /\ StartSound'
  BY <1>1 DEF AbortSound, StartSound, Loading
<1>. QED
  BY <1>2, <1>4, <1>5, <1>6 DEF Counts

\* A document without chunks is counted; one with chunks not yet.
LEMMA LoadCounts ==
    ASSUME IngestTypeOK, Counts, Load
    PROVE  Counts'
<1>. DEFINE path == Head(queue)
            segments == Segments(File(path))
            n == Len(visits) + 1
<1>1. /\ Loading /\ disk' = disk /\ stored' = stored /\ stage' = stage /\ first' = first
      /\ visits' = Append(visits, path) /\ reported' = reported /\ passed' = passed
      /\ tally' = IF made' = {} THEN [tally EXCEPT !.documents = @ + 1] ELSE tally
  BY DEF Load
<1>2. /\ StoredSound' /\ ReportedSound' /\ Len(visits) \in Nat /\ first \in 1 .. Len(visits) + 1
      /\ Len(visits') = n /\ path \in DOMAIN disk.files
      /\ \A v \in 1 .. Len(visits) : visits'[v] = visits[v]
      /\ \A c \in stored : c.visit \in 1 .. Len(visits)
      /\ {c \in stored' : c.visit \in (first .. n) \ passed'}
             = {c \in stored : c.visit \in (first .. Len(visits)) \ passed}
      /\ Exact(tally, first, Len(visits)) /\ passed \subseteq 1 .. Len(visits)
  BY <1>1, NewVisit
<1>3. AbortSound' /\ StartSound'
  BY <1>1 DEF AbortSound, StartSound, Loading
<1>4. CASE made' = {}
  <2>1. Over' = n
    BY <1>2, <1>4 DEF Over
  <2>2. MadeSound'
    <3>1. IsFiniteSet(made')
      BY <1>4, FS_EmptySet
    <3>. QED
      BY <1>1, <1>2, <1>4, <2>1, <3>1 DEF MadeSound
  <2>3. /\ tally'.chunks = tally.chunks /\ tally'.skipped = tally.skipped
        /\ tally'.documents = tally.documents + 1
    BY <1>1, <1>4 DEF IngestTypeOK, Tallies
  <2>4. /\ n \in Nat /\ first <= n /\ n - 1 = Len(visits) /\ n \notin passed
        /\ \A v \in first .. n - 1 : visits'[v] = visits[v]
    BY <1>2
  <2>5. tally'.chunks = Cardinality({c \in stored' : c.visit \in (first .. n) \ passed'})
    BY <1>1, <1>2, <2>3 DEF Exact
  <2>6. /\ tally'.documents + Len(tally'.skipped) = n - first + 1
        /\ tally'.chunks = Cardinality({c \in stored' : c.visit \in (first .. n) \ passed'})
        /\ {tally'.skipped[i] : i \in DOMAIN tally'.skipped}
               = {visits'[v] : v \in passed' \cap (first .. n)}
    <3>. HIDE DEF n, path
    <3>. QED
      BY <1>1, <1>2, <2>3, <2>4, <2>5, CountedExact
  <2>7. TallySound'
    BY <1>1, <2>1, <2>6 DEF TallySound, Exact
  <2>. QED
    BY <1>2, <1>3, <2>2, <2>7 DEF Counts
<1>5. CASE made' # {}
  <2>1. IsFiniteSet(DOMAIN segments)
    <3>1. File(path).items \in Seq(AnItem)
      BY <1>2, ItemsOfFiles DEF IngestTypeOK
    <3>2. SegmentsRight(File(path), segments)
      <4>. DEFINE file == File(path)
      <4>. HIDE DEF file
      <4>1. SegmentsRight(file, Segments(file))
        BY <3>1, SegmentsAreRight DEF file
      <4>. QED
        BY <4>1 DEF file
    <3>. QED
      BY <3>2 DEF SegmentsRight
  <2>2. IsFiniteSet(made') /\ \A c \in made' : c.visit = n
    BY <2>1, ChunksOfVisit DEF Load
  <2>3. Over' = Len(visits)
    BY <1>2, <1>5 DEF Over
  <2>4. MadeSound'
    BY <1>1, <1>2, <2>2, <2>3 DEF MadeSound, Loading
  <2>5. TallySound'
    <3>1. tally' = tally
      BY <1>1, <1>5
    <3>2. {visits'[v] : v \in passed \cap (first .. Len(visits))}
              = {visits[v] : v \in passed \cap (first .. Len(visits))}
      BY <1>2
    <3>3. /\ tally.documents + Len(tally.skipped) = Len(visits) - first + 1
          /\ tally.chunks = Cardinality({c \in stored : c.visit \in (first .. Len(visits)) \ passed})
          /\ {tally.skipped[i] : i \in DOMAIN tally.skipped}
                 = {visits'[v] : v \in passed \cap (first .. Len(visits))}
      BY <1>2, <3>2 DEF Exact
    <3>. QED
      BY <1>1, <2>3, <3>1, <3>3 DEF TallySound, Exact
  <2>. QED
    BY <1>2, <1>3, <2>4, <2>5 DEF Counts
<1>. QED
  BY <1>4, <1>5

\* What a step about the chunks made finds.
LEMMA MadeLast ==
    ASSUME IngestTypeOK, Counts, stage = "batch", made # {}
    PROVE  /\ Len(visits) \in Nat /\ first \in 1 .. Len(visits) /\ Over = Len(visits) - 1
           /\ passed \subseteq 1 .. Len(visits) - 1
           /\ \A c \in stored : c.visit \in 1 .. Len(visits) - 1
           /\ \A c \in made : c.visit = Len(visits)
           /\ Exact(tally, first, Len(visits) - 1)
           /\ IsFiniteSet(stored) /\ IsFiniteSet(made) /\ IsFiniteSet(stored \cup made)
<1>1. /\ Len(visits) \in Nat /\ first \in 1 .. Len(visits)
      /\ passed \subseteq 1 .. Len(visits) /\ Len(visits) \notin passed
  BY DEF IngestTypeOK, Counts, MadeSound
<1>2. Over = Len(visits) - 1
  BY DEF Over
<1>3. /\ \A c \in stored : c.visit \in 1 .. Len(visits) - 1
      /\ \A c \in made : c.visit = Len(visits)
  BY <1>1, <1>2 DEF Counts, StoredSound, MadeSound
<1>4. IsFiniteSet(stored) /\ IsFiniteSet(made) /\ IsFiniteSet(stored \cup made)
  BY FS_Union DEF Counts, StoredSound, MadeSound
<1>5. passed \subseteq 1 .. Len(visits) - 1
  BY <1>1
<1>. QED
  BY <1>1, <1>2, <1>3, <1>4, <1>5 DEF Counts, TallySound

\* What becomes of the last visit changes no report of earlier ones.
LEMMA EarlierReports ==
    ASSUME IngestTypeOK, Counts, stage = "batch", made # {}, visits' = visits,
           PartlyStored, reported' = reported, first' = first,
           passed' \in {passed, passed \cup {Len(visits)}}
    PROVE  ReportedSound'
<1>1. /\ Len(visits) \in Nat /\ first \in 1 .. Len(visits)
      /\ \A c \in stored : c.visit \in 1 .. Len(visits) - 1
      /\ \A c \in made : c.visit = Len(visits)
  BY MadeLast
<1>2. \A i \in DOMAIN reported : reported[i].to <= first - 1
  BY ReportedBefore DEF Counts
<1>3. /\ first - 1 \in Nat /\ first - 1 <= Len(visits') /\ first - 1 < first'
      /\ Len(visits') \in Nat /\ first' \in Nat
      /\ \A v \in 1 .. first - 1 : visits'[v] = visits[v] /\ (v \in passed' <=> v \in passed)
  BY <1>1
<1>4. \A c \in stored \cup stored' : c.visit \in 1 .. first - 1 => (c \in stored' <=> c \in stored)
  BY <1>1 DEF PartlyStored
<1>. QED
  BY <1>2, <1>3, <1>4, ReportedStays DEF Counts

\* The chunks of the last visit reach the collection, and are counted.
LEMMA IndexCounts ==
    ASSUME IngestTypeOK, Counts, Index
    PROVE  Counts'
<1>. DEFINE n == Len(visits)
<1>1. /\ stage = "batch" /\ made # {} /\ stored' = stored \cup made /\ made' = {}
      /\ stage' = stage /\ visits' = visits /\ first' = first /\ reported' = reported
      /\ passed' = passed
  BY DEF Index
<1>2. /\ n \in Nat /\ first \in 1 .. n /\ passed \subseteq 1 .. n - 1
      /\ \A c \in stored : c.visit \in 1 .. n - 1
      /\ \A c \in made : c.visit = n
      /\ Exact(tally, first, n - 1)
      /\ IsFiniteSet(stored) /\ IsFiniteSet(made) /\ IsFiniteSet(stored \cup made)
  BY <1>1, MadeLast
<1>3. StoredSound'
  BY <1>1, <1>2 DEF StoredSound
<1>4. Over' = n
  BY <1>1 DEF Over
<1>5. MadeSound'
  <2>1. IsFiniteSet(made')
    BY <1>1, FS_EmptySet
  <2>. QED
    BY <1>1, <1>2, <1>4, <2>1 DEF MadeSound
<1>6. ReportedSound'
  BY <1>1, EarlierReports DEF PartlyStored
<1>7. TallySound'
  <2>. DEFINE early == {c \in stored : c.visit \in (first .. n - 1) \ passed}
              now == {c \in stored' : c.visit \in (first .. n) \ passed'}
  <2>1. now = early \cup made /\ early \cap made = {}
    BY <1>1, <1>2
  <2>2. IsFiniteSet(early)
    BY <1>2, FS_Subset
  <2>3. Cardinality(now) = Cardinality(early) + Cardinality(made)
    <3>. HIDE DEF now, early
    <3>1. Cardinality(early \cup made)
              = Cardinality(early) + Cardinality(made) - Cardinality(early \cap made)
      BY <1>2, <2>2, FS_Union
    <3>2. Cardinality(early \cap made) = 0
      BY <2>1, FS_EmptySet
    <3>3. Cardinality(early) \in Nat /\ Cardinality(made) \in Nat
      BY <1>2, <2>2, FS_CardinalityType
    <3>. QED
      BY <2>1, <3>1, <3>2, <3>3
  <2>4. tally \in Tallies
    BY DEF IngestTypeOK
  <2>5. /\ tally'.documents = tally.documents + 1 /\ tally'.skipped = tally.skipped
        /\ tally'.chunks = tally.chunks + Cardinality(made)
    BY <2>4 DEF Index, Tallies
  <2>6. tally'.chunks = Cardinality(now)
    BY <1>2, <2>3, <2>5 DEF Exact
  <2>7. first <= n /\ n \notin passed /\ \A v \in first .. n - 1 : visits'[v] = visits[v]
    BY <1>1, <1>2
  <2>8. /\ tally'.documents + Len(tally'.skipped) = n - first + 1
        /\ tally'.chunks = Cardinality(now)
        /\ {tally'.skipped[i] : i \in DOMAIN tally'.skipped}
               = {visits'[v] : v \in passed' \cap (first .. n)}
    <3>. HIDE DEF n
    <3>. QED
      BY <1>1, <1>2, <2>5, <2>6, <2>7, CountedExact
  <2>. QED
    BY <1>1, <1>4, <2>8 DEF TallySound, Exact
<1>8. AbortSound' /\ StartSound'
  BY <1>1 DEF AbortSound, StartSound
<1>. QED
  BY <1>3, <1>5, <1>6, <1>7, <1>8 DEF Counts

\* The last visit is skipped after all: whatever is stored of it does not count.
LEMMA IndexRejectsCounts ==
    ASSUME IngestTypeOK, Counts, IndexRejects
    PROVE  Counts'
<1>. DEFINE n == Len(visits)
<1>1. /\ stage = "batch" /\ made # {} /\ PartlyStored /\ made' = {} /\ disk' = disk
      /\ stage' = stage /\ visits' = visits /\ first' = first /\ reported' = reported
      /\ passed' = passed \cup {n} /\ tally' = [tally EXCEPT !.skipped = Append(@, visits[n])]
  BY DEF IndexRejects
<1>2. /\ n \in Nat /\ first \in 1 .. n /\ passed \subseteq 1 .. n - 1
      /\ \A c \in stored : c.visit \in 1 .. n - 1
      /\ \A c \in made : c.visit = n
      /\ Exact(tally, first, n - 1) /\ IsFiniteSet(stored \cup made)
  BY <1>1, MadeLast
<1>3. StoredSound'
  <2>1. stored' \in SUBSET (stored \cup made)
    BY <1>1 DEF PartlyStored
  <2>2. IsFiniteSet(stored')
    BY <1>2, <2>1, FS_Subset
  <2>. QED
    BY <1>1, <1>2, <2>1, <2>2 DEF StoredSound
<1>4. Over' = n
  BY <1>1 DEF Over
<1>5. MadeSound'
  <2>1. IsFiniteSet(made')
    BY <1>1, FS_EmptySet
  <2>2. \A c \in stored' : c.visit <= n
    BY <1>1, <1>2 DEF PartlyStored
  <2>. QED
    BY <1>1, <1>2, <1>4, <2>1, <2>2 DEF MadeSound
<1>6. ReportedSound'
  BY <1>1, EarlierReports
<1>7. TallySound'
  <2>1. visits[n] \in DOMAIN disk.files
    BY <1>2 DEF IngestTypeOK
  <2>2. first <= n /\ visits'[n] = visits[n] /\ \A v \in first .. n - 1 : visits'[v] = visits[v]
    BY <1>1, <1>2
  <2>3. {c \in stored' : c.visit \in (first .. n) \ passed'}
            = {c \in stored : c.visit \in (first .. n - 1) \ passed}
    BY <1>1, <1>2 DEF PartlyStored
  <2>4. /\ tally'.documents + Len(tally'.skipped) = n - first + 1
        /\ tally'.chunks = Cardinality({c \in stored' : c.visit \in (first .. n) \ passed'})
        /\ {tally'.skipped[i] : i \in DOMAIN tally'.skipped}
               = {visits'[v] : v \in passed' \cap (first .. n)}
    <3>. HIDE DEF n
    <3>. QED
      BY <1>1, <1>2, <2>1, <2>2, <2>3, SkippedExact
  <2>. QED
    BY <1>1, <1>4, <2>4 DEF TallySound, Exact
<1>8. AbortSound' /\ StartSound'
  BY <1>1 DEF AbortSound, StartSound
<1>. QED
  BY <1>3, <1>5, <1>6, <1>7, <1>8 DEF Counts

\* The run ends with some of the chunks of the last visit stored.
LEMMA IndexBreaksCounts ==
    ASSUME IngestTypeOK, Counts, IndexBreaks
    PROVE  Counts'
<1>1. /\ stage = "batch" /\ made # {} /\ PartlyStored /\ made' = made
      /\ stage' = "aborted" /\ visits' = visits /\ first' = first
      /\ tally' = tally /\ reported' = reported /\ passed' = passed
  BY DEF IndexBreaks
<1>2. /\ Len(visits) \in Nat /\ first \in 1 .. Len(visits) /\ Over = Len(visits) - 1
      /\ passed \subseteq 1 .. Len(visits) - 1
      /\ \A c \in stored : c.visit \in 1 .. Len(visits) - 1
      /\ \A c \in made : c.visit = Len(visits)
      /\ Exact(tally, first, Len(visits) - 1)
      /\ IsFiniteSet(stored) /\ IsFiniteSet(made) /\ IsFiniteSet(stored \cup made)
  BY <1>1, MadeLast
<1>3. StoredSound'
  <2>1. \A c \in stored \cup made : c.visit \in 1 .. Len(visits)
    BY <1>2
  <2>2. stored' \in SUBSET (stored \cup made)
    BY <1>1 DEF PartlyStored
  <2>3. IsFiniteSet(stored')
    BY <1>2, <2>2, FS_Subset
  <2>. QED
    BY <1>1, <2>1, <2>2, <2>3 DEF StoredSound
<1>4. MadeSound'
  BY <1>1, <1>2 DEF Counts, MadeSound
<1>5. ReportedSound'
  BY <1>1, EarlierReports
<1>6. Over' = Len(visits) - 1
  BY <1>1 DEF Over
<1>7. TallySound'
  <2>1. {c \in stored' : c.visit \in (first .. Len(visits) - 1) \ passed'}
            = {c \in stored : c.visit \in (first .. Len(visits) - 1) \ passed}
    BY <1>1, <1>2 DEF PartlyStored
  <2>2. Exact(tally, first, Over) /\ Over' = Over
    BY <1>2, <1>6
  <2>. QED
    BY <1>1, <1>2, <2>1, <2>2, TallyUnchanged
<1>8. AbortSound'
  BY <1>1, <1>2, <1>6 DEF AbortSound, PartlyStored
<1>9. StartSound'
  BY <1>1 DEF StartSound
<1>. QED
  BY <1>3, <1>4, <1>5, <1>7, <1>8, <1>9 DEF Counts

\* Every step keeps the counts.
LEMMA CountStep ==
    ASSUME IngestTypeOK, Counts, [IngestNext]_ingestVars
    PROVE  Counts'
<1>1. CASE Start
  <2>1. /\ stage = "starting" /\ stage' \in {"arguments", "aborted"}
        /\ made' = made /\ made = {} /\ stored' = stored /\ stored = {} /\ visits' = visits
        /\ visits = <<>> /\ first' = first /\ first = 1 /\ tally' = tally /\ tally = NoTally
        /\ reported' = reported /\ Len(visits) = 0 /\ passed' = passed
    BY <1>1 DEF Start, Counts, StartSound
  <2>2. StoredSound' /\ MadeSound' /\ AbortSound' /\ StartSound'
    BY <2>1, FS_EmptySet DEF Counts, StoredSound, MadeSound, AbortSound, StartSound
  <2>3. ReportedSound'
    BY <2>1, ReportsUnchanged DEF Counts
  <2>4. TallySound'
    <3>1. tally' = NoTally /\ first' = 0 + 1 /\ Over' = 0
      BY <2>1 DEF Over
    <3>. QED
      BY <3>1, TallyEmpty
  <2>. QED
    BY <2>2, <2>3, <2>4 DEF Counts
<1>2. CASE TakeDirectory
  BY <1>2, BatchCounts DEF TakeDirectory
<1>3. CASE TakeFiles
  BY <1>3, BatchCounts DEF TakeFiles
<1>4. CASE Skip
  BY <1>4, SkipCounts
<1>5. CASE Load
  BY <1>5, LoadCounts
<1>6. CASE Index
  BY <1>6, IndexCounts
<1>7. CASE IndexBreaks
  BY <1>7, IndexBreaksCounts
<1>8. CASE TakeFile \/ Finish \/ LoadBreaks \/ UNCHANGED ingestVars
  <2>1. /\ made' = made /\ stored' = stored /\ visits' = visits /\ first' = first
        /\ tally' = tally /\ reported' = reported /\ Over' = Over /\ passed' = passed
        /\ stage' \in {"batch", "aborted"} => stage \in {"batch", "aborted"}
        /\ stage \in {"batch", "aborted"} => stage' \in {"batch", "aborted"}
        /\ stage' = "batch" => stage = "batch"
        /\ stage' = "starting" => stage = "starting"
        /\ stage' # stage /\ stage' = "aborted" => made = {} /\ stage = "batch"
        /\ Len(visits) \in Nat
    BY <1>8 DEF TakeFile, Finish, LoadBreaks, Loading, ingestVars, Over, IngestTypeOK
  <2>2. StoredSound' /\ MadeSound'
    BY <2>1 DEF Counts, StoredSound, MadeSound
  <2>3. ReportedSound'
    BY <2>1, ReportsUnchanged DEF Counts
  <2>4. TallySound'
    <3>1. CASE stage' \in {"batch", "aborted"}
      <4>1. Exact(tally, first, Over)
        BY <2>1, <3>1 DEF Counts, TallySound
      <4>. QED
        BY <2>1, <4>1, TallyUnchanged
    <3>2. CASE stage' \notin {"batch", "aborted"}
      BY <3>2 DEF TallySound
    <3>. QED
      BY <3>1, <3>2
  <2>5. AbortSound'
    <3>1. stage = "batch" => \A c \in stored : c.visit <= Over
      BY DEF Counts, MadeSound
    <3>2. stage = "aborted" => \A c \in stored : c.visit <= Over \/ c \in made
      BY DEF Counts, AbortSound
    <3>3. stage' = "aborted" => stage \in {"batch", "aborted"}
      BY <2>1
    <3>. QED
      BY <2>1, <3>1, <3>2, <3>3 DEF AbortSound
  <2>6. StartSound'
    BY <2>1 DEF Counts, StartSound
  <2>. QED
    BY <2>2, <2>3, <2>4, <2>5, <2>6 DEF Counts
<1>9. CASE EndBatch
  <2>1. /\ made' = made /\ made = {} /\ stored' = stored /\ visits' = visits /\ passed' = passed
        /\ first' = first /\ tally' = tally /\ stage = "batch" /\ stage' = "arguments"
        /\ reported' = Append(reported, [tally |-> tally, from |-> first, to |-> Len(visits)])
        /\ Len(visits) \in Nat /\ Over = Len(visits)
    BY <1>9 DEF EndBatch, Over, IngestTypeOK
  <2>2. StoredSound' /\ MadeSound' /\ TallySound' /\ AbortSound' /\ StartSound'
    BY <2>1 DEF Counts, StoredSound, MadeSound, TallySound, AbortSound, StartSound
  <2>3. ReportedSound'
    <3>. DEFINE r == [tally |-> tally, from |-> first, to |-> Len(visits)]
                Reports == [tally : Tallies, from : Nat \ {0}, to : Nat]
    <3>1. reported \in Seq(Reports) /\ r \in Reports
      BY DEF IngestTypeOK
    <3>2. Exact(r.tally, r.from, r.to) /\ r.to <= Len(visits)
      BY <2>1 DEF Counts, TallySound
    <3>. HIDE DEF r, Reports
    <3>3. /\ DOMAIN reported' = 1 .. Len(reported) + 1 /\ DOMAIN reported = 1 .. Len(reported)
          /\ \A i \in 1 .. Len(reported) : reported'[i] = reported[i]
          /\ reported'[Len(reported) + 1] = r /\ Len(reported) \in Nat
      BY <2>1, <3>1, Appended DEF r
    <3>. SUFFICES ASSUME NEW i \in DOMAIN reported'
                  PROVE  /\ Exact(reported[i].tally, reported[i].from, reported[i].to)'
                         /\ reported'[i].to <= Len(visits)
      BY <2>1 DEF ReportedSound
    <3>4. /\ Exact(reported'[i].tally, reported'[i].from, reported'[i].to)
          /\ reported'[i].to <= Len(visits)
      BY <3>2, <3>3 DEF Counts, ReportedSound
    <3>. QED
      BY <2>1, <3>4 DEF Exact
  <2>. QED
    BY <2>2, <2>3 DEF Counts
<1>10. CASE IndexRejects
  BY <1>10, IndexRejectsCounts
<1>. QED
  BY <1>1, <1>2, <1>3, <1>4, <1>5, <1>6, <1>7, <1>8, <1>9, <1>10 DEF IngestNext

-----------------------------------------------------------------------------
(* The theorems.                                                           *)

\* The program begins with nothing counted.
LEMMA Start0 ==
    ASSUME IngestInit
    PROVE  IngestTypeOK /\ Counts
<1>. USE DEF IngestInit, IngestBegin
<1>1. IngestTypeOK
  BY NoTallyType DEF IngestTypeOK
<1>2. Counts
  BY FS_EmptySet DEF Counts, StoredSound, MadeSound, ReportedSound, TallySound, AbortSound, StartSound
<1>. QED
  BY <1>1, <1>2

\* The variables keep their types and the counts stay right, whatever fails.
LEMMA Invariance == IngestSpec => [](IngestTypeOK /\ Counts)
<1>1. IngestInit => IngestTypeOK /\ Counts
  BY Start0
<1>2. IngestTypeOK /\ Counts /\ [IngestNext]_ingestVars => (IngestTypeOK /\ Counts)'
  BY TypeStep, CountStep DEF Counts
<1>. QED
  BY <1>1, <1>2, PTL DEF IngestSpec

\* The variables of IngestRun keep their types, for any disk.
THEOREM IngestTypeCorrect == IngestSpec => []IngestTypeOK
BY Invariance, PTL

-----------------------------------------------------------------------------
(* Where the chunks come from.                                             *)

\* c is a chunk of one of the segments.
OfSegment(c, segments) ==
    /\ c.segment \in DOMAIN segments
    /\ c.items = segments[c.segment].items
    /\ c.section_title = segments[c.segment].section_title
    /\ c.page_number = segments[c.segment].page_number

\* What is stored, or is to be, are chunks of the files of their visits, which
\* were loaded.
Provenance ==
    \A c \in made \cup stored :
        /\ c.visit \in DOMAIN visits /\ OfSegment(c, Segments(File(visits[c.visit])))
        /\ ~Rejected(File(visits[c.visit]))

\* make_chunk copies the segment it is given.
LEMMA ChunksOfSegments ==
    ASSUME NEW visit, NEW segments, NEW parts
    PROVE  \A c \in Chunks(visit, segments, parts) : c.visit = visit /\ OfSegment(c, segments)
BY DEF Chunks, OfSegment

\* The visits that were stay, and the chunks are of them or of the new one.
LEMMA ProvenanceStays ==
    ASSUME IngestTypeOK, Provenance, disk' = disk,
           \/ visits' = visits
           \/ \E path \in DOMAIN disk.files : visits' = Append(visits, path),
           \A c \in made' \cup stored' :
               \/ c \in made \cup stored
               \/ /\ c.visit \in DOMAIN visits'
                  /\ OfSegment(c, Segments(File(visits'[c.visit])))
                  /\ ~Rejected(File(visits'[c.visit]))
    PROVE  Provenance'
<1>1. DOMAIN visits \subseteq DOMAIN visits' /\ \A v \in DOMAIN visits : visits'[v] = visits[v]
  <2>1. CASE visits' = visits
    BY <2>1
  <2>2. CASE \E path \in DOMAIN disk.files : visits' = Append(visits, path)
    <3>1. PICK path \in DOMAIN disk.files : visits' = Append(visits, path)
      BY <2>2
    <3>2. visits \in Seq(DOMAIN disk.files)
      BY DEF IngestTypeOK
    <3>. DEFINE F == DOMAIN disk.files
    <3>. HIDE DEF F
    <3>3. visits \in Seq(F) /\ path \in F
      BY <3>1, <3>2 DEF F
    <3>. QED
      BY <3>1, <3>3, Appended
  <2>. QED
    BY <2>1, <2>2
<1>2. \A path : File(path)' = File(path)
  BY DEF File
<1>. SUFFICES ASSUME NEW c \in made' \cup stored'
              PROVE  /\ c.visit \in DOMAIN visits' /\ OfSegment(c, Segments(disk'.files[visits'[c.visit]]))
                     /\ ~Rejected(disk'.files[visits'[c.visit]])
  BY DEF Provenance, File
<1>3. CASE c \in made \cup stored
  <2>1. /\ c.visit \in DOMAIN visits /\ OfSegment(c, Segments(File(visits[c.visit])))
        /\ ~Rejected(File(visits[c.visit]))
    BY <1>3 DEF Provenance
  <2>2. c.visit \in DOMAIN visits' /\ visits'[c.visit] = visits[c.visit]
    BY <1>1, <2>1
  <2>. QED
    BY <2>1, <2>2 DEF File
<1>4. CASE /\ c.visit \in DOMAIN visits' /\ OfSegment(c, Segments(File(visits'[c.visit])))
           /\ ~Rejected(File(visits'[c.visit]))
  BY <1>4 DEF File
<1>. QED
  BY <1>3, <1>4

\* Every step keeps it.
LEMMA ProvenanceStep ==
    ASSUME IngestTypeOK, Provenance, [IngestNext]_ingestVars
    PROVE  Provenance'
<1>1. CASE Load
  <2>. DEFINE path == Head(queue)
              segments == Segments(File(path))
              n == Len(visits) + 1
  <2>1. /\ made = {} /\ stored' = stored /\ disk' = disk /\ visits' = Append(visits, path)
        /\ queue # <<>> /\ queue \in Seq(DOMAIN disk.files)
        /\ visits \in Seq(DOMAIN disk.files)
    BY <1>1 DEF Load, Loading, IngestTypeOK
  <2>2. PICK parts : made' = Chunks(n, segments, parts)
    BY <1>1 DEF Load
  <2>3. path \in DOMAIN disk.files
    BY <2>1
  <2>4. n \in DOMAIN visits' /\ visits'[n] = path
    <3>. DEFINE F == DOMAIN disk.files
    <3>1. visits \in Seq(F) /\ path \in F
      BY <2>1, <2>3
    <3>. HIDE DEF F, path
    <3>2. Len(visits) \in Nat /\ DOMAIN visits' = 1 .. Len(visits) + 1
          /\ visits'[Len(visits) + 1] = path
      BY <2>1, <3>1, Appended
    <3>. QED
      BY <3>2
  <2>5. \A c \in made' : c.visit \in DOMAIN visits' /\ OfSegment(c, Segments(File(visits'[c.visit])))
    BY <2>2, <2>4, ChunksOfSegments
  <2>6. \A c \in made' : ~Rejected(File(visits'[c.visit]))
    <3>1. ~Rejected(File(path))
      BY <1>1 DEF Load
    <3>2. \A c \in made' : c.visit = n
      BY <2>2, ChunksOfSegments
    <3>. QED
      BY <2>4, <3>1, <3>2
  <2>. QED
    BY <2>1, <2>3, <2>5, <2>6, ProvenanceStays
<1>2. CASE Skip
  <2>1. /\ made' = made /\ stored' = stored /\ disk' = disk
        /\ visits' = Append(visits, Head(queue))
        /\ queue # <<>> /\ queue \in Seq(DOMAIN disk.files)
    BY <1>2 DEF Skip, Loading, IngestTypeOK
  <2>2. Head(queue) \in DOMAIN disk.files
    BY <2>1
  <2>. QED
    BY <2>1, <2>2, ProvenanceStays
<1>3. CASE Index \/ IndexRejects \/ IndexBreaks
  <2>1. /\ visits' = visits /\ disk' = disk
        /\ made' \cup stored' \subseteq made \cup stored
    BY <1>3 DEF Index, IndexRejects, IndexBreaks, PartlyStored
  <2>. QED
    BY <2>1, ProvenanceStays
<1>4. CASE \/ Start \/ TakeDirectory \/ TakeFile \/ TakeFiles \/ Finish \/ LoadBreaks \/ EndBatch
           \/ UNCHANGED ingestVars
  <2>1. visits' = visits /\ disk' = disk /\ made' = made /\ stored' = stored
    BY <1>4 DEF Start, TakeDirectory, TakeFile, TakeFiles, Finish, LoadBreaks, EndBatch, Batch,
                ingestVars
  <2>. QED
    BY <2>1, ProvenanceStays
<1>. QED
  BY <1>1, <1>2, <1>3, <1>4 DEF IngestNext

\* In every behaviour what is stored, or is to be, is a chunk of a loaded file.
LEMMA ProvenanceHolds == IngestSpec => []Provenance
<1>1. IngestInit => Provenance
  BY DEF IngestInit, IngestBegin, Provenance
<1>2. IngestTypeOK /\ Provenance /\ [IngestNext]_ingestVars => Provenance'
  BY ProvenanceStep
<1>. QED
  BY <1>1, <1>2, IngestTypeCorrect, PTL DEF IngestSpec

\* Every report of scripts/ingest.py is exact, and so is the count under way
\* when the program is ended by what a loader, the model or the store raises, an
\* upsert having been applied in any part; of a file that cannot be loaded nothing
\* is in the collection.
THEOREM ReportsAreAccurate == IngestSpec => []ReportAccurate
<1>1. IngestTypeOK /\ Counts /\ Provenance => ReportAccurate
  <2>. SUFFICES ASSUME IngestTypeOK, Counts, Provenance
                PROVE  ReportAccurate
    OBVIOUS
  <2>1. \A i \in DOMAIN reported : Exact(reported[i].tally, reported[i].from, reported[i].to)
    BY DEF Counts, ReportedSound
  <2>2. stage \in {"batch", "aborted"} => Exact(tally, first, Over)
    BY DEF Counts, TallySound
  <2>3. \A c \in stored : c.visit <= Over \/ (stage = "aborted" /\ c \in made)
    <3>1. CASE stage = "batch"
      BY <3>1 DEF Counts, MadeSound
    <3>2. CASE stage = "aborted"
      BY <3>2 DEF Counts, AbortSound
    <3>3. CASE stage \notin {"batch", "aborted"}
      BY <3>3 DEF Counts, StartSound, StoredSound, Over
    <3>. QED
      BY <3>1, <3>2, <3>3
  <2>4. \A c \in stored : ~Rejected(File(visits[c.visit]))
    BY DEF Provenance
  <2>. QED
    BY <2>1, <2>2, <2>3, <2>4 DEF ReportAccurate
<1>. QED
  BY <1>1, Invariance, ProvenanceHolds, PTL

\* Whatever the files, a chunk in the collection, or on its way there, has the
\* title of the nearest heading above its text and the page the text is on; and
\* no text of a file is in two segments, or in none.
THEOREM ProvenanceIsNearest == IngestSpec => []NearestProvenance
<1>1. IngestTypeOK /\ Provenance => NearestProvenance
  <2>. SUFFICES ASSUME IngestTypeOK, Provenance
                PROVE  NearestProvenance
    OBVIOUS
  <2>1. ASSUME NEW path \in DOMAIN disk.files
        PROVE  SegmentsRight(File(path), Segments(File(path)))
    <3>1. File(path).items \in Seq(AnItem)
      BY ItemsOfFiles DEF IngestTypeOK
    <3>. DEFINE file == File(path)
    <3>. HIDE DEF file
    <3>2. SegmentsRight(file, Segments(file))
      BY <3>1, SegmentsAreRight DEF file
    <3>. QED
      BY <3>2 DEF file
  <2>2. ASSUME NEW c \in made \cup stored, NEW i \in c.items
        PROVE  LET file == File(visits[c.visit])
               IN  /\ Body(file) # {} => c.section_title = NearestTitle(file, i)
                   /\ c.page_number = PageOf(file, i)
    <3>. DEFINE file == File(visits[c.visit])
                segments == Segments(file)
    <3>1. c.visit \in DOMAIN visits /\ OfSegment(c, segments)
      BY DEF Provenance
    <3>2. visits[c.visit] \in DOMAIN disk.files
      <4>. DEFINE F == DOMAIN disk.files
      <4>1. visits \in Seq(F)
        BY DEF IngestTypeOK
      <4>. HIDE DEF F
      <4>2. visits[c.visit] \in F
        BY <3>1, <4>1
      <4>. QED
        BY <4>2 DEF F
    <3>3. SegmentsRight(file, segments)
      BY <2>1, <3>2
    <3>. HIDE DEF file, segments
    <3>4. /\ Body(file) # {} => c.section_title = NearestTitle(file, i)
          /\ c.page_number = PageOf(file, i)
      BY <3>1, <3>3 DEF SegmentsRight, OfSegment
    <3>. QED
      BY <3>4 DEF file
  <2>3. ASSUME NEW path \in DOMAIN disk.files
        PROVE  LET file == File(path)
               IN  ~Rejected(file) /\ ~Breaks(file) => \A i \in Body(file) :
                   Cardinality({s \in DOMAIN Segments(file) : i \in Segments(file)[s].items}) = 1
    BY <2>1 DEF SegmentsRight
  <2>. QED
    BY <2>2, <2>3 DEF NearestProvenance
<1>. QED
  BY <1>1, ProvenanceHolds, IngestTypeCorrect, PTL

-----------------------------------------------------------------------------
(* The scores of a ranking.                                                *)

\* The gains of some ranks.
Gained(T) == SumFunctionOnSet(Gain, T)

\* One rank more gains what it gains.
LEMMA GainedMore ==
    /\ Gained({}) = 0
    /\ \A T \in SUBSET (1 .. K) :
           /\ IsFiniteSet(T) /\ Gained(T) \in Nat
           /\ \A i \in T : Gained(T) = Gain[i] + Gained(T \ {i}) /\ Gain[i] \in Nat \ {0}
<1>1. IsFiniteSet(1 .. K) /\ \A i \in 1 .. K : Gain[i] \in Nat \ {0}
  <2>1. K \in Int /\ 1 \in Int
    BY KAssumption
  <2>. QED
    BY <2>1, GainAssumption, FS_Interval
<1>2. Gained({}) = 0
  BY FS_EmptySet, SumRemove DEF Gained
<1>. DEFINE D == 1 .. K
<1>3. ASSUME NEW T \in SUBSET D
      PROVE  /\ IsFiniteSet(T) /\ Gained(T) \in Nat
             /\ \A i \in T : Gained(T) = Gain[i] + Gained(T \ {i}) /\ Gain[i] \in Nat \ {0}
  <2>1. IsFiniteSet(T) /\ \A i \in T : Gain[i] \in Nat \ {0}
    <3>. HIDE DEF D
    <3>1. IsFiniteSet(D) /\ \A i \in D : Gain[i] \in Nat \ {0}
      BY <1>1 DEF D
    <3>. QED
      BY <3>1, FS_Subset
  <2>2. \A i \in T : Gain[i] \in Nat
    BY <2>1
  <2>. HIDE DEF D
  <2>. QED
    BY <2>1, <2>2, SumRemove DEF Gained
<1>. QED
  BY <1>2, <1>3

\* No ranks gain more than the first ones, as many: the ideal of nDCG.  Ranks
\* without the first gain less.
LEMMA IdealIsBest ==
    ASSUME NEW T \in SUBSET (1 .. K)
    PROVE  /\ Cardinality(T) \in 0 .. K
           /\ Gained(T) <= Gained(1 .. Cardinality(T))
           /\ T # {} /\ 1 \notin T => Gained(T) < Gained(1 .. Cardinality(T))
<1>0. K \in Nat /\ Gain \in [1 .. K -> Nat \ {0}] /\ \A i, j \in 1 .. K : i < j => Gain[j] < Gain[i]
  BY KAssumption, GainAssumption
<1>. DEFINE Best(U) == /\ Cardinality(U) \in 0 .. K
                       /\ Gained(U) <= Gained(1 .. Cardinality(U))
                       /\ U # {} /\ 1 \notin U => Gained(U) < Gained(1 .. Cardinality(U))
            I == {m \in Nat : m <= K => \A U \in SUBSET (1 .. m) : Best(U) /\ Cardinality(U) <= m}
<1>1. 0 \in I
  <2>1. \A U \in SUBSET (1 .. 0) : U = {}
    OBVIOUS
  <2>2. Cardinality({}) = 0 /\ Gained({}) = 0 /\ 1 .. 0 = {}
    BY FS_EmptySet, GainedMore
  <2>3. Best({})
    BY <1>0, <2>2
  <2>4. \A U \in SUBSET (1 .. 0) : Best(U) /\ Cardinality(U) <= 0
    <3>. SUFFICES ASSUME NEW U \in SUBSET (1 .. 0) PROVE Best(U) /\ Cardinality(U) <= 0
      OBVIOUS
    <3>1. U = {}
      BY <2>1
    <3>2. Cardinality({}) <= 0
      BY <2>2
    <3>. HIDE DEF Best
    <3>. QED
      BY <2>3, <3>1, <3>2
  <2>. HIDE DEF Best
  <2>. QED
    BY <2>4
<1>2. ASSUME NEW m \in Nat, m \in I, m + 1 <= K, NEW U \in SUBSET (1 .. m + 1)
      PROVE  Best(U) /\ Cardinality(U) <= m + 1
  <2>0. \A V \in SUBSET (1 .. m) : Best(V) /\ Cardinality(V) <= m
    <3>1. m <= K
      BY <1>0, <1>2
    <3>. HIDE DEF Best
    <3>. QED
      BY <1>2, <3>1
  <2>1. CASE m + 1 \notin U
    <3>1. U \in SUBSET (1 .. m)
      BY <2>1
    <3>2. Best(U) /\ Cardinality(U) <= m
      <4>. HIDE DEF Best
      <4>. QED
        BY <2>0, <3>1
    <3>3. Cardinality(U) \in Nat
      BY <3>2
    <3>4. Cardinality(U) <= m + 1
      BY <3>2, <3>3
    <3>. HIDE DEF Best
    <3>. QED
      BY <3>2, <3>4
  <2>2. CASE m + 1 \in U
    <3>. DEFINE V == U \ {m + 1}
                n == Cardinality(V)
    <3>1. V \in SUBSET (1 .. m) /\ U \in SUBSET (1 .. K) /\ V \in SUBSET (1 .. K)
      BY <1>0, <1>2
    <3>2. Best(V) /\ n <= m
      <4>. HIDE DEF Best, V
      <4>. QED
        BY <2>0, <3>1 DEF n
    <3>3. n \in Nat /\ Cardinality(U) = n + 1
      <4>1. IsFiniteSet(U)
        BY <3>1, GainedMore
      <4>. QED
        BY <2>2, <4>1, FS_RemoveElement, FS_CardinalityType
    <3>4. Gained(U) = Gain[m + 1] + Gained(V) /\ Gained(V) \in Nat
      BY <2>2, <3>1, GainedMore
    <3>5. Gained(1 .. n + 1) = Gain[n + 1] + Gained(1 .. n) /\ Gained(1 .. n) \in Nat
      <4>1. 1 .. n + 1 \in SUBSET (1 .. K) /\ 1 .. n \in SUBSET (1 .. K) /\ n + 1 \in 1 .. n + 1
        BY <1>0, <1>2, <3>2, <3>3
      <4>2. (1 .. n + 1) \ {n + 1} = 1 .. n
        BY <3>3
      <4>. DEFINE E == 1 .. n + 1
                  F == 1 .. n
                  e == n + 1
      <4>3. E \in SUBSET (1 .. K) /\ F \in SUBSET (1 .. K) /\ e \in E /\ E \ {e} = F
        BY <4>1, <4>2
      <4>. HIDE DEF E, F, e
      <4>4. Gained(E) = Gain[e] + Gained(E \ {e}) /\ Gained(F) \in Nat
        BY <4>3, GainedMore
      <4>. QED
        BY <4>3, <4>4 DEF E, F, e
    <3>6. /\ Gain[m + 1] \in Nat /\ Gain[n + 1] \in Nat /\ n + 1 \in 1 .. K /\ m + 1 \in 1 .. K
          /\ Gain[m + 1] <= Gain[n + 1]
          /\ n < m => Gain[m + 1] < Gain[n + 1]
      <4>1. m + 1 \in 1 .. K /\ n + 1 \in 1 .. K
        BY <1>0, <1>2, <3>2, <3>3
      <4>2. Gain[m + 1] \in Nat /\ Gain[n + 1] \in Nat
        BY <1>0, <4>1
      <4>3. n < m => Gain[m + 1] < Gain[n + 1]
        BY <1>0, <3>3, <4>1
      <4>4. n = m \/ n < m
        BY <3>2, <3>3
      <4>. HIDE DEF n
      <4>. QED
        BY <4>1, <4>2, <4>3, <4>4
    <3>7. Gained(V) <= Gained(1 .. n) /\ (V # {} /\ 1 \notin V => Gained(V) < Gained(1 .. n))
      BY <3>2 DEF n
    <3>8. Cardinality(U) \in 0 .. K /\ Cardinality(U) <= m + 1
      BY <1>0, <1>2, <3>2, <3>3
    <3>9. Gained(U) <= Gained(1 .. n + 1)
      BY <3>4, <3>5, <3>6, <3>7
    <3>10. ASSUME 1 \notin U PROVE Gained(U) < Gained(1 .. n + 1)
      <4>1. CASE V = {}
        <5>1. n = 0 /\ m # 0
          <6>1. Cardinality({}) = 0
            BY FS_EmptySet
          <6>2. m + 1 # 1
            BY <2>2, <3>10
          <6>3. n = 0
            <7>. HIDE DEF V
            <7>. QED
              BY <4>1, <6>1
          <6>4. m # 0
            BY <6>2
          <6>. QED
            BY <6>3, <6>4
        <5>2. n < m
          BY <5>1
        <5>. HIDE DEF V, n
        <5>. QED
          BY <3>4, <3>5, <3>6, <3>7, <5>2
      <4>2. CASE V # {}
        <5>1. Gained(V) < Gained(1 .. n)
          BY <3>7, <3>10, <4>2
        <5>. HIDE DEF V, n
        <5>. QED
          BY <3>4, <3>5, <3>6, <5>1
      <4>. QED
        BY <4>1, <4>2
    <3>. HIDE DEF V, n
    <3>. QED
      BY <3>3, <3>8, <3>9, <3>10
  <2>. HIDE DEF Best
  <2>. QED
    BY <2>1, <2>2
<1>3. \A m \in Nat : m \in I => m + 1 \in I
  <2>. HIDE DEF Best
  <2>. QED
    BY <1>2
<1>4. K \in I
  <2>. HIDE DEF I
  <2>. QED
    BY <1>0, <1>1, <1>3, NatInductionSet
<1>5. Best(T)
  <2>. HIDE DEF Best
  <2>. QED
    BY <1>0, <1>4
<1>. QED
  BY <1>5

\* More first ranks gain more, and any gain something.
LEMMA GainedPositive ==
    ASSUME NEW T \in SUBSET (1 .. K), T # {}
    PROVE  Gained(T) \in Nat \ {0}
<1>1. PICK i \in T : TRUE
  OBVIOUS
<1>2. Gained(T) = Gain[i] + Gained(T \ {i}) /\ Gain[i] \in Nat \ {0} /\ Gained(T \ {i}) \in Nat
  <2>1. T \ {i} \in SUBSET (1 .. K)
    OBVIOUS
  <2>. QED
    BY <1>1, <2>1, GainedMore
<1>. QED
  BY <1>2

\* A score is a fraction between 0 and 1.
LEMMA Scores ==
    /\ IsScore(Zero) /\ IsScore(One)
    /\ \A a \in Nat, b \in Nat \ {0} : a <= b => IsScore(<<a, b>>)
    /\ \A p : IsScore(p) => p \in Fraction
BY DEF IsScore, Zero, One, AtMost, Fraction

\* What the functions that score a ranking agree on.
RowSound(row) ==
    /\ \A key \in {"recall", "precision", "mrr", "ndcg", "hit_rate"} : IsScore(row[key])
    /\ row.retrieved \in Nat
    /\ row.hit_rate \in {Zero, One} /\ Equal(row.recall, row.hit_rate)
    /\ \A key \in {"precision", "mrr", "ndcg"} : (row[key][1] > 0) <=> (row.hit_rate = One)
    /\ row.hit_rate = One => row.mrr[2] + row.precision[1] - 1 <= row.retrieved
    /\ Equal(row.ndcg, One) => row.mrr = One
    /\ row.retrieved > 0 /\ row.precision[1] = row.retrieved => Equal(row.ndcg, One)

\* The functions that score a ranking no deeper than K agree on it.
LEMMA RowsSound ==
    ASSUME NEW example, NEW chunks, IsSequence(chunks), Len(chunks) <= K
    PROVE  RowSound(RetrievalRow(chunks, example))
<1>. DEFINE n == Len(chunks)
            ranks == RelevantRanks(chunks, example)
            total == TotalRelevant(ranks)
            r == Cardinality(ranks)
            row == RetrievalRow(chunks, example)
<1>1. n \in Nat /\ DOMAIN chunks = 1 .. n /\ n <= K /\ K \in Nat \ {0}
  BY KAssumption DEF IsSequence
<1>2. ranks \in SUBSET (1 .. n) /\ ranks \in SUBSET (1 .. K) /\ Top(ranks) = ranks
  BY <1>1 DEF RelevantRanks, Top
<1>3. /\ row = [recall |-> Recall(ranks, total), precision |-> Precision(ranks),
                mrr |-> ReciprocalRank(ranks), ndcg |-> Ndcg(ranks, total),
                hit_rate |-> HitRate(ranks), retrieved |-> n]
  BY DEF RetrievalRow
<1>. HIDE DEF row, ranks, total, n
<1>4. IsFiniteSet(ranks) /\ r \in 0 .. K
  BY <1>2, GainedMore, IdealIsBest
<1>5. CASE ranks = {}
  <2>1. r = 0 /\ total = 1
    BY <1>5, FS_EmptySet DEF TotalRelevant, total
  <2>2. Recall(ranks, total) = <<0, 1>> /\ Precision(ranks) = <<0, K>>
    BY <1>1, <1>2, <2>1 DEF Recall, Precision, Ratio
  <2>3. ReciprocalRank(ranks) = Zero /\ HitRate(ranks) = Zero
    BY <1>2, <1>5 DEF ReciprocalRank, HitRate
  <2>4. \E d \in Nat \ {0} : Ndcg(ranks, total) = <<0, d>>
    <3>1. Dcg(ranks) = 0
      BY <1>2, <1>5, GainedMore DEF Dcg, Gained
    <3>2. 1 .. 1 \in SUBSET (1 .. K) /\ 1 .. 1 # {} /\ Top(1 .. 1) = 1 .. 1
      BY <1>1 DEF Top
    <3>3. Dcg(1 .. 1) \in Nat \ {0}
      BY <3>2, GainedPositive DEF Dcg, Gained
    <3>4. (IF total < K THEN total ELSE K) = 1 /\ ~(total <= 0)
      BY <1>1, <2>1
    <3>5. Ndcg(ranks, total) = Ratio(Dcg(ranks), Dcg(1 .. 1))
      BY <2>1, <3>4 DEF Ndcg
    <3>6. Ndcg(ranks, total) = <<0, Dcg(1 .. 1)>>
      BY <3>1, <3>3, <3>5 DEF Ratio
    <3>. QED
      BY <3>3, <3>6
  <2>5. PICK d \in Nat \ {0} : Ndcg(ranks, total) = <<0, d>>
    BY <2>4
  <2>6. /\ row.recall = <<0, 1>> /\ row.precision = <<0, K>> /\ row.mrr = <<0, 1>>
        /\ row.ndcg = <<0, d>> /\ row.hit_rate = <<0, 1>> /\ row.retrieved = n
    BY <1>3, <2>2, <2>3, <2>5 DEF Zero
  <2>7. \A key \in {"recall", "precision", "mrr", "ndcg", "hit_rate"} : IsScore(row[key])
    <3>1. IsScore(<<0, 1>>) /\ IsScore(<<0, K>>) /\ IsScore(<<0, d>>)
      BY <1>1, Scores
    <3>. QED
      BY <2>6, <3>1
  <2>8. row.hit_rate = Zero /\ row.hit_rate # One /\ ~Equal(row.ndcg, One)
    BY <2>6 DEF Zero, One, Equal
  <2>9. Equal(row.recall, row.hit_rate)
    BY <2>6 DEF Equal
  <2>10. RowSound(row)
    BY <1>1, <2>6, <2>7, <2>8, <2>9 DEF RowSound
  <2>. QED
    BY <2>10 DEF row
<1>6. CASE ranks # {}
  <2>1. r \in 1 .. K /\ total = r
    <3>1. r # 0
      BY <1>4, <1>6, FS_EmptySet
    <3>. QED
      BY <1>4, <1>6, <3>1 DEF TotalRelevant, total
  <2>2. Recall(ranks, total) = <<r, r>> /\ Precision(ranks) = <<r, K>>
    BY <1>1, <1>2, <2>1 DEF Recall, Precision, Ratio
  <2>. DEFINE low == Min(ranks)
  <2>3. low \in ranks /\ (\A i \in ranks : low <= i) /\ low \in 1 .. n
    <3>1. ranks \subseteq Int
      BY <1>1, <1>2
    <3>. QED
      BY <1>2, <1>4, <1>6, <3>1, Extremes
  <2>4. ReciprocalRank(ranks) = <<1, low>> /\ HitRate(ranks) = One
    BY <1>2, <1>6 DEF ReciprocalRank, HitRate
  <2>. HIDE DEF low
  <2>. DEFINE g == Gained(ranks)
              b == Gained(1 .. r)
  <2>5. /\ 1 .. r \in SUBSET (1 .. K) /\ 1 .. r # {} /\ Top(1 .. r) = 1 .. r
    BY <1>1, <2>1 DEF Top
  <2>6. /\ g \in Nat \ {0} /\ b \in Nat \ {0} /\ g <= b /\ (1 \notin ranks => g < b)
    BY <1>2, <1>6, <2>5, GainedPositive, IdealIsBest
  <2>7. Ndcg(ranks, total) = <<g, b>>
    <3>1. (IF total < K THEN total ELSE K) = r
      BY <1>1, <2>1
    <3>2. Ndcg(ranks, total) = Ratio(Dcg(ranks), Dcg(1 .. r))
      BY <2>1, <3>1 DEF Ndcg
    <3>3. Dcg(ranks) = g /\ Dcg(1 .. r) = b
      BY <1>2, <2>5 DEF Dcg, Gained
    <3>. HIDE DEF g, b
    <3>. QED
      BY <2>6, <3>2, <3>3 DEF Ratio
  <2>8. low + r - 1 <= n
    <3>1. ranks \subseteq low .. n
      BY <1>1, <1>2, <2>3
    <3>2. IsFiniteSet(low .. n) /\ Cardinality(low .. n) = n - low + 1
      BY <1>1, <2>3, FS_Interval
    <3>3. r <= n - low + 1
      BY <3>1, <3>2, FS_Subset
    <3>. QED
      BY <1>1, <2>1, <2>3, <3>3
  <2>9. low # 1 => 1 \notin ranks
    BY <1>1, <1>2, <2>3
  <2>10. r = n => g = b
    <3>. SUFFICES ASSUME r = n PROVE g = b
      OBVIOUS
    <3>1. IsFiniteSet(1 .. n) /\ Cardinality(1 .. n) = n
      BY <1>1, FS_Interval
    <3>2. ranks = 1 .. n
      <4>. DEFINE A == 1 .. n
      <4>1. ranks \subseteq A /\ IsFiniteSet(A) /\ Cardinality(ranks) = Cardinality(A)
        BY <1>2, <3>1
      <4>. HIDE DEF A
      <4>2. ranks = A
        BY <4>1, FS_Subset
      <4>. QED
        BY <4>2 DEF A
    <3>. QED
      BY <3>2
  <2>. HIDE DEF g, b
  <2>11. /\ row.recall = <<r, r>> /\ row.precision = <<r, K>> /\ row.mrr = <<1, low>>
         /\ row.ndcg = <<g, b>> /\ row.hit_rate = <<1, 1>> /\ row.retrieved = n
    BY <1>3, <2>2, <2>4, <2>7 DEF One
  <2>. HIDE DEF r
  <2>12. \A key \in {"recall", "precision", "mrr", "ndcg", "hit_rate"} : IsScore(row[key])
    <3>1. low \in Nat \ {0} /\ r \in Nat \ {0} /\ r <= K /\ 1 <= low
      BY <1>1, <2>1, <2>3
    <3>2. IsScore(<<r, r>>) /\ IsScore(<<r, K>>) /\ IsScore(<<1, low>>) /\ IsScore(<<g, b>>) /\ IsScore(<<1, 1>>)
      BY <1>1, <2>6, <3>1, Scores
    <3>. QED
      BY <2>11, <3>2
  <2>13. row.hit_rate = One /\ Equal(row.recall, row.hit_rate)
    BY <2>1, <2>11 DEF One, Equal
  <2>14. \A key \in {"precision", "mrr", "ndcg"} : row[key][1] > 0
    <3>1. r > 0 /\ g > 0
      BY <2>1, <2>6
    <3>. QED
      BY <2>11, <3>1
  <2>15. Equal(row.ndcg, One) => row.mrr = One
    <3>1. Equal(row.ndcg, One) => g = b
      BY <2>6, <2>11 DEF Equal, One
    <3>2. g = b => low = 1
      BY <2>6, <2>9
    <3>. QED
      BY <2>11, <3>1, <3>2 DEF One
  <2>16. r = n => Equal(row.ndcg, One)
    BY <2>6, <2>10, <2>11 DEF Equal, One
  <2>17. row.hit_rate = One => row.mrr[2] + row.precision[1] - 1 <= row.retrieved
    BY <2>8, <2>11
  <2>18. row.retrieved > 0 /\ row.precision[1] = row.retrieved => Equal(row.ndcg, One)
    BY <2>11, <2>16
  <2>19. row.retrieved \in Nat
    BY <1>1, <2>11
  <2>20. RowSound(row)
    BY <2>12, <2>13, <2>14, <2>15, <2>17, <2>18, <2>19 DEF RowSound
  <2>. QED
    BY <2>20 DEF row
<1>. QED
  BY <1>5, <1>6 DEF row

-----------------------------------------------------------------------------
(* The scores of an answer.                                                *)

\* The words of an answer that the assumption on the setups describes.
Token == [word : STRING, cites : Int, plain : BOOLEAN]

\* A share of so many is a score.
LEMMA RatioScore ==
    ASSUME NEW a \in Nat, NEW b \in Nat, a <= b
    PROVE  IsScore(Ratio(a, b))
<1>1. CASE b = 0
  BY <1>1, Scores DEF Ratio
<1>2. CASE b # 0
  <2>1. Ratio(a, b) = <<a, b>>
    BY <1>2 DEF Ratio
  <2>. QED
    BY <1>2, <2>1, Scores
<1>. QED
  BY <1>1, <1>2

\* The share of a finite set that a part of it is.
LEMMA ShareScore ==
    ASSUME NEW S, IsFiniteSet(S), NEW T \in SUBSET S
    PROVE  IsScore(Ratio(Cardinality(T), Cardinality(S)))
<1>1. Cardinality(T) \in Nat /\ Cardinality(S) \in Nat /\ Cardinality(T) <= Cardinality(S)
  BY FS_Subset, FS_CardinalityType
<1>. QED
  BY <1>1, RatioScore

\* The positions of a sequence are finitely many, and so are its elements.
LEMMA FiniteSequence ==
    ASSUME NEW s, IsSequence(s)
    PROVE  /\ Len(s) \in Nat /\ DOMAIN s = 1 .. Len(s)
           /\ IsFiniteSet(DOMAIN s) /\ Cardinality(DOMAIN s) = Len(s)
           /\ IsFiniteSet(Range(s))
<1>1. Len(s) \in Nat /\ DOMAIN s = 1 .. Len(s)
  BY DEF IsSequence
<1>2. IsFiniteSet(1 .. Len(s)) /\ Cardinality(1 .. Len(s)) = Len(s)
  <2>. DEFINE l == Len(s)
  <2>1. l \in Int /\ 1 \in Int /\ l >= 0
    BY <1>1
  <2>. HIDE DEF l
  <2>2. IsFiniteSet(1 .. l) /\ Cardinality(1 .. l) = l
    BY <2>1, FS_Interval
  <2>. QED
    BY <2>2 DEF l
<1>3. IsFiniteSet({s[x] : x \in DOMAIN s})
  <2>. DEFINE D == DOMAIN s
  <2>1. IsFiniteSet(D)
    BY <1>1, <1>2
  <2>. HIDE DEF D
  <2>2. IsFiniteSet({s[x] : x \in D})
    BY <2>1, FiniteRange
  <2>. QED
    BY <2>2 DEF D
<1>. QED
  BY <1>1, <1>2, <1>3 DEF Range

\* A sequence of elements of a set is one of its own elements.
LEMMA SequenceOf ==
    ASSUME NEW X, NEW s \in Seq(X)
    PROVE  IsSequence(s)
BY DEF IsSequence, Range

\* The words of a sentence, and of an answer, are sequences.
LEMMA TokensTyped ==
    ASSUME NEW answer \in Seq(Seq(Token))
    PROVE  /\ Tokens(answer) \in Seq(STRING)
           /\ \A s \in DOMAIN answer : /\ answer[s] \in Seq(Token)
                                       /\ Words(answer[s]) \in Seq(STRING)
                                       /\ DOMAIN Words(answer[s]) = DOMAIN answer[s]
<1>. DEFINE X == Seq(Token)
            Y == Seq(STRING)
            n == Len(answer)
            parts == [s \in DOMAIN answer |-> Words(answer[s])]
<1>1. n \in Nat /\ DOMAIN answer = 1 .. n /\ \A s \in 1 .. n : answer[s] \in X
  <2>1. answer \in Seq(X)
    OBVIOUS
  <2>. HIDE DEF X
  <2>. QED
    BY <2>1
<1>2. ASSUME NEW t \in X PROVE Words(t) \in Y /\ DOMAIN Words(t) = DOMAIN t
  <2>1. Len(t) \in Nat /\ DOMAIN t = 1 .. Len(t) /\ \A i \in 1 .. Len(t) : t[i] \in Token
    BY <1>2
  <2>2. \A i \in 1 .. Len(t) : t[i].word \in STRING
    BY <2>1 DEF Token
  <2>3. Words(t) = [i \in 1 .. Len(t) |-> t[i].word]
    BY <2>1 DEF Words
  <2>. QED
    BY <2>1, <2>2, <2>3
<1>. HIDE DEF n, X, Y
<1>3. parts \in Seq(Y)
  BY <1>1, <1>2
<1>4. FlattenSeq(parts) \in Seq(STRING)
  <2>. HIDE DEF parts
  <2>. QED
    BY <1>3, FlattenIsSeq DEF Y
<1>. QED
  BY <1>1, <1>2, <1>4 DEF Tokens, X, Y

\* The positions before i where a word of a sequence is.
Before(words, i) == {j \in 1 .. i - 1 : words[j] = words[i]}

\* A word of the answer that counts has a word of the truth to itself.
LEMMA OverlapBounded ==
    ASSUME NEW answer, NEW truth, IsSequence(answer), IsSequence(truth)
    PROVE  /\ Overlap(answer, truth) \in Nat
           /\ Overlap(answer, truth) <= Len(answer)
           /\ Overlap(answer, truth) <= Len(truth)
<1>. DEFINE n == Len(answer)
            m == Len(truth)
            P(w) == {t \in 1 .. m : truth[t] = w}
            O == {i \in 1 .. n : Cardinality(Before(answer, i)) < Cardinality(P(answer[i]))}
            R == {x \in Nat \X Nat : x[1] < x[2]}
            Fits(i, t) == /\ t \in P(answer[i])
                          /\ Cardinality(Ahead(R, P(answer[i]), t)) = Cardinality(Before(answer, i))
            place == [i \in O |-> CHOOSE t : Fits(i, t)]
<1>1. /\ n \in Nat /\ DOMAIN answer = 1 .. n /\ IsFiniteSet(1 .. n) /\ Cardinality(1 .. n) = n
      /\ m \in Nat /\ DOMAIN truth = 1 .. m /\ IsFiniteSet(1 .. m) /\ Cardinality(1 .. m) = m
  BY FiniteSequence
<1>2. \A w : IsFiniteSet(P(w)) /\ P(w) \subseteq 1 .. m
  BY <1>1, FS_Subset
<1>3. \A i \in 1 .. n : IsFiniteSet(Before(answer, i)) /\ Cardinality(Before(answer, i)) \in Nat
  <2>. TAKE i \in 1 .. n
  <2>1. Before(answer, i) \subseteq 1 .. n
    BY <1>1 DEF Before
  <2>. HIDE DEF n
  <2>. QED
    BY <1>1, <2>1, FS_Subset, FS_CardinalityType
<1>4. Overlap(answer, truth) = Cardinality(O)
  <2>1. ASSUME NEW i \in 1 .. n
        PROVE  Count(SubSeq(answer, 1, i - 1), answer[i]) = Cardinality(Before(answer, i))
    <3>. DEFINE s == SubSeq(answer, 1, i - 1)
    <3>1. DOMAIN s = 1 .. i - 1 /\ \A j \in 1 .. i - 1 : s[j] = answer[j]
      BY <1>1 DEF IsSequence
    <3>2. {j \in DOMAIN s : s[j] = answer[i]} = Before(answer, i)
      BY <3>1 DEF Before
    <3>. QED
      BY <3>2 DEF Count
  <2>2. \A w : Count(truth, w) = Cardinality(P(w))
    BY <1>1 DEF Count
  <2>. HIDE DEF P, n, m
  <2>3. {i \in DOMAIN answer : Count(SubSeq(answer, 1, i - 1), answer[i]) < Count(truth, answer[i])} = O
    BY <1>1, <2>1, <2>2
  <2>. QED
    BY <2>3 DEF Overlap
<1>5. ASSUME NEW i \in O PROVE \E t : Fits(i, t)
  <2>. DEFINE S == P(answer[i])
              c == Cardinality(Before(answer, i))
  <2>1. IsFiniteSet(S) /\ S \subseteq Nat
    <3>1. IsFiniteSet(S) /\ S \subseteq 1 .. m
      BY <1>2
    <3>. QED
      BY <1>1, <3>1
  <2>2. StrictOrder(R, S)
    <3>. HIDE DEF S
    <3>1. \A x, y \in S : x \in Nat /\ y \in Nat /\ (<<x, y>> \in R <=> x < y)
      BY <2>1
    <3>. QED
      BY <2>1, <3>1 DEF StrictOrder
  <2>3. c + 1 \in 1 .. Cardinality(S)
    <3>1. c \in Nat /\ c < Cardinality(S)
      BY <1>3
    <3>2. Cardinality(S) \in Nat
      BY <2>1, FS_CardinalityType
    <3>. HIDE DEF c, S
    <3>. QED
      BY <3>1, <3>2
  <2>4. c \in Nat
    BY <1>3
  <2>. HIDE DEF S, c, R
  <2>5. PICK t \in S : Cardinality(Ahead(R, S, t)) = (c + 1) - 1
    BY <2>1, <2>2, <2>3, AheadCounts
  <2>6. Cardinality(Ahead(R, S, t)) = c
    BY <2>4, <2>5
  <2>. QED
    BY <2>5, <2>6 DEF S, c
<1>6. \A i \in O : Fits(i, place[i])
  <2>. HIDE DEF O, Fits
  <2>. QED
    BY <1>5
<1>7. place \in [O -> 1 .. m]
  <2>1. \A i \in O : place[i] \in 1 .. m
    BY <1>2, <1>6
  <2>. QED
    BY <2>1
<1>8. ASSUME NEW i \in O, NEW k \in O, i < k, place[i] = place[k] PROVE FALSE
  <2>1. answer[i] = answer[k]
    BY <1>6, <1>8
  <2>2. Cardinality(Before(answer, i)) = Cardinality(Before(answer, k))
    <3>. HIDE DEF O, place, P
    <3>. QED
      BY <1>6, <1>8, <2>1
  <2>3. Before(answer, i) \cup {i} \subseteq Before(answer, k) /\ i \notin Before(answer, i)
    BY <1>1, <1>8, <2>1 DEF Before
  <2>4. /\ IsFiniteSet(Before(answer, i)) /\ IsFiniteSet(Before(answer, k))
        /\ Cardinality(Before(answer, i)) \in Nat
    BY <1>3
  <2>5. Cardinality(Before(answer, i) \cup {i}) = Cardinality(Before(answer, i)) + 1
    BY <2>3, <2>4, FS_AddElement
  <2>6. Cardinality(Before(answer, i) \cup {i}) <= Cardinality(Before(answer, k))
    BY <2>3, <2>4, FS_Subset
  <2>. QED
    BY <2>2, <2>4, <2>5, <2>6
<1>9. place \in Injection(O, 1 .. m)
  <2>1. \A i, k \in O : i \in Int /\ k \in Int
    OBVIOUS
  <2>. HIDE DEF O, place
  <2>2. \A i, k \in O : place[i] = place[k] => i = k
    BY <1>8, <2>1
  <2>. QED
    BY <1>7, <2>2 DEF Injection, IsInjective
<1>10. O \subseteq 1 .. n
  OBVIOUS
<1>. HIDE DEF O, place, n, m
<1>11. IsFiniteSet(O) /\ Cardinality(O) \in Nat /\ Cardinality(O) <= n
  <2>. DEFINE D == 1 .. n
  <2>1. IsFiniteSet(D) /\ Cardinality(D) = n /\ O \subseteq D
    BY <1>1, <1>10
  <2>. HIDE DEF D
  <2>2. IsFiniteSet(O) /\ Cardinality(O) <= Cardinality(D)
    BY <2>1, FS_Subset
  <2>. QED
    BY <2>1, <2>2, FS_CardinalityType
<1>12. Cardinality(O) <= m
  BY <1>1, <1>9, FS_Injection
<1>. QED
  BY <1>4, <1>11, <1>12 DEF n, m

\* The lexical metrics are scores.
LEMMA LexicalScores ==
    ASSUME NEW answer \in Seq(Seq(Token)), NEW truth, IsSequence(truth), NEW context
    PROVE  /\ IsScore(Faithfulness(answer, context))
           /\ IsScore(TokenF1(Tokens(answer), truth))
           /\ IsScore(Completeness(Tokens(answer), truth))
           /\ \A n : IsScore(Support(answer, context, n))
<1>1. IsSequence(answer) /\ IsSequence(Tokens(answer))
  BY TokensTyped, SequenceOf
<1>2. IsScore(Faithfulness(answer, context))
  <2>. DEFINE contextWords == UNION {ContentWords(context[c].words) : c \in DOMAIN context}
              Grounded(s) == LET words == ContentWords(Words(s))
                             IN  words # {} /\ AtMost(<<3, 5>>, <<Cardinality(words \cap contextWords),
                                                                  Cardinality(words)>>)
              S == {s \in DOMAIN answer : Grounded(answer[s])}
  <2>1. Faithfulness(answer, context) = Ratio(Cardinality(S), Len(answer))
    BY DEF Faithfulness
  <2>2. S \in SUBSET DOMAIN answer
    OBVIOUS
  <2>. HIDE DEF S
  <2>3. IsFiniteSet(DOMAIN answer) /\ Cardinality(DOMAIN answer) = Len(answer)
    BY <1>1, FiniteSequence
  <2>4. IsScore(Ratio(Cardinality(S), Cardinality(DOMAIN answer)))
    BY <2>2, <2>3, ShareScore
  <2>. QED
    BY <2>1, <2>3, <2>4
<1>3. IsScore(TokenF1(Tokens(answer), truth))
  <2>. DEFINE said == Tokens(answer)
              o == Overlap(said, truth)
              n == Len(said)
              m == Len(truth)
  <2>. HIDE DEF said
  <2>1. o \in Nat /\ o <= n /\ o <= m /\ n \in Nat /\ m \in Nat
    BY <1>1, OverlapBounded, FiniteSequence DEF said
  <2>. HIDE DEF o, n, m
  <2>2. 2 * o \in Nat /\ n + m \in Nat /\ 2 * o <= n + m
    BY <2>1
  <2>3. IsScore(Ratio(2 * o, n + m)) /\ IsScore(Zero)
    BY <2>2, RatioScore, Scores
  <2>. QED
    BY <2>3 DEF TokenF1, said, o, n, m
<1>4. IsScore(Completeness(Tokens(answer), truth))
  <2>. DEFINE S == ContentWords(truth)
              T == S \cap ContentWords(Tokens(answer))
  <2>1. IsFiniteSet(S)
    <3>1. IsFiniteSet(Range(truth)) /\ S \subseteq Range(truth)
      BY FiniteSequence DEF ContentWords
    <3>. QED
      BY <3>1, FS_Subset
  <2>2. T \in SUBSET S
    OBVIOUS
  <2>3. Completeness(Tokens(answer), truth) = Ratio(Cardinality(T), Cardinality(S))
    BY DEF Completeness
  <2>. HIDE DEF S, T
  <2>. QED
    BY <2>1, <2>2, <2>3, ShareScore
<1>5. ASSUME NEW n PROVE IsScore(Support(answer, context, n))
  <2>. DEFINE C == Citing(answer, n)
              W == {Range(Words(answer[s])) : s \in C}
              claim == UNION W
              T == claim \cap Range(context[n].words)
  <2>1. IsFiniteSet(claim)
    <3>1. IsFiniteSet(C)
      <4>1. IsFiniteSet(DOMAIN answer) /\ C \subseteq DOMAIN answer
        BY <1>1, FiniteSequence DEF Citing
      <4>. QED
        BY <4>1, FS_Subset
    <3>2. IsFiniteSet(W)
      <4>. DEFINE f == [s \in C |-> Range(Words(answer[s]))]
      <4>1. W = {f[s] : s \in C}
        OBVIOUS
      <4>. HIDE DEF f, W, C
      <4>2. IsFiniteSet({f[s] : s \in C})
        BY <3>1, FiniteRange
      <4>. QED
        BY <4>1, <4>2
    <3>3. \A w \in W : IsFiniteSet(w)
      <4>1. ASSUME NEW s \in DOMAIN answer PROVE IsFiniteSet(Range(Words(answer[s])))
        <5>1. IsSequence(Words(answer[s]))
          BY TokensTyped, SequenceOf
        <5>. QED
          BY <5>1, FiniteSequence
      <4>2. C \subseteq DOMAIN answer
        BY DEF Citing
      <4>. QED
        BY <4>1, <4>2
    <3>. HIDE DEF W
    <3>. QED
      BY <3>2, <3>3, FS_UNION
  <2>2. T \in SUBSET claim
    OBVIOUS
  <2>3. Support(answer, context, n)
            = LET overlap == Ratio(Cardinality(T), Cardinality(claim))
              IN  IF AtMost(<<1, 2>>, overlap) THEN One ELSE overlap
    BY DEF Support
  <2>. HIDE DEF T, claim
  <2>4. IsScore(Ratio(Cardinality(T), Cardinality(claim)))
    BY <2>1, <2>2, ShareScore
  <2>. QED
    BY <2>3, <2>4, Scores
<1>. QED
  BY <1>2, <1>3, <1>4, <1>5

\* Whatever the judge's model replies, its verdict is a score.
LEMMA VerdictsAreScores ==
    ASSUME NEW lexical, IsScore(lexical), NEW v \in Verdicts(lexical)
    PROVE  IsScore(v)
<1>1. PICK r \in Replies : v = Verdict(r, lexical)
  BY DEF Verdicts
<1>2. r.kind \in {"raises", "unparseable", "nan", "number"} /\ r.score \in Int \X (Nat \ {0})
  BY RepliesAssumption
<1>3. CASE r.kind # "number"
  BY <1>1, <1>2, <1>3, Scores DEF Verdict
<1>4. CASE r.kind = "number"
  <2>1. v = IF AtMost(r.score, Zero) THEN Zero ELSE IF AtMost(One, r.score) THEN One ELSE r.score
    BY <1>1, <1>4 DEF Verdict
  <2>2. CASE AtMost(r.score, Zero) \/ AtMost(One, r.score)
    BY <2>1, <2>2, Scores
  <2>3. CASE ~AtMost(r.score, Zero) /\ ~AtMost(One, r.score)
    <3>1. IsScore(r.score)
      <4>. DEFINE s == r.score
      <4>1. s[1] \in Int /\ s[2] \in Nat \ {0} /\ s \in Int \X Int
        BY <1>2
      <4>. HIDE DEF s
      <4>2. AtMost(Zero, s) /\ AtMost(s, One)
        BY <2>3, <4>1 DEF AtMost, Zero, One, s
      <4>3. s[2] > 0
        BY <4>1
      <4>. QED
        BY <4>1, <4>2, <4>3 DEF IsScore, s
    <3>. QED
      BY <2>1, <2>3, <3>1
  <2>. QED
    BY <2>2, <2>3
<1>. QED
  BY <1>3, <1>4

\* The sentences with a marker of a source.
Covered(answer, context) ==
    {s \in DOMAIN answer : \E n \in Markers(answer[s]) : 1 <= n /\ n <= Len(context)}

\* However the judge sees the citations of an answer, every marker and every
\* sentence counts once, and the score is one.
LEMMA CitationsCounted ==
    ASSUME NEW answer \in Seq(Seq(Token)), NEW context, IsSequence(context), NEW supports
    PROVE  LET r == EvaluateCitations(answer, context, supports)
           IN  /\ r.supported + r.unsupported = Cardinality(MarkersOf(answer))
               /\ r.missing + Cardinality(Covered(answer, context)) = Len(answer)
               /\ IsScore(r.score)
               /\ Equal(r.score, One) => /\ Covered(answer, context) = DOMAIN answer
                                         /\ r.unsupported = 0
<1>. DEFINE M == MarkersOf(answer)
            valid == Valid(MarkersOf(answer), context)
            supported == {n \in valid : AtMost(<<1, 2>>, supports[n])}
            unsupported == (MarkersOf(answer) \ valid) \cup (valid \ supported)
            missing == Missing(answer, context)
            covered == Covered(answer, context)
            D == DOMAIN answer
            a == Cardinality(supported)
            b == Cardinality(unsupported)
            c == Cardinality(missing)
            d == Cardinality(covered)
            all == a + b + c
            r == EvaluateCitations(answer, context, supports)
<1>1. IsFiniteSet(D) /\ Cardinality(D) = Len(answer) /\ Len(answer) \in Nat
  BY SequenceOf, FiniteSequence
<1>2. \A s \in D : IsFiniteSet(Markers(answer[s])) /\ Markers(answer[s]) \subseteq Int
  <2>. TAKE s \in D
  <2>. DEFINE t == answer[s]
              C == {t[i].cites : i \in DOMAIN t}
  <2>1. t \in Seq(Token)
    BY TokensTyped
  <2>. HIDE DEF t
  <2>2. IsSequence(t) /\ \A i \in DOMAIN t : t[i].cites \in Int
    <3>1. IsSequence(t) /\ \A i \in DOMAIN t : t[i] \in Token
      BY <2>1, SequenceOf
    <3>. QED
      BY <3>1 DEF Token
  <2>3. IsFiniteSet(DOMAIN t)
    BY <2>2, FiniteSequence
  <2>4. IsFiniteSet(C)
    <3>. DEFINE E == DOMAIN t
                f == [i \in E |-> t[i].cites]
    <3>1. C = {f[i] : i \in E}
      OBVIOUS
    <3>. HIDE DEF f, C, E
    <3>2. IsFiniteSet({f[i] : i \in E})
      BY <2>3, FiniteRange DEF E
    <3>. QED
      BY <3>1, <3>2
  <2>5. Markers(t) \subseteq C /\ C \subseteq Int
    BY <2>2 DEF Markers
  <2>. HIDE DEF C
  <2>6. IsFiniteSet(Markers(t)) /\ Markers(t) \subseteq Int
    BY <2>4, <2>5, FS_Subset
  <2>. QED
    BY <2>6 DEF t
<1>3. IsFiniteSet(M) /\ M \subseteq Int
  <2>. DEFINE f == [s \in D |-> Markers(answer[s])]
              W == {f[s] : s \in D}
  <2>1. M = UNION W
    BY DEF MarkersOf
  <2>2. \A w \in W : IsFiniteSet(w) /\ w \subseteq Int
    BY <1>2
  <2>3. IsFiniteSet(W)
    <3>. HIDE DEF f, D
    <3>. QED
      BY <1>1, FiniteRange
  <2>. HIDE DEF W, M
  <2>. QED
    BY <2>1, <2>2, <2>3, FS_UNION
<1>4. /\ r.supported = a /\ r.unsupported = b /\ r.missing = c
      /\ r.score = IF all = 0 THEN One ELSE <<a, all>>
  BY DEF EvaluateCitations
<1>5. supported \subseteq M /\ unsupported = M \ supported
  BY DEF Valid
<1>6. missing = D \ covered /\ covered \subseteq D
  <2>1. DOMAIN context = 1 .. Len(context) /\ Len(context) \in Nat
    BY FiniteSequence
  <2>2. ASSUME NEW s \in D
        PROVE  Valid(Markers(answer[s]), context) = {} <=>
                   ~(\E n \in Markers(answer[s]) : 1 <= n /\ n <= Len(context))
    <3>1. \A n \in Markers(answer[s]) : n \in Int
      BY <1>2
    <3>. QED
      BY <2>1, <3>1 DEF Valid
  <2>. QED
    BY <2>2 DEF Missing, Covered
<1>. HIDE DEF M, supported, unsupported, missing, covered, D, r
<1>7. /\ IsFiniteSet(supported) /\ IsFiniteSet(unsupported) /\ a \in Nat /\ b \in Nat
      /\ a + b = Cardinality(M)
  <2>1. IsFiniteSet(supported) /\ IsFiniteSet(unsupported)
    BY <1>3, <1>5, FS_Subset
  <2>2. Cardinality(M \ supported) = Cardinality(M) - Cardinality(M \cap supported)
    BY <1>3, FS_Difference
  <2>3. M \cap supported = supported
    BY <1>5
  <2>4. a \in Nat /\ b \in Nat /\ Cardinality(M) \in Nat
    BY <1>3, <2>1, FS_CardinalityType
  <2>. DEFINE k == Cardinality(M)
  <2>5. b = k - a /\ k \in Nat
    BY <1>5, <2>2, <2>3, <2>4
  <2>. HIDE DEF a, b, k
  <2>6. a + b = k
    BY <2>4, <2>5
  <2>. QED
    BY <2>1, <2>4, <2>6 DEF k
<1>8. /\ IsFiniteSet(missing) /\ IsFiniteSet(covered) /\ c \in Nat /\ d \in Nat
      /\ c + d = Cardinality(D)
  <2>1. IsFiniteSet(missing) /\ IsFiniteSet(covered)
    BY <1>1, <1>6, FS_Subset
  <2>2. Cardinality(D \ covered) = Cardinality(D) - Cardinality(D \cap covered)
    BY <1>1, FS_Difference
  <2>3. D \cap covered = covered
    BY <1>6
  <2>4. c \in Nat /\ d \in Nat /\ Cardinality(D) \in Nat
    BY <1>1, <2>1, FS_CardinalityType
  <2>. DEFINE k == Cardinality(D)
  <2>5. c = k - d /\ k \in Nat
    BY <1>6, <2>2, <2>3, <2>4
  <2>. HIDE DEF c, d, k
  <2>6. c + d = k
    BY <2>4, <2>5
  <2>. QED
    BY <2>1, <2>4, <2>6 DEF k
<1>9. b = 0 /\ c = 0 => covered = D
  <2>1. c = 0 => missing = {}
    BY <1>8, FS_EmptySet
  <2>. QED
    BY <1>6, <2>1
<1>. HIDE DEF a, b, c, d
<1>10. IsScore(r.score) /\ (Equal(r.score, One) => b = 0 /\ c = 0)
  <2>1. CASE all = 0
    BY <1>4, <1>7, <1>8, <2>1, Scores
  <2>2. CASE all # 0
    <3>1. r.score = <<a, all>>
      BY <1>4, <2>2
    <3>2. all \in Nat \ {0} /\ a <= all
      BY <1>7, <1>8, <2>2
    <3>3. IsScore(r.score)
      BY <1>7, <3>1, <3>2, Scores
    <3>4. Equal(r.score, One) => a = all
      BY <1>7, <3>1, <3>2 DEF Equal, One
    <3>5. a = all => b = 0 /\ c = 0
      BY <1>7, <1>8
    <3>. QED
      BY <3>3, <3>4, <3>5
  <2>. QED
    BY <2>1, <2>2
<1>11. r.supported + r.unsupported = Cardinality(M) /\ r.missing + d = Len(answer)
  BY <1>1, <1>4, <1>7, <1>8
<1>12. Equal(r.score, One) => covered = D /\ r.unsupported = 0
  BY <1>4, <1>9, <1>10
<1>. QED
  BY <1>10, <1>11, <1>12 DEF M, covered, D, r, d

-----------------------------------------------------------------------------
(* What EvaluationRunner.run keeps.                                        *)

\* The row of an answer, or of a refusal, says what the response was; only an
\* answer to an answerable question has any quality.
RowRight(row, example, response) ==
    /\ row.answered = Judged(example, response)
    /\ {"refused", "answerable"} \cap DOMAIN row = {"refused"} /\ row.refused = response.refused
    /\ row.unanswerable = ~example.answerable
    /\ row.unanswerable_correct
           = IF ~example.answerable /\ response.refused THEN One ELSE Zero
    /\ \A key \in Quality : /\ IsScore(row[key])
                            /\ ~Judged(example, response) => row[key] = Zero

\* The rows are those of the first examples, in their order.
RetrievalRowsInv ==
    /\ IsSequence(retrievalRows) /\ Len(retrievalRows) <= Len(Dataset)
    /\ \A i \in DOMAIN retrievalRows :
           RowSound(retrievalRows[i]) /\ {"refused", "answerable"} \cap DOMAIN retrievalRows[i] = {}

ResponsesInv ==
    /\ IsSequence(responses) /\ Len(responses) <= Len(Dataset)
    /\ \A i \in DOMAIN responses : responses[i] \in setup.responses[i]

\* A response has its row, but for one that the judge has yet to see.
GenerationRowsInv ==
    /\ IsSequence(generationRows)
    /\ \/ Len(generationRows) = Len(responses)
       \/ /\ Len(generationRows) = Len(responses) - 1
          /\ Judged(Dataset[Len(responses)], responses[Len(responses)])
          /\ status \in {"generating", "failed"}
    /\ \A i \in DOMAIN generationRows :
           RowRight(generationRows[i], Dataset[i], responses[i])

\* Each stage finds complete what the stages before it make.
StageInv ==
    /\ setup \in Setups /\ runs \in 0 .. MaxRuns
    /\ status \in {"idle", "retrieving", "generating", "reporting", "writing", "failed"}
    /\ status # "idle" => runs > 0
    /\ status = "retrieving" \/ ~setup.generation => responses = <<>>
    /\ status = "generating" => setup.generation
    /\ status \in {"generating", "reporting", "writing", "idle"} /\ runs > 0 =>
           Len(retrievalRows) = Len(Dataset)
    /\ status \in {"reporting", "writing", "idle"} /\ runs > 0 /\ setup.generation =>
           Len(responses) = Len(Dataset)

\* The report is the one assembled from the rows there are.
SummaryInv ==
    status \in {"writing", "idle"} /\ runs > 0 =>
        summary = [retrieval |-> AggregateRetrieval(retrievalRows),
                   generation |-> IF setup.generation THEN AggregateGeneration(generationRows)
                                  ELSE <<>>,
                   per_question |-> PerQuestion]

\* The formats that a run without a failure writes.
Due == {f \in setup.formats : f = "csv" => Dataset # <<>>}

\* What there is of the report files: files of this run are the ones written so
\* far, and those are whole.
PublishedInv ==
    /\ published \in [Range(Formats) -> [run : 0 .. runs, whole : BOOLEAN]]
    /\ \A f \in Range(Formats) : /\ published[f].run = 0 => published[f].whole
                                 /\ f \notin Due => published[f].run = 0
    /\ status \in {"retrieving", "generating", "reporting"} =>
           \A f \in Range(Formats) : published[f].run < runs
    /\ unwritten \subseteq Due
    /\ status = "writing" =>
           /\ \A f \in unwritten : published[f].run < runs
           /\ \A f \in Due \ unwritten : published[f].run = runs /\ published[f].whole
           /\ \A i, j \in DOMAIN Formats :
                  i < j /\ Formats[i] \in unwritten /\ Formats[j] \in Due => Formats[j] \in unwritten

RunInv ==
    /\ RetrievalRowsInv /\ ResponsesInv /\ GenerationRowsInv
    /\ StageInv /\ SummaryInv /\ PublishedInv /\ ReportsOrdered

\* A sequence gains an element.
LEMMA Extended ==
    ASSUME NEW s, IsSequence(s), NEW e
    PROVE  /\ IsSequence(Append(s, e)) /\ Len(Append(s, e)) = Len(s) + 1 /\ Len(s) \in Nat
           /\ DOMAIN Append(s, e) = 1 .. Len(s) + 1 /\ DOMAIN s = 1 .. Len(s)
           /\ \A i \in 1 .. Len(s) : Append(s, e)[i] = s[i]
           /\ Append(s, e)[Len(s) + 1] = e
<1>. DEFINE X == Range(s) \cup {e}
<1>1. s \in Seq(X) /\ e \in X
  <2>1. \A i \in DOMAIN s : s[i] \in X
    BY DEF Range
  <2>. QED
    BY <2>1 DEF IsSequence
<1>. HIDE DEF X
<1>2. Append(s, e) \in Seq(X)
  BY <1>1
<1>3. IsSequence(Append(s, e))
  BY <1>2, SequenceOf
<1>4. /\ Len(Append(s, e)) = Len(s) + 1 /\ Len(s) \in Nat
      /\ DOMAIN Append(s, e) = 1 .. Len(s) + 1 /\ DOMAIN s = 1 .. Len(s)
      /\ \A i \in 1 .. Len(s) : Append(s, e)[i] = s[i]
      /\ Append(s, e)[Len(s) + 1] = e
  BY <1>1
<1>. QED
  BY <1>3, <1>4

\* No sequence is empty but the empty one, which is a sequence.
LEMMA EmptySequence == IsSequence(<<>>) /\ Len(<<>>) = 0 /\ DOMAIN <<>> = {}
BY DEF IsSequence

\* What is assumed of the setup.
LEMMA SetupFacts ==
    ASSUME setup \in Setups
    PROVE  /\ IsSequence(Dataset) /\ Len(Dataset) \in Nat /\ DOMAIN Dataset = 1 .. Len(Dataset)
           /\ DOMAIN setup.rankings = DOMAIN Dataset /\ DOMAIN setup.responses = DOMAIN Dataset
           /\ setup.generation \in BOOLEAN /\ setup.formats \subseteq Range(Formats)
           /\ \A i \in DOMAIN Dataset :
                  /\ Dataset[i].answerable \in BOOLEAN /\ IsSequence(Dataset[i].answer)
                  /\ \A chunks \in setup.rankings[i] : IsSequence(chunks) /\ Len(chunks) <= K
                  /\ \A r \in setup.responses[i] :
                         /\ r.refused \in BOOLEAN /\ IsSequence(r.sources)
                         /\ r.answer \in Seq(Seq(Token))
<1>1. IsSequence(Dataset)
  BY SetupsAssumption DEF Dataset
<1>2. Len(Dataset) \in Nat /\ DOMAIN Dataset = 1 .. Len(Dataset)
  BY <1>1, FiniteSequence
<1>. QED
  BY <1>1, <1>2, SetupsAssumption DEF Dataset, Token

\* No step changes the setup.
LEMMA SetupStays == [EvaluationNext]_evaluationVars => setup' = setup /\ Dataset' = Dataset
BY DEF EvaluationNext, evaluationVars, Run, RetrieveExample, RetrievalFails, RetrievalDone, Fail,
       AnswerExample, ServiceFails, JudgeExample, GenerationDone, Assemble, Write, WriteFails, Return,
       Dataset

\* A ranking more is scored.
LEMMA RetrievalRowsStep ==
    ASSUME RunInv, [EvaluationNext]_evaluationVars
    PROVE  RetrievalRowsInv'
<1>0. setup' = setup /\ Dataset' = Dataset
  BY SetupStays
<1>1. setup \in Setups /\ RetrievalRowsInv
  BY DEF RunInv, StageInv
<1>2. CASE Run
  <2>1. retrievalRows' = <<>>
    BY <1>2 DEF Run
  <2>2. Len(Dataset) \in Nat
    BY <1>1, SetupFacts
  <2>. QED
    BY <1>0, <2>1, <2>2, EmptySequence DEF RetrievalRowsInv
<1>3. CASE RetrieveExample
  <2>. DEFINE next == Len(retrievalRows) + 1
  <2>1. PICK chunks \in setup.rankings[next] :
             retrievalRows' = Append(retrievalRows, RetrievalRow(chunks, Dataset[next]))
    BY <1>3 DEF RetrieveExample
  <2>2. Len(retrievalRows) \in Nat /\ Len(retrievalRows) < Len(Dataset) /\ next \in DOMAIN Dataset
    <3>1. Len(retrievalRows) < Len(Dataset)
      BY <1>3 DEF RetrieveExample, Unretrieved
    <3>2. Len(retrievalRows) \in Nat /\ Len(Dataset) \in Nat /\ DOMAIN Dataset = 1 .. Len(Dataset)
      BY <1>1, SetupFacts, FiniteSequence DEF RetrievalRowsInv
    <3>. QED
      BY <3>1, <3>2
  <2>3. IsSequence(chunks) /\ Len(chunks) <= K
    BY <1>1, <2>2, SetupFacts
  <2>. DEFINE row == RetrievalRow(chunks, Dataset[next])
  <2>4. RowSound(row) /\ {"refused", "answerable"} \cap DOMAIN row = {}
    <3>1. RowSound(row)
      BY <2>3, RowsSound
    <3>2. {"refused", "answerable"} \cap DOMAIN row = {}
      BY DEF RetrievalRow
    <3>. QED
      BY <3>1, <3>2
  <2>. HIDE DEF row
  <2>5. /\ IsSequence(retrievalRows') /\ Len(retrievalRows') = next
        /\ DOMAIN retrievalRows' = 1 .. next /\ DOMAIN retrievalRows = 1 .. Len(retrievalRows)
        /\ \A i \in 1 .. Len(retrievalRows) : retrievalRows'[i] = retrievalRows[i]
        /\ retrievalRows'[next] = row
    BY <1>1, <2>1, Extended DEF RetrievalRowsInv, row
  <2>6. next <= Len(Dataset)
    BY <1>1, <2>2, SetupFacts
  <2>7. ASSUME NEW i \in 1 .. next 
        PROVE  RowSound(retrievalRows'[i]) /\ {"refused", "answerable"} \cap DOMAIN retrievalRows'[i] = {}
    <3>1. i \in 1 .. Len(retrievalRows) \/ i = next
      BY <2>2
    <3>. QED
      BY <1>1, <2>4, <2>5, <3>1 DEF RetrievalRowsInv
  <2>. QED
    BY <1>0, <2>5, <2>6, <2>7 DEF RetrievalRowsInv
<1>4. CASE retrievalRows' = retrievalRows
  BY <1>0, <1>1, <1>4 DEF RetrievalRowsInv
<1>. QED
  BY <1>2, <1>3, <1>4 DEF EvaluationNext, evaluationVars, RetrievalFails, RetrievalDone, Fail,
       AnswerExample, ServiceFails, JudgeExample, GenerationDone, Assemble, Write, WriteFails, Return

\* The service has answered one more example.
LEMMA ResponsesStep ==
    ASSUME RunInv, [EvaluationNext]_evaluationVars
    PROVE  ResponsesInv'
<1>0. setup' = setup /\ Dataset' = Dataset
  BY SetupStays
<1>1. setup \in Setups /\ ResponsesInv
  BY DEF RunInv, StageInv
<1>2. CASE Run
  <2>1. responses' = <<>>
    BY <1>2 DEF Run
  <2>2. Len(Dataset) \in Nat
    BY <1>1, SetupFacts
  <2>. QED
    BY <1>0, <2>1, <2>2, EmptySequence DEF ResponsesInv
<1>3. CASE AnswerExample
  <2>. DEFINE next == Len(responses) + 1
  <2>1. PICK response \in setup.responses[next] : responses' = Append(responses, response)
    BY <1>3 DEF AnswerExample
  <2>2. /\ IsSequence(responses') /\ Len(responses') = next
        /\ DOMAIN responses' = 1 .. next /\ DOMAIN responses = 1 .. Len(responses)
        /\ \A i \in 1 .. Len(responses) : responses'[i] = responses[i]
        /\ responses'[next] = response /\ Len(responses) \in Nat
    BY <1>1, <2>1, Extended DEF ResponsesInv
  <2>3. next <= Len(Dataset)
    <3>1. Len(responses) < Len(Dataset) /\ Len(Dataset) \in Nat
      BY <1>1, <1>3, SetupFacts DEF AnswerExample, Unanswered
    <3>. QED
      BY <2>2, <3>1
  <2>4. ASSUME NEW i \in 1 .. next PROVE responses'[i] \in setup.responses[i]
    <3>1. i \in 1 .. Len(responses) \/ i = next
      BY <2>2
    <3>. QED
      BY <1>1, <2>1, <2>2, <3>1 DEF ResponsesInv
  <2>. QED
    BY <1>0, <2>2, <2>3, <2>4 DEF ResponsesInv
<1>4. CASE responses' = responses
  BY <1>0, <1>1, <1>4 DEF ResponsesInv
<1>. QED
  BY <1>2, <1>3, <1>4 DEF EvaluationNext, evaluationVars, RetrievalFails, RetrievalDone, Fail,
       RetrieveExample, ServiceFails, JudgeExample, GenerationDone, Assemble, Write, WriteFails, Return

\* What the invariant says of the responses and their rows.
LEMMA RowsKnown ==
    ASSUME RunInv
    PROVE  /\ Len(responses) \in Nat /\ DOMAIN responses = 1 .. Len(responses)
           /\ Len(generationRows) \in Nat /\ DOMAIN generationRows = 1 .. Len(generationRows)
           /\ Len(generationRows) <= Len(responses)
           /\ Len(responses) <= Len(Dataset) /\ DOMAIN Dataset = 1 .. Len(Dataset)
           /\ Len(Dataset) \in Nat
<1>1. IsSequence(responses) /\ IsSequence(generationRows) /\ Len(responses) <= Len(Dataset)
  BY DEF RunInv, ResponsesInv, GenerationRowsInv
<1>2. Len(responses) \in Nat /\ DOMAIN responses = 1 .. Len(responses)
  BY <1>1, FiniteSequence
<1>3. Len(generationRows) \in Nat /\ DOMAIN generationRows = 1 .. Len(generationRows)
  BY <1>1, FiniteSequence
<1>4. DOMAIN Dataset = 1 .. Len(Dataset) /\ Len(Dataset) \in Nat
  BY SetupFacts DEF RunInv, StageInv
<1>5. Len(generationRows) <= Len(responses)
  <2>. DEFINE rows == Len(generationRows)  answered == Len(responses)
  <2>1. rows = answered \/ rows = answered - 1
    BY DEF RunInv, GenerationRowsInv
  <2>2. rows \in Nat /\ answered \in Nat
    BY <1>2, <1>3
  <2>. HIDE DEF rows, answered
  <2>3. rows <= answered
    BY <2>1, <2>2
  <2>. QED
    BY <2>3 DEF rows, answered
<1>. QED
  BY <1>1, <1>2, <1>3, <1>4, <1>5

\* A row made before the judge is asked is right but for what it leaves to the
\* judge.
LEMMA UnscoredIs ==
    ASSUME NEW example, NEW response
    PROVE  LET row == Unscored(example, response)
           IN  /\ row.answered = Judged(example, response)
               /\ {"refused", "answerable"} \cap DOMAIN row = {"refused"} /\ row.refused = response.refused
               /\ row.unanswerable = ~example.answerable
               /\ row.unanswerable_correct
                      = IF ~example.answerable /\ response.refused THEN One ELSE Zero
               /\ \A key \in Quality : row[key] = Zero
BY DEF Unscored, Quality

\* A row more is right, and so are those before it.
LEMMA RowsStep ==
    ASSUME RunInv, NEW row, generationRows' = Append(generationRows, row),
           Dataset' = Dataset, Len(generationRows) + 1 = Len(responses'),
           \A i \in 1 .. Len(generationRows) : responses'[i] = responses[i],
           RowRight(row, Dataset[Len(responses')], responses'[Len(responses')])
    PROVE  GenerationRowsInv'
<1>. DEFINE n == Len(generationRows)
<1>1. IsSequence(generationRows) /\ n \in Nat
  BY RowsKnown DEF RunInv, GenerationRowsInv
<1>2. /\ IsSequence(generationRows') /\ Len(generationRows') = n + 1
      /\ DOMAIN generationRows' = 1 .. n + 1 /\ DOMAIN generationRows = 1 .. n
      /\ \A i \in 1 .. n : generationRows'[i] = generationRows[i]
      /\ generationRows'[n + 1] = row
  BY <1>1, Extended
<1>3. ASSUME NEW i \in 1 .. n + 1
      PROVE  RowRight(generationRows'[i], Dataset[i], responses'[i])
  <2>1. CASE i \in 1 .. n
    BY <1>2, <2>1 DEF RunInv, GenerationRowsInv
  <2>2. CASE i = n + 1
    BY <1>2, <2>2
  <2>. QED
    BY <1>1, <2>1, <2>2
<1>4. (\A i \in DOMAIN generationRows : RowRight(generationRows[i], Dataset[i], responses[i]))'
  BY <1>2, <1>3 DEF RowRight, Judged
<1>. QED
  BY <1>2, <1>4 DEF GenerationRowsInv

\* A row that the judge has scored is right.
LEMMA JudgedRow ==
    ASSUME setup \in Setups, NEW i \in DOMAIN Dataset, NEW response \in setup.responses[i],
           Judged(Dataset[i], response), NEW supports,
           NEW f \in Verdicts(Faithfulness(response.answer, response.sources)),
           NEW c \in Verdicts(TokenF1(Tokens(response.answer), Dataset[i].answer)),
           NEW a \in Verdicts(Completeness(Tokens(response.answer), Dataset[i].answer))
    PROVE  RowRight([Unscored(Dataset[i], response) EXCEPT
                        !.faithfulness = f, !.answer_correctness = c, !.answer_completeness = a,
                        !.citation_accuracy =
                            EvaluateCitations(response.answer, response.sources, supports).score],
                    Dataset[i], response)
<1>. DEFINE score == EvaluateCitations(response.answer, response.sources, supports).score
            before == Unscored(Dataset[i], response)
            row == [before EXCEPT !.faithfulness = f, !.answer_correctness = c,
                                  !.answer_completeness = a, !.citation_accuracy = score]
<1>1. /\ response.answer \in Seq(Seq(Token)) /\ IsSequence(response.sources)
      /\ IsSequence(Dataset[i].answer)
  BY SetupFacts
<1>2. IsScore(f) /\ IsScore(c) /\ IsScore(a)
  BY <1>1, LexicalScores, VerdictsAreScores
<1>3. IsScore(score)
  BY <1>1, CitationsCounted
<1>. HIDE DEF score
<1>4. /\ {"refused", "answerable"} \cap DOMAIN row = {"refused"}
      /\ row.answered = before.answered /\ row.refused = before.refused
      /\ row.unanswerable = before.unanswerable
      /\ row.unanswerable_correct = before.unanswerable_correct
      /\ row.faithfulness = f /\ row.answer_correctness = c /\ row.answer_completeness = a
      /\ row.citation_accuracy = score
  BY DEF Unscored
<1>. HIDE DEF row
<1>5. /\ row.answered = Judged(Dataset[i], response) /\ row.refused = response.refused
      /\ row.unanswerable = ~Dataset[i].answerable
      /\ row.unanswerable_correct
             = IF ~Dataset[i].answerable /\ response.refused THEN One ELSE Zero
  BY <1>4, UnscoredIs
<1>6. \A key \in Quality : IsScore(row[key])
  BY <1>2, <1>3, <1>4 DEF Quality
<1>7. RowRight(row, Dataset[i], response)
  BY <1>4, <1>5, <1>6 DEF RowRight
<1>. QED
  BY <1>7 DEF row, score

\* An answer that needs no judge, or the judge, completes a row.
LEMMA GenerationRowsStep ==
    ASSUME RunInv, [EvaluationNext]_evaluationVars
    PROVE  GenerationRowsInv'
<1>0. setup' = setup /\ Dataset' = Dataset
  BY SetupStays
<1>1. setup \in Setups /\ GenerationRowsInv /\ ResponsesInv
  BY DEF RunInv, StageInv
<1>. DEFINE rows == Len(generationRows)  n == Len(responses)
<1>2. /\ n \in Nat /\ DOMAIN responses = 1 .. n /\ rows \in Nat
      /\ DOMAIN generationRows = 1 .. rows /\ rows <= n
      /\ DOMAIN Dataset = 1 .. Len(Dataset) /\ Len(Dataset) \in Nat /\ n <= Len(Dataset)
  BY RowsKnown
<1>3. rows = n \/ (rows = n - 1 /\ Judged(Dataset[n], responses[n])
                              /\ status \in {"generating", "failed"})
  BY <1>1 DEF GenerationRowsInv
<1>4. CASE Run
  <2>1. generationRows' = <<>> /\ responses' = <<>>
    BY <1>4 DEF Run
  <2>. QED
    BY <2>1, EmptySequence DEF GenerationRowsInv
<1>5. CASE AnswerExample
  <2>. DEFINE next == n + 1
  <2>1. PICK response \in setup.responses[next] :
            /\ responses' = Append(responses, response)
            /\ generationRows' = IF Judged(Dataset[next], response) THEN generationRows
                                 ELSE Append(generationRows, Unscored(Dataset[next], response))
    BY <1>5 DEF AnswerExample
  <2>2. /\ IsSequence(responses') /\ Len(responses') = next
        /\ \A i \in 1 .. n : responses'[i] = responses[i]
        /\ responses'[next] = response
    BY <1>1, <2>1, Extended DEF ResponsesInv
  <2>3. rows = n /\ n < Len(Dataset) /\ status = "generating" /\ status' = "generating"
    BY <1>5 DEF AnswerExample, Unanswered
  <2>4. CASE Judged(Dataset[next], response)
    <3>1. generationRows' = generationRows
      BY <2>1, <2>4
    <3>2. Len(generationRows') = Len(responses') - 1
      BY <1>2, <2>2, <2>3, <3>1
    <3>3. ASSUME NEW i \in DOMAIN generationRows
          PROVE  RowRight(generationRows[i], Dataset[i], responses'[i])
      BY <1>1, <1>2, <2>2, <2>3 DEF GenerationRowsInv
    <3>. QED
      BY <1>0, <1>1, <2>2, <2>3, <2>4, <3>1, <3>2, <3>3 DEF GenerationRowsInv, RowRight, Judged
  <2>5. CASE ~Judged(Dataset[next], response)
    <3>. DEFINE row == Unscored(Dataset[next], response)
    <3>1. RowRight(row, Dataset[next], response)
      <4>1. \A key \in Quality : row[key] = Zero /\ IsScore(Zero)
        BY UnscoredIs, Scores
      <4>. QED
        BY <4>1, UnscoredIs DEF RowRight
    <3>. HIDE DEF row
    <3>2. generationRows' = Append(generationRows, row)
      BY <2>1, <2>5 DEF row
    <3>. QED
      BY <1>0, <1>2, <2>2, <2>3, <3>1, <3>2, RowsStep
  <2>. QED
    BY <2>4, <2>5
<1>6. CASE JudgeExample
  <2>1. responses' = responses /\ rows < n
    BY <1>2, <1>6 DEF JudgeExample, BeingJudged
  <2>2. rows = n - 1 /\ Judged(Dataset[n], responses[n]) /\ n \in DOMAIN Dataset
    <3>1. rows # n
      <4>1. rows < n /\ rows \in Nat /\ n \in Nat
        BY <1>2, <2>1
      <4>. HIDE DEF rows, n
      <4>. QED
        BY <4>1
    <3>2. n \in 1 .. Len(Dataset)
      <4>. DEFINE all == Len(Dataset)
      <4>1. rows < n /\ rows \in Nat /\ n \in Nat /\ n <= all /\ all \in Nat
        BY <1>2, <2>1
      <4>. HIDE DEF rows, n, all
      <4>2. n \in 1 .. all
        BY <4>1
      <4>. QED
        BY <4>2 DEF all
    <3>. QED
      BY <1>2, <1>3, <3>1, <3>2
  <2>. DEFINE response == responses[n]
  <2>3. response = Last(responses) /\ response \in setup.responses[n]
    BY <1>1, <1>2, <2>1 DEF Last, ResponsesInv
  <2>a. PICK f \in Verdicts(Faithfulness(response.answer, response.sources)),
             c \in Verdicts(TokenF1(Tokens(response.answer), Dataset[n].answer)),
             a \in Verdicts(Completeness(Tokens(response.answer), Dataset[n].answer)) :
          \E supports : generationRows' = Append(generationRows,
                [Unscored(Dataset[n], response) EXCEPT
                    !.faithfulness = f, !.answer_correctness = c, !.answer_completeness = a,
                    !.citation_accuracy =
                        EvaluateCitations(response.answer, response.sources, supports).score])
    BY <1>6, <2>3 DEF JudgeExample
  <2>4. PICK supports :
          generationRows' = Append(generationRows,
                [Unscored(Dataset[n], response) EXCEPT
                    !.faithfulness = f, !.answer_correctness = c, !.answer_completeness = a,
                    !.citation_accuracy =
                        EvaluateCitations(response.answer, response.sources, supports).score])
    BY <2>a
  <2>. DEFINE row == [Unscored(Dataset[n], response) EXCEPT
                    !.faithfulness = f, !.answer_correctness = c, !.answer_completeness = a,
                    !.citation_accuracy =
                        EvaluateCitations(response.answer, response.sources, supports).score]
  <2>5. RowRight(row, Dataset[n], response)
    BY <1>1, <2>2, <2>3, JudgedRow
  <2>. HIDE DEF row
  <2>6. generationRows' = Append(generationRows, row)
    BY <2>4 DEF row
  <2>. QED
    BY <1>0, <1>2, <2>1, <2>2, <2>5, <2>6, RowsStep
<1>7. ASSUME generationRows' = generationRows, responses' = responses,
             rows = n \/ status' \in {status, "failed"}
      PROVE  GenerationRowsInv'
  <2>1. \/ Len(generationRows') = Len(responses')
        \/ /\ Len(generationRows') = Len(responses') - 1
           /\ Judged(Dataset'[Len(responses')], responses'[Len(responses')])
           /\ status' \in {"generating", "failed"}
    BY <1>0, <1>3, <1>7 DEF Judged
  <2>. QED
    BY <1>0, <1>1, <1>7, <2>1 DEF GenerationRowsInv, RowRight, Judged
<1>8. CASE RetrieveExample \/ RetrievalFails \/ ServiceFails \/ Write \/ WriteFails
           \/ UNCHANGED evaluationVars
  BY <1>7, <1>8 DEF RetrieveExample, RetrievalFails, Fail, ServiceFails, Write, WriteFails,
                    evaluationVars
<1>9. CASE RetrievalDone \/ Assemble \/ Return
  BY <1>3, <1>7, <1>9 DEF RetrievalDone, Assemble, Return
<1>10. CASE GenerationDone
  <2>1. rows = Len(Dataset) /\ generationRows' = generationRows /\ responses' = responses
    BY <1>10 DEF GenerationDone
  <2>2. rows = n
    <3>. DEFINE all == Len(Dataset)
    <3>1. rows = all /\ rows <= n /\ n <= all /\ rows \in Nat /\ n \in Nat /\ all \in Nat
      BY <1>2, <2>1
    <3>. HIDE DEF rows, n, all
    <3>. QED
      BY <3>1
  <2>. QED
    BY <1>7, <2>1, <2>2
<1>. QED
  BY <1>4, <1>5, <1>6, <1>8, <1>9, <1>10 DEF EvaluationNext

\* Each stage ends when its rows are complete.
LEMMA StageStep ==
    ASSUME RunInv, [EvaluationNext]_evaluationVars
    PROVE  StageInv'
<1>0. setup' = setup /\ Dataset' = Dataset
  BY SetupStays
<1>1. StageInv /\ setup \in Setups /\ MaxRuns \in Nat /\ runs \in 0 .. MaxRuns
      /\ setup.generation \in BOOLEAN
  BY SetupsAssumption DEF RunInv, StageInv
<1>2. CASE Run
  <2>1. /\ runs' = runs + 1 /\ runs < MaxRuns /\ status' = "retrieving" /\ responses' = <<>>
        /\ retrievalRows' = <<>>
    BY <1>2 DEF Run
  <2>2. runs' \in 0 .. MaxRuns /\ runs' > 0
    BY <1>1, <2>1
  <2>. QED
    BY <1>0, <1>1, <2>1, <2>2 DEF StageInv
<1>3. CASE RetrieveExample
  <2>1. status = "retrieving" /\ status' = status /\ runs' = runs /\ responses' = responses
    BY <1>3 DEF RetrieveExample, Unretrieved
  <2>. QED
    BY <1>0, <1>1, <2>1 DEF StageInv
<1>4. CASE RetrievalFails \/ ServiceFails \/ WriteFails
  <2>1. /\ status \in {"retrieving", "generating", "writing"} /\ status' = "failed"
        /\ runs' = runs /\ responses' = responses
    BY <1>4 DEF RetrievalFails, ServiceFails, WriteFails, Fail, Unretrieved, Unanswered, Writing
  <2>. QED
    BY <1>0, <1>1, <2>1 DEF StageInv
<1>5. CASE RetrievalDone
  <2>1. /\ status = "retrieving" /\ Len(retrievalRows) = Len(Dataset)
        /\ status' = IF setup.generation THEN "generating" ELSE "reporting"
        /\ UNCHANGED <<runs, responses, retrievalRows>>
    BY <1>5 DEF RetrievalDone
  <2>. QED
    BY <1>0, <1>1, <2>1 DEF StageInv
<1>6. CASE AnswerExample
  <2>1. /\ status = "generating" /\ UNCHANGED <<status, runs, retrievalRows>>
    BY <1>6 DEF AnswerExample, Unanswered
  <2>. QED
    BY <1>0, <1>1, <2>1 DEF StageInv
<1>7. CASE JudgeExample
  <2>1. /\ status = "generating" /\ UNCHANGED <<status, runs, retrievalRows, responses>>
    BY <1>7 DEF JudgeExample, BeingJudged
  <2>. QED
    BY <1>0, <1>1, <2>1 DEF StageInv
<1>8. CASE GenerationDone
  <2>1. /\ status = "generating" /\ status' = "reporting" /\ Len(generationRows) = Len(Dataset)
        /\ UNCHANGED <<runs, retrievalRows, responses>>
    BY <1>8 DEF GenerationDone
  <2>2. Len(responses) = Len(Dataset)
    <3>. DEFINE rows == Len(generationRows)  n == Len(responses)  all == Len(Dataset)
    <3>1. rows = all /\ rows <= n /\ n <= all /\ rows \in Nat /\ n \in Nat /\ all \in Nat
      BY <2>1, RowsKnown
    <3>. HIDE DEF rows, n, all
    <3>2. n = all
      BY <3>1
    <3>. QED
      BY <3>2 DEF n, all
  <2>. QED
    BY <1>0, <1>1, <2>1, <2>2 DEF StageInv
<1>9. CASE Assemble
  <2>1. /\ status = "reporting" /\ status' \in {"writing", "failed"}
        /\ UNCHANGED <<runs, retrievalRows, responses>>
    BY <1>9 DEF Assemble
  <2>. QED
    BY <1>0, <1>1, <2>1 DEF StageInv
<1>10. CASE Write
  <2>1. UNCHANGED <<status, runs, retrievalRows, responses>>
    BY <1>10 DEF Write
  <2>. QED
    BY <1>0, <1>1, <2>1 DEF StageInv
<1>11. CASE Return
  <2>1. status = "writing" /\ status' = "idle" /\ UNCHANGED <<runs, retrievalRows, responses>>
    BY <1>11 DEF Return
  <2>. QED
    BY <1>0, <1>1, <2>1 DEF StageInv
<1>12. CASE UNCHANGED evaluationVars
  BY <1>0, <1>1, <1>12 DEF StageInv, evaluationVars
<1>. QED
  BY <1>2, <1>3, <1>4, <1>5, <1>6, <1>7, <1>8, <1>9, <1>10, <1>11, <1>12 DEF EvaluationNext

\* The report is assembled from rows that stay.
LEMMA SummaryStep ==
    ASSUME RunInv, [EvaluationNext]_evaluationVars
    PROVE  SummaryInv'
<1>0. setup' = setup /\ Dataset' = Dataset
  BY SetupStays
<1>1. SummaryInv
  BY DEF RunInv
<1>2. CASE Assemble
  <2>1. UNCHANGED <<retrievalRows, generationRows>>
    BY <1>2 DEF Assemble
  <2>2. PerQuestion' = PerQuestion
    BY <1>0, <2>1 DEF PerQuestion
  <2>3. summary' = [retrieval |-> AggregateRetrieval(retrievalRows),
                    generation |-> IF setup.generation THEN AggregateGeneration(generationRows)
                                   ELSE <<>>,
                    per_question |-> PerQuestion]
    BY <1>2 DEF Assemble
  <2>4. /\ AggregateRetrieval(retrievalRows)' = AggregateRetrieval(retrievalRows)
        /\ AggregateGeneration(generationRows)' = AggregateGeneration(generationRows)
    BY <2>1 DEF AggregateRetrieval, AggregateGeneration
  <2>. QED
    BY <1>0, <2>2, <2>3, <2>4 DEF SummaryInv
<1>3. CASE Write \/ WriteFails \/ Return \/ UNCHANGED evaluationVars
  <2>1. UNCHANGED <<retrievalRows, generationRows, summary, runs>>
    BY <1>3 DEF Write, WriteFails, Fail, Return, evaluationVars
  <2>2. status' \in {"writing", "idle"} => status \in {"writing", "idle"}
    BY <1>3 DEF Write, WriteFails, Fail, Return, Writing, evaluationVars
  <2>3. PerQuestion' = PerQuestion
    BY <1>0, <2>1 DEF PerQuestion
  <2>4. /\ AggregateRetrieval(retrievalRows)' = AggregateRetrieval(retrievalRows)
        /\ AggregateGeneration(generationRows)' = AggregateGeneration(generationRows)
    BY <2>1 DEF AggregateRetrieval, AggregateGeneration
  <2>. QED
    BY <1>0, <1>1, <2>1, <2>2, <2>3, <2>4 DEF SummaryInv
<1>4. CASE ~(status' \in {"writing", "idle"})
  BY <1>4 DEF SummaryInv
<1>. QED
  BY <1>2, <1>3, <1>4 DEF EvaluationNext, Run, RetrieveExample, RetrievalFails, RetrievalDone, Fail,
       Unretrieved, Unanswered, BeingJudged, AnswerExample, ServiceFails, JudgeExample, GenerationDone

\* The formats, in their order.
LEMMA FormatsAre ==
    /\ DOMAIN Formats = 1 .. 3 /\ Range(Formats) = {"json", "md", "csv"}
    /\ Formats[1] = "json" /\ Formats[2] = "md" /\ Formats[3] = "csv"
    /\ \A i, j \in 1 .. 3 : Formats[i] = Formats[j] => i = j
    /\ \A i, j \in 1 .. 3 : i < j => Formats[i] # "csv"
<1>1. DOMAIN Formats = 1 .. 3 /\ Formats[1] = "json" /\ Formats[2] = "md" /\ Formats[3] = "csv"
  BY DEF Formats
<1>2. Range(Formats) = {"json", "md", "csv"}
  <2>1. Range(Formats) = {Formats[i] : i \in 1 .. 3}
    BY <1>1 DEF Range
  <2>2. \A i \in 1 .. 3 : i = 1 \/ i = 2 \/ i = 3
    OBVIOUS
  <2>3. 1 \in 1 .. 3 /\ 2 \in 1 .. 3 /\ 3 \in 1 .. 3
    OBVIOUS
  <2>. QED
    BY <1>1, <2>1, <2>2, <2>3
<1>3. ASSUME NEW i \in 1 .. 3, NEW j \in 1 .. 3
      PROVE  (Formats[i] = Formats[j] => i = j) /\ (i < j => Formats[i] # "csv")
  <2>1. i = 1 \/ i = 2 \/ i = 3
    OBVIOUS
  <2>2. j = 1 \/ j = 2 \/ j = 3
    OBVIOUS
  <2>. QED
    BY <1>1, <2>1, <2>2
<1>. QED
  BY <1>1, <1>2, <1>3

\* The format written next is the first that is left.
LEMMA TurnIs ==
    ASSUME unwritten \subseteq Range(Formats), unwritten # {}
    PROVE  /\ Turn \in unwritten
           /\ \E k \in 1 .. 3 : Turn = Formats[k] /\ \A j \in 1 .. k - 1 : Formats[j] \notin unwritten
<1>. DEFINE First(f) == \E i \in DOMAIN Formats :
                            f = Formats[i] /\ \A j \in 1 .. i - 1 : Formats[j] \notin unwritten
<1>1. CASE "json" \in unwritten
  <2>1. 1 \in 1 .. 3 /\ \A j \in 1 .. 1 - 1 : Formats[j] \notin unwritten
    OBVIOUS
  <2>. QED
    BY <1>1, <2>1, FormatsAre DEF Turn
<1>2. CASE "json" \notin unwritten /\ "md" \in unwritten
  <2>1. 2 \in 1 .. 3 /\ \A j \in 1 .. 2 - 1 : j = 1
    OBVIOUS
  <2>2. \A j \in 1 .. 2 - 1 : Formats[j] \notin unwritten
    BY <1>2, <2>1, FormatsAre
  <2>. QED
    BY <1>2, <2>1, <2>2, FormatsAre DEF Turn
<1>3. CASE "json" \notin unwritten /\ "md" \notin unwritten
  <2>1. 3 \in 1 .. 3 /\ \A j \in 1 .. 3 - 1 : j = 1 \/ j = 2
    OBVIOUS
  <2>2. \A j \in 1 .. 3 - 1 : Formats[j] \notin unwritten
    BY <1>3, <2>1, FormatsAre
  <2>3. "csv" \in unwritten
    BY <1>3, FormatsAre
  <2>. QED
    BY <2>1, <2>2, <2>3, FormatsAre DEF Turn
<1>. QED
  BY <1>1, <1>2, <1>3

\* What the invariant gives a step that writes: the formats before the one whose
\* turn it is are written, those after it are not.
LEMMA WritingFacts ==
    ASSUME RunInv, Writing
    PROVE  /\ Turn \in unwritten /\ Turn \in Due /\ runs \in Nat /\ runs > 0
           /\ \E k \in 1 .. 3 :
                  /\ Turn = Formats[k]
                  /\ \A i \in 1 .. 3 : i < k => Formats[i] \notin unwritten
                  /\ \A j \in 1 .. 3 : k < j /\ Formats[j] \in Due => Formats[j] \in unwritten
<1>1. PublishedInv /\ StageInv /\ status = "writing" /\ unwritten # {}
  BY DEF RunInv, Writing
<1>2. unwritten \subseteq Due /\ Due \subseteq Range(Formats) /\ runs \in Nat /\ runs > 0
  BY <1>1, SetupFacts DEF PublishedInv, StageInv, Due
<1>3. PICK k \in 1 .. 3 : Turn = Formats[k] /\ \A j \in 1 .. k - 1 : Formats[j] \notin unwritten
  BY <1>1, <1>2, TurnIs
<1>4. Turn \in unwritten
  BY <1>1, <1>2, TurnIs
<1>5. \A i \in 1 .. 3 : i < k => Formats[i] \notin unwritten
  BY <1>3
<1>6. \A j \in 1 .. 3 : k < j /\ Formats[j] \in Due => Formats[j] \in unwritten
  BY <1>1, <1>3, <1>4, FormatsAre DEF PublishedInv
<1>. QED
  BY <1>2, <1>3, <1>4, <1>5, <1>6

\* The files of a run are written one after the other.
LEMMA PublishedStep ==
    ASSUME RunInv, [EvaluationNext]_evaluationVars
    PROVE  PublishedInv' /\ ReportsOrdered'
<1>0. setup' = setup /\ Dataset' = Dataset /\ Due' = Due
  BY SetupStays DEF Due
<1>1. /\ StageInv /\ PublishedInv /\ ReportsOrdered /\ runs \in Nat
      /\ Due \subseteq setup.formats
  BY DEF RunInv, StageInv, Due
<1>2. \A f \in Range(Formats) : /\ published[f].run \in 0 .. runs
                                /\ published[f].whole \in BOOLEAN
  BY <1>1 DEF PublishedInv
<1>3. CASE Run
  <2>1. /\ runs' = runs + 1 /\ published' = published /\ status' = "retrieving" /\ unwritten' = {}
    BY <1>3 DEF Run
  <2>2. published \in [Range(Formats) -> [run : 0 .. runs + 1, whole : BOOLEAN]]
    <3>1. 0 .. runs \subseteq 0 .. runs + 1
      BY <1>1
    <3>2. [run : 0 .. runs, whole : BOOLEAN] \subseteq [run : 0 .. runs + 1, whole : BOOLEAN]
      BY <3>1
    <3>. QED
      BY <1>1, <3>2 DEF PublishedInv
  <2>3. \A f \in Range(Formats) : published[f].run < runs + 1
    BY <1>1, <1>2
  <2>. QED
    BY <1>0, <1>1, <2>1, <2>2, <2>3 DEF PublishedInv, ReportsOrdered
<1>4. ASSUME published' = published, runs' = runs, unwritten' = unwritten,
             status' \in {"retrieving", "generating", "reporting"} =>
                 status \in {"retrieving", "generating", "reporting"},
             status' = "writing" => status = "writing"
      PROVE  PublishedInv' /\ ReportsOrdered'
  BY <1>0, <1>1, <1>4 DEF PublishedInv, ReportsOrdered
<1>5. CASE \/ RetrieveExample \/ RetrievalFails \/ RetrievalDone \/ AnswerExample \/ ServiceFails
           \/ JudgeExample \/ GenerationDone \/ Return \/ UNCHANGED evaluationVars
  BY <1>1, <1>4, <1>5 DEF RetrieveExample, RetrievalFails, RetrievalDone, AnswerExample, ServiceFails,
         JudgeExample, GenerationDone, Return, evaluationVars, Fail, Unretrieved, Unanswered, BeingJudged
<1>6. CASE Assemble
  <2>1. /\ unwritten' = Due /\ published' = published /\ runs' = runs
        /\ status = "reporting" /\ status' \in {"writing", "failed"}
    BY <1>6 DEF Assemble, Due
  <2>2. \A f \in Range(Formats) : published[f].run < runs
    BY <1>1, <2>1 DEF PublishedInv
  <2>3. Due \subseteq Range(Formats)
    BY <1>1, SetupFacts DEF StageInv
  <2>. QED
    BY <1>0, <1>1, <2>1, <2>2, <2>3, FormatsAre DEF PublishedInv, ReportsOrdered
<1>7. ASSUME Writing, NEW whole \in BOOLEAN, runs' = runs,
             published' = [published EXCEPT ![Turn] = [run |-> runs, whole |-> whole]],
             \/ unwritten' = unwritten \ {Turn} /\ status' = "writing" /\ whole
             \/ unwritten' = unwritten /\ status' = "failed"
      PROVE  PublishedInv' /\ ReportsOrdered'
  <2>1. PICK k \in 1 .. 3 :
                  /\ Turn = Formats[k]
                  /\ \A i \in 1 .. 3 : i < k => Formats[i] \notin unwritten
                  /\ \A j \in 1 .. 3 : k < j /\ Formats[j] \in Due => Formats[j] \in unwritten
    BY <1>7, WritingFacts
  <2>2. Turn \in unwritten /\ Turn \in Due /\ runs > 0
    BY <1>7, WritingFacts
  <2>. DEFINE new == [run |-> runs, whole |-> whole]
  <2>3. Turn \in Range(Formats)
    BY <2>1, FormatsAre DEF Range
  <2>4. /\ published'[Turn] = new
        /\ \A f \in Range(Formats) : f # Turn => published'[f] = published[f]
    BY <1>1, <1>7, <2>3 DEF PublishedInv
  <2>5. published' \in [Range(Formats) -> [run : 0 .. runs, whole : BOOLEAN]]
    <3>1. new \in [run : 0 .. runs, whole : BOOLEAN]
      <4>1. runs \in 0 .. runs
        BY <1>1
      <4>. QED
        BY <1>7, <4>1
    <3>. HIDE DEF new
    <3>2. published' = [published EXCEPT ![Turn] = new]
      BY <1>7 DEF new
    <3>. QED
      BY <1>1, <3>1, <3>2 DEF PublishedInv
  <2>6. new.run = runs /\ new.whole = whole
    OBVIOUS
  <2>. HIDE DEF new
  <2>7. \A f \in Range(Formats) : /\ published'[f].run = 0 => published'[f].whole
                                  /\ f \notin Due => published'[f].run = 0
    BY <1>1, <2>2, <2>4, <2>6 DEF PublishedInv
  <2>8. status = "writing" /\ unwritten \subseteq Due
    BY <1>1, <1>7 DEF Writing, PublishedInv
  <2>9. /\ \A f \in unwritten : published[f].run < runs
        /\ \A f \in Due \ unwritten : published[f].run = runs /\ published[f].whole
    BY <1>1, <2>8 DEF PublishedInv
  <2>10. Due \subseteq Range(Formats) /\ setup.formats \subseteq Range(Formats)
    BY <1>1, SetupFacts DEF StageInv
  <2>11. PublishedInv'
    <3>1. CASE status' = "failed"
      BY <1>0, <1>7, <2>5, <2>7, <2>8, <3>1 DEF PublishedInv
    <3>2. CASE unwritten' = unwritten \ {Turn} /\ status' = "writing" /\ whole
      <4>1. \A f \in unwritten \ {Turn} : published'[f].run < runs
        BY <2>4, <2>8, <2>9, <2>10
      <4>2. \A f \in Due \ (unwritten \ {Turn}) : published'[f].run = runs /\ published'[f].whole
        BY <2>4, <2>6, <2>9, <2>10, <3>2
      <4>3. ASSUME NEW i \in 1 .. 3, NEW j \in 1 .. 3, i < j,
                   Formats[i] \in unwritten \ {Turn}, Formats[j] \in Due
            PROVE  Formats[j] \in unwritten \ {Turn}
        <5>1. Formats[j] \in unwritten
          BY <1>1, <2>8, <4>3, FormatsAre DEF PublishedInv
        <5>2. j # k
          BY <2>1, <4>3
        <5>3. Formats[j] # Turn
          BY <2>1, <5>2, FormatsAre
        <5>. QED
          BY <5>1, <5>3
      <4>. QED
        BY <1>0, <1>7, <2>5, <2>7, <2>8, <3>2, <4>1, <4>2, <4>3, FormatsAre DEF PublishedInv
    <3>. QED
      BY <1>7, <3>1, <3>2
  <2>12. ASSUME NEW i \in 1 .. 3, NEW j \in 1 .. 3, i < j,
                Formats[i] \in setup.formats, Formats[j] \in setup.formats
         PROVE  /\ published'[Formats[j]].run <= published'[Formats[i]].run
                /\ ~published'[Formats[i]].whole =>
                       published'[Formats[j]].run < published'[Formats[i]].run
    <3>0. /\ Formats[i] \in Range(Formats) /\ Formats[j] \in Range(Formats) /\ Formats[i] \in Due
          /\ Formats[i] # Formats[j]
      BY <2>10, <2>12, FormatsAre DEF Due
    <3>1. CASE i = k
      <4>1. published'[Formats[i]].run = runs /\ published'[Formats[j]] = published[Formats[j]]
        BY <2>1, <2>4, <2>6, <3>0, <3>1
      <4>2. published[Formats[j]].run < runs
        <5>1. CASE Formats[j] \in Due
          BY <2>1, <2>9, <2>12, <3>1, <5>1
        <5>2. CASE Formats[j] \notin Due
          BY <1>1, <2>2, <3>0, <5>2 DEF PublishedInv
        <5>. QED
          BY <5>1, <5>2
      <4>. DEFINE a == published[Formats[j]].run
      <4>3. a \in 0 .. runs
        BY <1>2, <3>0
      <4>. HIDE DEF a
      <4>4. a < runs
        BY <4>2 DEF a
      <4>5. a <= runs
        BY <1>1, <4>3, <4>4
      <4>. QED
        BY <4>1, <4>4, <4>5 DEF a
    <3>2. CASE j = k
      <4>1. Formats[i] \notin unwritten
        BY <2>1, <2>12, <3>2
      <4>2. published[Formats[i]].run = runs /\ published[Formats[i]].whole
        BY <2>9, <3>0, <4>1
      <4>3. published'[Formats[i]] = published[Formats[i]] /\ published'[Formats[j]].run = runs
        BY <2>1, <2>4, <2>6, <3>0, <3>2
      <4>4. runs <= runs
        BY <1>1
      <4>. QED
        BY <4>2, <4>3, <4>4
    <3>3. CASE i # k /\ j # k
      <4>1. Formats[i] # Turn /\ Formats[j] # Turn
        BY <2>1, <3>3, FormatsAre
      <4>2. /\ published'[Formats[i]] = published[Formats[i]]
            /\ published'[Formats[j]] = published[Formats[j]]
        BY <2>4, <3>0, <4>1
      <4>. QED
        BY <1>1, <2>12, <4>2, FormatsAre DEF ReportsOrdered
    <3>. QED
      BY <3>1, <3>2, <3>3
  <2>13. ReportsOrdered'
    BY <1>0, <2>12, FormatsAre DEF ReportsOrdered
  <2>. QED
    BY <2>11, <2>13
<1>8. CASE Write
  BY <1>7, <1>8 DEF Write, Writing
<1>9. CASE WriteFails
  <2>1. CASE UNCHANGED published
    BY <1>4, <1>9, <2>1 DEF WriteFails, Fail
  <2>2. CASE published' = [published EXCEPT ![Turn] = [run |-> runs, whole |-> FALSE]]
    BY <1>7, <1>9, <2>2 DEF WriteFails, Fail
  <2>. QED
    BY <1>9, <2>1, <2>2 DEF WriteFails
<1>. QED
  BY <1>3, <1>5, <1>6, <1>8, <1>9 DEF EvaluationNext

\* The program begins with nothing evaluated.
LEMMA EvaluationStart ==
    ASSUME EvaluationInit
    PROVE  RunInv
<1>1. /\ setup \in Setups /\ runs = 0 /\ status = "idle" /\ retrievalRows = <<>>
      /\ responses = <<>> /\ generationRows = <<>> /\ unwritten = {}
      /\ published = [f \in Range(Formats) |-> Absent]
  BY DEF EvaluationInit, EvaluationBegin
<1>2. Len(Dataset) \in Nat
  BY <1>1, SetupFacts
<1>3. RetrievalRowsInv /\ ResponsesInv /\ GenerationRowsInv
  BY <1>1, <1>2, EmptySequence DEF RetrievalRowsInv, ResponsesInv, GenerationRowsInv
<1>4. StageInv /\ SummaryInv
  BY <1>1, SetupsAssumption DEF StageInv, SummaryInv
<1>5. published \in [Range(Formats) -> [run : 0 .. runs, whole : BOOLEAN]]
  <2>1. Absent \in [run : 0 .. 0, whole : BOOLEAN]
    BY DEF Absent
  <2>. QED
    BY <1>1, <2>1
<1>6. \A f \in Range(Formats) : published[f].run = 0 /\ published[f].whole
  BY <1>1 DEF Absent
<1>7. PublishedInv
  BY <1>1, <1>5, <1>6 DEF PublishedInv
<1>8. ReportsOrdered
  <2>1. \A i \in DOMAIN Formats : Formats[i] \in Range(Formats)
    BY DEF Range
  <2>. QED
    BY <1>6, <2>1 DEF ReportsOrdered
<1>. QED
  BY <1>3, <1>4, <1>7, <1>8 DEF RunInv

\* What a run keeps, whatever fails in it and however often it is repeated.
LEMMA RunKept == EvaluationSpec => []RunInv
<1>1. EvaluationInit => RunInv
  BY EvaluationStart
<1>2. RunInv /\ [EvaluationNext]_evaluationVars => RunInv'
  BY RetrievalRowsStep, ResponsesStep, GenerationRowsStep, StageStep, SummaryStep, PublishedStep
  DEF RunInv
<1>. QED
  BY <1>1, <1>2, PTL DEF EvaluationSpec

\* The variables of Evaluation keep their types, and every score stays between 0
\* and 1 whatever the judge replies.
THEOREM EvaluationTypeCorrect == EvaluationSpec => []EvaluationTypeOK
<1>1. RunInv => EvaluationTypeOK
  <2>. SUFFICES ASSUME RunInv
                PROVE  EvaluationTypeOK
    OBVIOUS
  <2>1. StageInv /\ PublishedInv /\ RetrievalRowsInv /\ GenerationRowsInv /\ ResponsesInv
    BY DEF RunInv
  <2>2. Len(generationRows) \in Len(responses) - 1 .. Len(responses)
    <3>. DEFINE rows == Len(generationRows)  n == Len(responses)
    <3>1. rows = n \/ rows = n - 1
      BY <2>1 DEF GenerationRowsInv
    <3>2. n \in Nat
      BY RowsKnown
    <3>. HIDE DEF rows, n
    <3>3. rows \in n - 1 .. n
      BY <3>1, <3>2
    <3>. QED
      BY <3>3 DEF rows, n
  <2>3. \A i \in DOMAIN retrievalRows :
            \A key \in {"recall", "precision", "mrr", "ndcg", "hit_rate"} :
                IsScore(retrievalRows[i][key])
    BY <2>1 DEF RetrievalRowsInv, RowSound
  <2>4. \A i \in DOMAIN generationRows :
            \A key \in Quality \cup {"unanswerable_correct"} : IsScore(generationRows[i][key])
    <3>. SUFFICES ASSUME NEW i \in DOMAIN generationRows,
                         NEW key \in Quality \cup {"unanswerable_correct"}
                  PROVE  IsScore(generationRows[i][key])
      OBVIOUS
    <3>. DEFINE row == generationRows[i]
    <3>1. RowRight(row, Dataset[i], responses[i])
      BY <2>1 DEF GenerationRowsInv
    <3>. HIDE DEF row
    <3>2. IsScore(row[key])
      <4>1. IsScore(Zero) /\ IsScore(One)
        BY Scores
      <4>. QED
        BY <3>1, <4>1 DEF RowRight
    <3>. QED
      BY <3>2 DEF row
  <2>5. unwritten \subseteq setup.formats
    BY <2>1 DEF PublishedInv, Due
  <2>. QED
    BY <2>1, <2>2, <2>3, <2>4, <2>5
    DEF StageInv, PublishedInv, RetrievalRowsInv, ResponsesInv, EvaluationTypeOK
<1>. QED
  BY <1>1, RunKept, PTL

\* A mean of the rows, by the functions that score a ranking.
LEMMA MeansAgree ==
    ASSUME RetrievalRowsInv
    PROVE  LET means == AggregateRetrieval(retrievalRows)
           IN  /\ Equal(means.recall, means.hit_rate)
               /\ \A key \in {"precision", "mrr", "ndcg"} : AtMost(means[key], means.hit_rate)
<1>. DEFINE D == DOMAIN retrievalRows
            Keys == {"recall", "precision", "mrr", "ndcg", "hit_rate"}
            f(key) == [i \in D |-> retrievalRows[i][key]]
            means == AggregateRetrieval(retrievalRows)
<1>1. IsFiniteSet(D)
  BY FiniteSequence DEF RetrievalRowsInv
<1>2. \A key \in Keys : means[key] = Mean(f(key))
  BY DEF AggregateRetrieval
<1>3. \A i \in D : RowSound(retrievalRows[i])
  BY DEF RetrievalRowsInv
<1>4. \A key \in Keys : \A i \in D : f(key)[i] = retrievalRows[i][key] /\ f(key)[i] \in Fraction
  BY <1>3, Scores DEF RowSound
<1>5. \A i \in D : AtMost(retrievalRows[i].recall, retrievalRows[i].hit_rate)
                   /\ AtMost(retrievalRows[i].hit_rate, retrievalRows[i].recall)
  BY <1>3, <1>4, Compared DEF RowSound
<1>6. ASSUME NEW key \in {"precision", "mrr", "ndcg"}, NEW i \in D
      PROVE  AtMost(retrievalRows[i][key], retrievalRows[i].hit_rate)
  <2>. DEFINE score == retrievalRows[i][key]
              hit == retrievalRows[i].hit_rate
  <2>1. IsScore(score) /\ ((score[1] > 0) <=> (hit = One)) /\ hit \in {Zero, One}
    BY <1>3 DEF RowSound
  <2>. HIDE DEF score, hit
  <2>2. AtMost(score, hit)
    <3>1. CASE hit = One
      BY <2>1, <3>1 DEF IsScore
    <3>2. CASE hit = Zero
      <4>1. hit # One
        BY <3>2 DEF Zero, One
      <4>2. ~(score[1] > 0) /\ score[1] \in Int /\ score[2] \in Int /\ score[2] > 0
        BY <2>1, <4>1 DEF IsScore
      <4>. QED
        BY <3>2, <4>2 DEF AtMost, Zero
    <3>. QED
      BY <2>1, <3>1, <3>2
  <2>. QED
    BY <2>2 DEF score, hit
<1>7. \A key \in Keys : DOMAIN f(key) = D
  OBVIOUS
<1>. HIDE DEF f, D
<1>8. /\ Mean(f("recall")) \in Fraction /\ Mean(f("hit_rate")) \in Fraction
      /\ AtMost(Mean(f("recall")), Mean(f("hit_rate")))
      /\ AtMost(Mean(f("hit_rate")), Mean(f("recall")))
  BY <1>1, <1>4, <1>5, <1>7, MeanMonotone
<1>9. \A key \in {"precision", "mrr", "ndcg"} : AtMost(Mean(f(key)), Mean(f("hit_rate")))
  <2>. SUFFICES ASSUME NEW key \in {"precision", "mrr", "ndcg"}
                PROVE  AtMost(Mean(f(key)), Mean(f("hit_rate")))
    OBVIOUS
  <2>1. key \in Keys /\ "hit_rate" \in Keys
    OBVIOUS
  <2>. QED
    BY <1>1, <1>4, <1>6, <1>7, <2>1, MeanMonotone
<1>10. Equal(Mean(f("recall")), Mean(f("hit_rate")))
  BY <1>8, Compared
<1>. QED
  BY <1>2, <1>9, <1>10

\* Whatever is retrieved, the five scores of a ranking agree, and so do their
\* means in the report.
THEOREM ScoresAgree == EvaluationSpec => []RetrievalScoresAgree
<1>1. RunInv => RetrievalScoresAgree
  <2>. SUFFICES ASSUME RunInv
                PROVE  RetrievalScoresAgree
    OBVIOUS
  <2>1. RetrievalRowsInv /\ SummaryInv
    BY DEF RunInv
  <2>2. \A i \in DOMAIN retrievalRows : RowSound(retrievalRows[i])
    BY <2>1 DEF RetrievalRowsInv
  <2>3. status \in {"writing", "idle"} /\ runs > 0 =>
            summary.retrieval = AggregateRetrieval(retrievalRows)
    BY <2>1 DEF SummaryInv
  <2>. QED
    BY <2>1, <2>2, <2>3, MeansAgree DEF RetrievalScoresAgree, RowSound
<1>. QED
  BY <1>1, RunKept, PTL

\* A report file is never newer than one written before it, and only the last
\* that a run wrote is not whole.
THEOREM ReportsStayOrdered == EvaluationSpec => []ReportsOrdered
<1>1. RunInv => ReportsOrdered
  BY DEF RunInv
<1>. QED
  BY <1>1, RunKept, PTL

\* Whatever the judge says of an answer's citations, each marker is counted once
\* and each sentence without a valid one as missing.
THEOREM CitationsStayCounted == EvaluationSpec => []CitationsAgree
<1>1. RunInv => CitationsAgree
  <2>. SUFFICES ASSUME RunInv, BeingJudged
                PROVE  LET answer == Last(responses).answer
                           context == Last(responses).sources
                           covered == {s \in DOMAIN answer :
                               \E n \in Markers(answer[s]) : 1 <= n /\ n <= Len(context)}
                       IN  \A supports \in [Valid(MarkersOf(answer), context)
                                                -> {Zero, <<1, 2>>, One}] :
                LET r == EvaluateCitations(answer, context, supports)
                IN  /\ r.supported + r.unsupported = Cardinality(MarkersOf(answer))
                    /\ r.missing + Cardinality(covered) = Len(answer)
                    /\ Equal(r.score, One) => covered = DOMAIN answer /\ r.unsupported = 0
    BY DEF CitationsAgree
  <2>. DEFINE n == Len(responses)
  <2>1. n \in DOMAIN responses /\ n \in DOMAIN Dataset
    <3>. DEFINE rows == Len(generationRows)  all == Len(Dataset)
    <3>1. n > rows /\ n \in Nat /\ rows \in Nat /\ n <= all /\ all \in Nat
      BY RowsKnown DEF BeingJudged
    <3>. HIDE DEF n, rows, all
    <3>2. n \in 1 .. n /\ n \in 1 .. all
      BY <3>1
    <3>. QED
      BY <3>2, RowsKnown DEF n, all
  <2>2. Last(responses) = responses[n] /\ responses[n] \in setup.responses[n] /\ setup \in Setups
    BY <2>1 DEF Last, RunInv, ResponsesInv, StageInv
  <2>. DEFINE answer == Last(responses).answer
              context == Last(responses).sources
  <2>3. answer \in Seq(Seq(Token)) /\ IsSequence(context)
    BY <2>1, <2>2, SetupFacts
  <2>. HIDE DEF answer, context
  <2>4. \A supports : LET r == EvaluateCitations(answer, context, supports)
                      IN  /\ r.supported + r.unsupported = Cardinality(MarkersOf(answer))
                          /\ r.missing + Cardinality(Covered(answer, context)) = Len(answer)
                          /\ Equal(r.score, One) => /\ Covered(answer, context) = DOMAIN answer
                                                    /\ r.unsupported = 0
    BY <2>3, CitationsCounted
  <2>. QED
    BY <2>4 DEF answer, context, Covered
<1>. QED
  BY <1>1, RunKept, PTL

\* When the report is made, every example has its response and its row.
LEMMA AllRows ==
    ASSUME RunInv, status \in {"writing", "idle"}, runs > 0, setup.generation
    PROVE  /\ DOMAIN responses = DOMAIN Dataset /\ DOMAIN generationRows = DOMAIN Dataset
           /\ DOMAIN retrievalRows = DOMAIN Dataset
           /\ Len(generationRows) = Len(Dataset) /\ IsSequence(Dataset)
           /\ \A i \in DOMAIN Dataset : /\ RowRight(generationRows[i], Dataset[i], responses[i])
                                        /\ Dataset[i].answerable \in BOOLEAN
                                        /\ responses[i].refused \in BOOLEAN
<1>1. StageInv /\ GenerationRowsInv /\ RetrievalRowsInv /\ ResponsesInv /\ setup \in Setups
  BY DEF RunInv, StageInv
<1>2. Len(responses) = Len(Dataset) /\ Len(retrievalRows) = Len(Dataset)
  BY <1>1 DEF StageInv
<1>3. Len(generationRows) = Len(responses)
  BY <1>1 DEF GenerationRowsInv
<1>4. /\ DOMAIN responses = 1 .. Len(responses)
      /\ DOMAIN generationRows = 1 .. Len(generationRows)
      /\ DOMAIN Dataset = 1 .. Len(Dataset)
  BY RowsKnown
<1>5. DOMAIN retrievalRows = 1 .. Len(retrievalRows)
  BY <1>1, FiniteSequence DEF RetrievalRowsInv
<1>6. \A i \in DOMAIN Dataset : RowRight(generationRows[i], Dataset[i], responses[i])
  BY <1>1, <1>2, <1>3, <1>4 DEF GenerationRowsInv
<1>7. \A i \in DOMAIN Dataset : Dataset[i].answerable \in BOOLEAN /\ responses[i].refused \in BOOLEAN
  BY <1>1, <1>2, <1>4, SetupFacts DEF ResponsesInv
<1>8. IsSequence(Dataset)
  BY <1>1, SetupFacts
<1>. QED
  BY <1>2, <1>3, <1>4, <1>5, <1>6, <1>7, <1>8

\* An average over some, of scores that are 0 elsewhere, is the sum over all
\* divided by how many the some are.
LEMMA AverageOfSome ==
    ASSUME NEW D, IsFiniteSet(D), NEW A \in SUBSET D, NEW f, NEW g, DOMAIN f = D, DOMAIN g = A,
           \A i \in D : f[i] \in Fraction, \A i \in A : g[i] = f[i],
           \A i \in D \ A : f[i] = Zero
    PROVE  Mean(g)[1] * Sum(f)[2] * Cardinality(A) = Sum(f)[1] * Mean(g)[2]
<1>. DEFINE t == SumOver(f, D)
            s == SumOver(g, A)
            n == Cardinality(A)
<1>1. IsFiniteSet(A) /\ n \in Nat
  BY FS_Subset, FS_CardinalityType
<1>2. Sum(f) = t /\ Sum(g) = s
  BY DEF Sum, SumOver, FoldFunction
<1>3. /\ t \in Fraction /\ s \in Fraction /\ Equal(t, s)
  <2>1. t \in Fraction /\ Equal(t, SumOver(f, A))
    BY SumOverRemove, SumOverZero
  <2>2. \A i \in A : g[i] \in Fraction
    OBVIOUS
  <2>3. s \in Fraction /\ SumOver(g, A) = SumOver(f, A)
    BY <1>1, <2>2, SumOverRemove, SumOverSame
  <2>. QED
    BY <2>1, <2>3
<1>4. /\ t[1] \in Int /\ t[2] \in Nat \ {0} /\ s[1] \in Int /\ s[2] \in Nat \ {0}
      /\ t[1] * s[2] = s[1] * t[2]
  BY <1>3 DEF Fraction, Equal
<1>5. CASE A = {}
  <2>1. n = 0 /\ Mean(g) = Zero
    BY <1>5, FS_EmptySet DEF Mean
  <2>2. Equal(t, Zero)
    <3>1. SumOver(f, {}) = Zero
      BY SumOverRemove
    <3>2. Equal(t, SumOver(f, A))
      BY SumOverZero
    <3>. QED
      BY <1>5, <3>1, <3>2
  <2>3. t[1] = 0
    <3>1. t[1] * 1 = 0 * t[2]
      BY <2>2 DEF Equal, Zero
    <3>. HIDE DEF t
    <3>. QED
      BY <1>4, <3>1
  <2>4. Mean(g)[1] = 0 /\ Mean(g)[2] = 1
    BY <2>1 DEF Zero
  <2>5. 0 * t[2] * n = 0 * 1
    <3>. HIDE DEF t, n
    <3>. QED
      BY <1>1, <1>4
  <2>. QED
    BY <1>2, <2>3, <2>4, <2>5
<1>6. CASE A # {}
  <2>1. Mean(g) = <<s[1], s[2] * n>>
    BY <1>2, <1>6 DEF Mean
  <2>2. Mean(g)[1] = s[1] /\ Mean(g)[2] = s[2] * n
    BY <2>1
  <2>3. s[1] * t[2] * n = t[1] * (s[2] * n)
    <3>. DEFINE a == s[1]  b == s[2]  c == t[1]  d == t[2]
    <3>1. a \in Int /\ b \in Int /\ c \in Int /\ d \in Int /\ n \in Int /\ c * b = a * d
      BY <1>1, <1>4
    <3>. HIDE DEF a, b, c, d, n
    <3>2. a * d * n = c * b * n
      BY <3>1
    <3>3. c * b * n = c * (b * n)
      BY <3>1
    <3>4. a * d * n = c * (b * n)
      BY <3>2, <3>3
    <3>. QED
      BY <3>4 DEF a, b, c, d
  <2>. QED
    BY <1>2, <2>2, <2>3
<1>. QED
  BY <1>5, <1>6

\* The report says of the outcomes what the responses were.
LEMMA OutcomesOfRows ==
    ASSUME RunInv, status \in {"writing", "idle"}, runs > 0, setup.generation
    PROVE  OutcomesCounted
<1>. DEFINE all == DOMAIN Dataset
            refused == {i \in all : responses[i].refused}
            unanswerable == {i \in all : ~Dataset[i].answerable}
            answered == all \ (refused \cup unanswerable)
            generation == summary.generation
            Total(key) == Sum([i \in all |-> generationRows[i][key]])
            right == [i \in unanswerable |-> generationRows[i].unanswerable_correct]
<1>1. /\ DOMAIN generationRows = all /\ DOMAIN retrievalRows = all
      /\ Len(generationRows) = Len(Dataset) /\ IsSequence(Dataset)
      /\ \A i \in all : /\ RowRight(generationRows[i], Dataset[i], responses[i])
                        /\ Dataset[i].answerable \in BOOLEAN /\ responses[i].refused \in BOOLEAN
  BY AllRows
<1>2. IsFiniteSet(all) /\ IsFiniteSet(unanswerable)
  BY <1>1, FiniteSequence, FS_Subset
<1>3. /\ {i \in DOMAIN generationRows : generationRows[i].answered} = answered
      /\ {i \in DOMAIN generationRows : generationRows[i].unanswerable} = unanswerable
      /\ {i \in DOMAIN generationRows : generationRows[i].refused} = refused
  BY <1>1 DEF RowRight, Judged
<1>4. summary = [retrieval |-> AggregateRetrieval(retrievalRows),
                 generation |-> AggregateGeneration(generationRows),
                 per_question |-> PerQuestion]
  BY DEF RunInv, SummaryInv
<1>5. generation = AggregateGeneration(generationRows) /\ summary.per_question = PerQuestion
  BY <1>4
<1>6. /\ \A key \in Quality : generation[key] = Mean([i \in answered |-> generationRows[i][key]])
      /\ generation.refusal_rate = Ratio(Cardinality(refused), Len(Dataset))
      /\ generation.unanswerable_accuracy = Mean(right)
  <2>. DEFINE Average(key) == Mean([i \in answered |-> generationRows[i][key]])
              refusals == Ratio(Cardinality(refused), Len(Dataset))
              accuracy == Mean(right)
              N == Len(generationRows)
              R == {i \in DOMAIN generationRows : generationRows[i].refused}
              U == {i \in DOMAIN generationRows : generationRows[i].unanswerable}
              A == {i \in DOMAIN generationRows : generationRows[i].answered}
  <2>1. generation =
            [faithfulness |-> Mean([i \in A |-> generationRows[i]["faithfulness"]]),
             answer_correctness |-> Mean([i \in A |-> generationRows[i]["answer_correctness"]]),
             answer_completeness |-> Mean([i \in A |-> generationRows[i]["answer_completeness"]]),
             citation_accuracy |-> Mean([i \in A |-> generationRows[i]["citation_accuracy"]]),
             refusal_rate |-> Ratio(Cardinality(R), N),
             unanswerable_accuracy |-> Mean([i \in U |-> generationRows[i].unanswerable_correct])]
    BY <1>5 DEF AggregateGeneration
  <2>2. A = answered /\ U = unanswerable /\ R = refused /\ N = Len(Dataset)
    BY <1>1, <1>3
  <2>. HIDE DEF A, U, R, N, answered, unanswerable, refused, generation
  <2>3. generation = [faithfulness |-> Average("faithfulness"),
             answer_correctness |-> Average("answer_correctness"),
             answer_completeness |-> Average("answer_completeness"),
             citation_accuracy |-> Average("citation_accuracy"),
             refusal_rate |-> refusals, unanswerable_accuracy |-> accuracy]
    BY <2>1, <2>2
  <2>. HIDE DEF Average, refusals, accuracy
  <2>4. /\ \A key \in Quality : generation[key] = Average(key)
        /\ generation.refusal_rate = refusals /\ generation.unanswerable_accuracy = accuracy
    BY <2>3 DEF Quality
  <2>. QED
    BY <2>4 DEF Average, refusals, accuracy, generation, answered, unanswerable, refused
<1>7. Equal(generation.refusal_rate, Ratio(Cardinality(refused), Len(Dataset)))
  BY <1>6 DEF Equal
<1>8. Equal(generation.unanswerable_accuracy,
            Ratio(Cardinality(refused \cap unanswerable), Cardinality(unanswerable)))
  <2>1. \A i \in unanswerable : right[i] = IF responses[i].refused THEN One ELSE Zero
    BY <1>1 DEF RowRight
  <2>2. DOMAIN right = unanswerable
    OBVIOUS
  <2>. HIDE DEF right
  <2>3. Zero # One
    BY DEF Zero, One
  <2>4. {i \in unanswerable : right[i] = One} = refused \cap unanswerable
    BY <2>1, <2>3
  <2>5. \A i \in unanswerable : right[i] \in {Zero, One}
    BY <2>1
  <2>. HIDE DEF unanswerable, refused
  <2>6. Equal(Mean(right), Ratio(Cardinality(refused \cap unanswerable), Cardinality(unanswerable)))
    BY <1>2, <2>2, <2>4, <2>5, MeanOfOnes
  <2>. QED
    BY <1>6, <2>6
<1>9. ASSUME NEW key \in Quality
      PROVE  generation[key][1] * Total(key)[2] * Cardinality(answered)
                 = Total(key)[1] * generation[key][2]
  <2>. DEFINE f == [i \in all |-> generationRows[i][key]]
              g == [i \in answered |-> generationRows[i][key]]
  <2>1. \A i \in all : f[i] = generationRows[i][key] /\ f[i] \in Fraction
    BY <1>1, Scores DEF RowRight
  <2>2. \A i \in answered : g[i] = f[i]
    OBVIOUS
  <2>3. \A i \in all \ answered : f[i] = Zero
    BY <1>1 DEF RowRight, Judged
  <2>4. DOMAIN f = all /\ DOMAIN g = answered /\ answered \in SUBSET all
    OBVIOUS
  <2>5. generation[key] = Mean(g) /\ Total(key) = Sum(f)
    BY <1>6
  <2>. HIDE DEF f, g, all, answered, generation, Total
  <2>6. Mean(g)[1] * Sum(f)[2] * Cardinality(answered) = Sum(f)[1] * Mean(g)[2]
    BY <1>2, <2>1, <2>2, <2>3, <2>4, AverageOfSome
  <2>7. generation[key][1] * Total(key)[2] * Cardinality(answered)
                 = Total(key)[1] * generation[key][2]
    BY <2>5, <2>6
  <2>. QED
    BY <2>7 DEF all, answered, generation, Total
<1>10. ASSUME NEW i \in all
       PROVE  LET row == summary.per_question[i]
              IN  row.answerable = Dataset[i].answerable /\ row.refused = responses[i].refused
  <2>. DEFINE entry == Updated([answerable |-> Dataset[i].answerable], retrievalRows[i])
              last == generationRows[i]
  <2>1. generationRows # <<>>
    BY <1>1, EmptySequence
  <2>2. summary.per_question[i] = Updated(entry, last)
    BY <1>5, <2>1 DEF PerQuestion
  <2>3. /\ {"refused", "answerable"} \cap DOMAIN last = {"refused"}
        /\ last.refused = responses[i].refused
    BY <1>1 DEF RowRight
  <2>4. {"refused", "answerable"} \cap DOMAIN retrievalRows[i] = {}
    BY <1>1 DEF RunInv, RetrievalRowsInv
  <2>5. "answerable" \in DOMAIN entry /\ entry.answerable = Dataset[i].answerable
    BY <2>4 DEF Updated
  <2>. HIDE DEF entry, last
  <2>6. /\ Updated(entry, last).answerable = entry.answerable
        /\ Updated(entry, last).refused = last.refused
    BY <2>3, <2>5 DEF Updated
  <2>. QED
    BY <2>2, <2>3, <2>5, <2>6
<1>. QED
  BY <1>7, <1>8, <1>9, <1>10 DEF OutcomesCounted

\* The report of the generation is about the responses there were: refusals and
\* answers to unanswerable questions count where they should, and nowhere else.
THEOREM OutcomesStayCounted == EvaluationSpec => []OutcomesCounted
<1>1. RunInv => OutcomesCounted
  BY OutcomesOfRows DEF OutcomesCounted
<1>. QED
  BY <1>1, RunKept, PTL

\* Each of the two programs does what its specification says.
LEMMA EachProgram == OfflineSpec => IngestSpec /\ EvaluationSpec
<1>1. OfflineInit => IngestInit /\ EvaluationInit
  BY OfflineAssumption DEF OfflineInit, IngestInit, EvaluationInit
<1>2. [OfflineNext]_<<program, ingestVars, evaluationVars>> => [IngestNext]_ingestVars
  BY DEF OfflineNext
<1>3. [OfflineNext]_<<program, ingestVars, evaluationVars>> => [EvaluationNext]_evaluationVars
  BY DEF OfflineNext
<1>. QED
  BY <1>1, <1>2, <1>3, PTL DEF OfflineSpec, IngestSpec, EvaluationSpec

-----------------------------------------------------------------------------
(* Both programs.                                                          *)

\* The types of both programs are kept, whichever runs.
THEOREM TypesCorrect == OfflineSpec => []TypesOK
<1>1. IngestTypeOK /\ EvaluationTypeOK => TypesOK
  BY DEF TypesOK
<1>. QED
  BY <1>1, EachProgram, IngestTypeCorrect, EvaluationTypeCorrect, PTL

\* What each program promises holds of the two side by side, whichever runs.
THEOREM PromisesKept ==
    OfflineSpec => [](/\ ReportAccurate /\ NearestProvenance
                      /\ RetrievalScoresAgree /\ OutcomesCounted /\ CitationsAgree
                      /\ ReportsOrdered)
BY EachProgram, ReportsAreAccurate, ProvenanceIsNearest, ScoresAgree, OutcomesStayCounted,
   CitationsStayCounted, ReportsStayOrdered, PTL
=============================================================================
