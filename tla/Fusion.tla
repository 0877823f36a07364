------------------------------- MODULE Fusion -------------------------------
(***************************************************************************)
(* retrieval/fusion.py: reciprocal rank fusion of ranked lists.  A ranked  *)
(* list is a sequence of distinct chunks, best first.  An item gains       *)
(* 1 / (k + rank) from every list it is in; the shares are taken as        *)
(* fractions of Whole, so that they are compared exactly.                  *)
(***************************************************************************)
EXTENDS Integers, Sequences, FiniteSets, SequencesExt, FiniteSetsExt

Items(list) == {list[i] : i \in 1 .. Len(list)}
Rank(list, c) == CHOOSE i \in 1 .. Len(list) : list[i] = c

\* Item c comes before d in a list that has c (and need not have d).
Above(list, c, d) ==
    c \in Items(list) /\ (d \in Items(list) => Rank(list, c) < Rank(list, d))

Longest(lists) == Max({Len(lists[i]) : i \in 1 .. Len(lists)})
Whole(lists, k) == ProductSet(k + 1 .. k + Longest(lists))

\* A finite set as a sequence, in an order that is total on it.
Sorted(S, Before(_, _)) ==
    [i \in 1 .. Cardinality(S) |->
        CHOOSE c \in S : Cardinality({d \in S : Before(d, c)}) = i - 1]

\* The lists that have an item, and the items they have.
Has(lists, c) == {i \in 1 .. Len(lists) : c \in Items(lists[i])}
Found(lists) == UNION {Items(lists[i]) : i \in 1 .. Len(lists)}

\* What an item gains from list i.
Share(lists, k, i, c) == Whole(lists, k) \div (k + Rank(lists[i], c))

\* Mutant: an item gains from the last list it is in only.
ScoreLast(lists, k, c) == Share(lists, k, Max(Has(lists, c)), c)
\* Mutant: the rank counts against an item that is in several lists.
ScoreDamped(lists, k, c) ==
    Whole(lists, k) \div (k + SumFunction([i \in Has(lists, c) |-> Rank(lists[i], c)]))
\* The score of an item: what it gains from each list.
Score(lists, k, c) == SumFunction([i \in Has(lists, c) |-> Share(lists, k, i, c)])

\* Item c is met before d when the lists are read one after another.
MetBefore(lists, c, d) ==
    LET i == Min(Has(lists, c))
        j == Min(Has(lists, d))
    IN  i < j \/ (i = j /\ Rank(lists[i], c) < Rank(lists[j], d))

\* Mutant: the lists are joined as they are.
FuseConcat(lists, k, top) ==
    SubSeq(FlattenSeq(lists), 1, Min({top, Len(FlattenSeq(lists))}))
\* reciprocal_rank_fusion: by score, among equals in the order they were met;
\* the best top of them.
Fuse(lists, k, top) ==
    LET score == [c \in Found(lists) |-> Score(lists, k, c)]
        Before(c, d) ==
            score[c] > score[d] \/ (score[c] = score[d] /\ MetBefore(lists, c, d))
        sorted == Sorted(Found(lists), Before)
        met == Cardinality(Found(lists))
    IN  [i \in 1 .. IF met < top THEN met ELSE top |-> sorted[i]]
=============================================================================
