-------------------------- MODULE SemanticChunker --------------------------
(***************************************************************************)
(* SemanticChunker._split_segment (ingestion/chunkers/semantic.py):        *)
(* consecutive sentences form a chunk until the similarity of two          *)
(* neighbours drops below a percentile of all of them, or the token budget *)
(* is reached.  A chunk is a range of sentences; sentences are given by    *)
(* where they end, in tokens, and similarities are integers.               *)
(***************************************************************************)
EXTENDS Integers, Sequences, FiniteSets

CONSTANTS
    MaxTokens,    \* max_tokens
    Percent,      \* 100 - threshold_percentile
    Inputs        \* segments: the ends and the similarities of their sentences

VARIABLES
    input,        \* the segment
    sentence,     \* the sentence the loop is at
    first,        \* current holds sentences first .. sentence - 1
    done,
    chunks        \* the chunks so far, as ranges of sentences

vars == <<input, sentence, first, done, chunks>>

Count == Len(input.ends)
End(i) == IF i = 0 THEN 0 ELSE input.ends[i]

\* Before the first step of the loop.
Begin ==
    /\ sentence = 2
    /\ first = 1
    /\ done = FALSE
    /\ chunks = <<>>

Init ==
    /\ input \in Inputs
    /\ Begin

\* Mutant: the percentile is taken from the similarities as they come.
PercentileUnsorted(values, percent) ==
    LET rank == percent * (Len(values) - 1)
        low == rank \div 100
        high == (rank + 99) \div 100
    IN  100 * values[low + 1] + (values[high + 1] - values[low + 1]) * (rank - 100 * low)
\* sorted(values)[n]: no more than n values are below it, more are not above.
Ordered(values, n) ==
    CHOOSE v \in {values[i] : i \in 1 .. Len(values)} :
        /\ Cardinality({i \in 1 .. Len(values) : values[i] < v}) <= n
        /\ n < Cardinality({i \in 1 .. Len(values) : values[i] <= v})

\* _percentile, in hundredths: linear interpolation between the neighbours of
\* the rank.
Percentile(values, percent) ==
    LET rank == percent * (Len(values) - 1)
        low == rank \div 100
        high == (rank + 99) \div 100
        below == Ordered(values, low)
        above == Ordered(values, high)
    IN  100 * below + (above - below) * (rank - 100 * low)

\* Mutant: the chunk is measured without the sentence at hand.
OverBudgetLate == End(sentence - 1) - End(first - 1) > MaxTokens
OverBudget == End(sentence) - End(first - 1) > MaxTokens
TopicShift == 100 * input.sim[sentence - 1] < Percentile(input.sim, Percent)

Extend ==
    /\ sentence <= Count /\ ~OverBudget /\ ~TopicShift
    /\ sentence' = sentence + 1
    /\ UNCHANGED <<input, first, done, chunks>>

Break ==
    /\ sentence <= Count /\ (OverBudget \/ TopicShift)
    /\ chunks' = Append(chunks, [first |-> first, last |-> sentence - 1])
    /\ first' = sentence
    /\ sentence' = sentence + 1
    /\ UNCHANGED <<input, done>>

\* The last chunk; a segment of one sentence is a chunk as it is.
Flush ==
    /\ ~done /\ sentence > Count
    /\ chunks' = Append(chunks, [first |-> first, last |-> Count])
    /\ done' = TRUE
    /\ UNCHANGED <<input, sentence, first>>

Next == Extend \/ Break \/ Flush

Spec == Init /\ [][Next]_vars

-----------------------------------------------------------------------------
(* Correctness.                                                            *)

TypeOK ==
    /\ sentence \in 2 .. Count + 2
    /\ first \in 1 .. Count
    /\ done \in BOOLEAN
    /\ chunks \in Seq([first : 1 .. Count, last : 1 .. Count])

Size(c) == End(c.last) - End(c.first - 1)

\* The chunks are the sentences of the segment, each once and in order, and only
\* a sentence that is too long by itself makes a chunk above the budget: max_tokens
\* is compared only where a sentence is to join others
\* (SemanticChunker._split_segment).
SentencesChunked ==
    /\ \A k \in 1 .. Len(chunks) :
           /\ chunks[k].first <= chunks[k].last
           /\ chunks[k].first = IF k = 1 THEN 1 ELSE chunks[k - 1].last + 1
           /\ Size(chunks[k]) > MaxTokens => chunks[k].first = chunks[k].last
    /\ done => chunks[Len(chunks)].last = Count

\* Breaks are where the topic shifts: beyond those the budget forces there are
\* no more than the percentile says, and a least similar pair of neighbours is
\* parted unless the percentile is the minimum itself (_percentile).
BreaksAtShifts ==
    LET Forced(k) == Size(chunks[k]) + Size([first |-> chunks[k].last + 1,
                                             last  |-> chunks[k].last + 1]) > MaxTokens
        Shifts == {k \in 1 .. Len(chunks) : chunks[k].last < Count /\ ~Forced(k)}
        Least == {i \in 1 .. Count - 1 :
                    \A j \in 1 .. Count - 1 : input.sim[i] <= input.sim[j]}
    IN  /\ Count > 1 => 100 * Cardinality(Shifts) <= Percent * (Count - 2) + 99
        /\ done /\ Percent > 0 /\ 100 * Cardinality(Least) <= Percent * (Count - 2) =>
            \A i \in Least : \E k \in 1 .. Len(chunks) : chunks[k].last = i
=============================================================================
