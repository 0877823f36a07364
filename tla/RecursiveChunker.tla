-------------------------- MODULE RecursiveChunker --------------------------
(* RecursiveChunker._split_segment: _recursive_split, then _pack. *)
EXTENDS Packing, Splitting

\* _split_segment: the units each text gives _pack to work on.
Segment(gap, unknown) ==
    LET units == Split(gap, unknown, ChunkSize)
        Total(acc, p) ==
            Append(acc, Tokens(gap, unknown, p) + IF acc = <<>> THEN 0 ELSE Last(acc))
    IN  [length |-> Len(gap) + 1, gap |-> gap, unknown |-> unknown,
         units |-> units, ends |-> FoldLeft(Total, <<>>, units)]

\* _recursive_split: blank text has no unit.
BlankSegment ==
    [length |-> 0, gap |-> <<>>, unknown |-> {}, units |-> <<>>, ends |-> <<>>]

\* What there is to chunk are texts, given by what stands between their tokens
\* and which of them are unknown.
ASSUME SegmentsAssumption ==
    \A x \in Inputs :
        \/ x = BlankSegment
        \/ /\ x.gap \in Seq(Gaps) /\ x.unknown \subseteq Unknowable(x.gap)
           /\ x = Segment(x.gap, x.unknown)

\* A text is cut as far as the budget asks and no further: the units are in
\* order, do not overlap, each fits the budget, counted in the tokens of the text
\* it was cut from, and a paragraph, line, sentence or word is divided only if it
\* is larger than the budget.  Their texts hold everything but periods of
\* sentences and, of words above the budget, the tokens that decode to nothing
\* (_recursive_split, _hard_token_split).
SplitAsNeeded ==
    LET units == input.units
    IN  /\ \A i \in 1 .. Len(units) : Length(units[i]) \in 1 .. ChunkSize
        /\ \A i \in 2 .. Len(units) :
              /\ units[i - 1].to < units[i].from
              /\ Length(Enclosing(input.gap, units[i].from - 1)) > ChunkSize
        /\ \A k \in 1 .. input.length :
              \/ \E i \in 1 .. Len(units) : k \in Text(input.gap, input.unknown, units[i])
              \/ k < input.length /\ input.gap[k] = Sentence
              \/ k \in input.unknown /\ Length(WordAround(input.gap, k)) > ChunkSize
=============================================================================
