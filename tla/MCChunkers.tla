----------------------------- MODULE MCChunkers -----------------------------
(* Segments: for the recursive chunker every text up to five known tokens and *)
(* some of seven, and texts of up to six with unknown ones; for the fixed one *)
(* every segment up to MaxLength tokens; for the semantic one up to four      *)
(* sentences of one, two or five tokens, and five of one or five.             *)
EXTENDS Chunkers

ShortTexts == UNION {[1 .. n -> Gaps] : n \in 0 .. 4}
LongTexts == [1 .. 6 -> {1, Sentence, 4}] \cup [1 .. 6 -> {Sentence, Inside, Piece}]
\* Texts with unknown tokens.
PartlyKnown ==
    UNION {[1 .. n -> {Word, Inside, Piece}] : n \in 0 .. 4}
        \cup UNION {[1 .. n -> {Sentence, Inside}] : n \in 4 .. 5}
Texts ==
    {Segment(gap, {}) : gap \in ShortTexts \cup LongTexts}
        \cup UNION {{Segment(gap, us) : us \in SUBSET Unknowable(gap)} :
                       gap \in PartlyKnown}
        \cup {BlankSegment}

Ends(s) ==
    [i \in 1 .. Len(s) |->
        s[1] + (IF i > 1 THEN s[2] ELSE 0) + (IF i > 2 THEN s[3] ELSE 0)
             + (IF i > 3 THEN s[4] ELSE 0) + (IF i > 4 THEN s[5] ELSE 0)]

Sentences(n, sizes) ==
    {[ends |-> Ends(s), sim |-> sim] : s \in [1 .. n -> sizes], sim \in [1 .. n - 1 -> 0 .. 2]}
Topics == UNION {Sentences(n, {1, 2, 5}) : n \in 1 .. 4} \cup Sentences(5, {1, 5})

\* Texts of whole words.
WordTexts == {Segment(gap, {}) : gap \in UNION {[1 .. n -> Separators] : n \in 3 .. 5}}
=============================================================================
