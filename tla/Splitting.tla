----------------------------- MODULE Splitting -----------------------------
(***************************************************************************)
(* RecursiveChunker._recursive_split and _hard_token_split                 *)
(* (ingestion/chunkers/recursive.py).  A text is given by what stands      *)
(* between its tokens: gap[k] is the separator after token k, as its place *)
(* in _DEFAULT_SEPARATORS (paragraph, line, sentence, word); Inside, when  *)
(* no separator is between tokens k and k + 1; or Piece, when token k + 1  *)
(* only continues the word of token k.  Before a sentence separator, ". ", *)
(* token k is its period.  A token may be unknown to the tokenizer: it     *)
(* stands for a whole word, or what punctuation leaves of one, and decodes *)
(* to nothing.  A part of the text is a range of its tokens.               *)
(***************************************************************************)
EXTENDS Integers, Sequences, SequencesExt, FiniteSetsExt

Sentence == 3
Word == 4
Separators == 1 .. 4
Inside == 5
Piece == 6
Gaps == Separators \cup {Inside, Piece}

Between(from, to) == [from |-> from, to |-> to]
Length(p) == p.to - p.from + 1

\* The tokens that may be unknown: neither a piece of a word nor a period.
Unknowable(gap) ==
    {k \in 1 .. Len(gap) + 1 : /\ k <= Len(gap) => gap[k] \notin {Sentence, Piece}
                               /\ k > 1 => gap[k - 1] # Piece}

\* The separator sep is found after token k: a sentence separator that was not
\* cut at is also a space.
At(gap, k, sep) == gap[k] = sep \/ (sep = Word /\ gap[k] = Sentence)

\* The parts of a text follow one another in it, so a set of them stands for
\* their list.
InOrder(parts) ==
    [i \in 1 .. Cardinality(parts) |->
        CHOOSE p \in parts : Cardinality({q \in parts : q.from <= p.from}) = i]

\* text.split(sep), without what has no text: the period goes with the
\* separator.  If only one part has text the separator is ignored.
Parts(gap, p, sep) ==
    LET cuts == {k \in p.from .. p.to - 1 : At(gap, k, sep)}
        End(from) == IF \A k \in cuts : k < from THEN p.to
                     ELSE Min({k \in cuts : k >= from}) - (IF sep = Sentence THEN 1 ELSE 0)
        parts == {Between(from, End(from)) : from \in {p.from} \cup {k + 1 : k \in cuts}}
        texts == {q \in parts : Length(q) > 0}
    IN  IF Cardinality(texts) = 1 THEN {p} ELSE texts

\* Mutant: the loop ends before the tokens that do not fill a piece.
HardSplitShort(p, size, unknown) ==
    LET starts == {k \in p.from .. p.to - size + 1 : (k - p.from) % size = 0}
    IN  {q \in {Between(from, from + size - 1) : from \in starts} :
            ~(q.from .. q.to \subseteq unknown)}
\* _hard_token_split: a piece that decodes to nothing is dropped.
HardSplit(p, size, unknown) ==
    LET starts == {k \in p.from .. p.to : (k - p.from) % size = 0}
        Cut(from) == Between(from, IF from + size > p.to THEN p.to ELSE from + size - 1)
    IN  {q \in {Cut(from) : from \in starts} : ~(q.from .. q.to \subseteq unknown)}

\* _recursive_split: a part above the budget is cut at the coarsest separator
\* it has, its parts at the next finer ones, and a word at every size tokens.
Split(gap, unknown, size) ==
    LET ends == 1 .. Len(gap) + 1
        split[sep \in 1 .. Inside] ==
            [p \in [from : ends, to : ends] |->
                IF Length(p) <= size THEN {p}
                ELSE IF sep = Inside THEN HardSplit(p, size, unknown)
                ELSE UNION {split[sep + 1][q] : q \in Parts(gap, p, sep)}]
    IN  InOrder(split[1][Between(1, Len(gap) + 1)])

\* What text.split(sep) leaves begins and ends with a word, whose period may be
\* cut off.
Begun(gap, p) == p.from = 1 \/ gap[p.from - 1] \in Separators
Ended(gap, p) ==
    \/ p.to = Len(gap) + 1
    \/ gap[p.to] \in Separators
    \/ p.to < Len(gap) /\ gap[p.to + 1] = Sentence

\* The tokens in the text of a unit: a part of a word has been decoded.
Text(gap, unknown, p) ==
    IF Begun(gap, p) /\ Ended(gap, p) THEN p.from .. p.to ELSE (p.from .. p.to) \ unknown

\* tokenizer.count of a unit: decoded by itself, a piece that continues a word
\* carries its "##" marker, which counts as two tokens more.
Tokens(gap, unknown, p) ==
    Cardinality(Text(gap, unknown, p))
        + (IF p.from > 1 /\ gap[p.from - 1] = Piece THEN 2 ELSE 0)

-----------------------------------------------------------------------------
\* A period that stands alone ends no sentence.
Alone(gap, k) == gap[k] = Sentence /\ (k = 1 \/ gap[k - 1] \in Separators)

\* What lies around token k between two of the cuts.
Around(gap, cuts, k) ==
    Between(1 + Max({0} \cup {j \in cuts : j < k}),
            Min({Len(gap) + 1} \cup {j \in cuts : j >= k}))

\* The part around token k bounded by separators coarser than the one after it.
Enclosing(gap, k) ==
    Around(gap, {j \in 1 .. Len(gap) : gap[j] < Min({gap[k], Inside}) /\ ~Alone(gap, j)}, k)

\* The word that token k is of.
WordAround(gap, k) == Around(gap, {j \in 1 .. Len(gap) : gap[j] \in Separators}, k)
=============================================================================
