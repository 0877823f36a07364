-------------------------- MODULE FixedSizeChunker --------------------------
(***************************************************************************)
(* FixedSizeChunker.chunk on one segment (ingestion/chunkers/fixed.py):    *)
(* windows of ChunkSize tokens, each ChunkOverlap tokens into the one      *)
(* before.  A window whose text is blank is passed over: the tokenizer     *)
(* decodes unknown tokens, which stand for whole words, to nothing.        *)
(***************************************************************************)
EXTENDS Integers, Sequences, FiniteSets

CONSTANTS
    ChunkSize,    \* chunk_size
    ChunkOverlap, \* chunk_overlap
    MaxLength     \* bound: the longest segment

VARIABLES
    length,       \* len(token_ids)
    unknown,      \* the tokens that decode to nothing
    pieces,       \* the tokens that continue the word of the one before
    start,        \* the loop variable
    running,      \* the loop has neither ended nor been left
    chunks        \* the windows that became chunks, as ranges of tokens

vars == <<length, unknown, pieces, start, running, chunks>>

\* Before the first step of the loop.
Begin ==
    /\ start = 0
    /\ running = TRUE
    /\ chunks = <<>>

Init ==
    /\ length \in 0 .. MaxLength
    /\ unknown \in SUBSET (0 .. length - 1)
    /\ pieces \in SUBSET {t \in 1 .. length - 1 : t \notin unknown /\ t - 1 \notin unknown}
    /\ Begin

Step == ChunkSize - ChunkOverlap

\* token_ids[start : start + chunk_size]
Window ==
    [from |-> start,
     to   |-> IF start + ChunkSize <= length THEN start + ChunkSize - 1 ELSE length - 1]

Blank(w) == w.from .. w.to \subseteq unknown

\* token_count: make_chunk counts the text the window decodes to.  A piece of a
\* word it begins with carries its "##" marker, which counts as two tokens more.
TokenCount(w) ==
    Cardinality((w.from .. w.to) \ unknown) + (IF w.from \in pieces THEN 2 ELSE 0)

\* Mutant: the loop ends as soon as a window reaches the last but one token.
ReachesAlmost == start + ChunkSize >= length - 1
Reaches == start + ChunkSize >= length

\* The window has no text: `continue`, which also passes over the test for
\* the end.
Skip ==
    /\ running /\ start < length /\ Blank(Window)
    /\ start' = start + Step
    /\ UNCHANGED <<length, unknown, pieces, running, chunks>>

\* The window becomes a chunk; the one that reaches the end is the last.
Emit ==
    /\ running /\ start < length /\ ~Blank(Window)
    /\ chunks' = Append(chunks, Window)
    /\ IF Reaches
       THEN running' = FALSE /\ UNCHANGED start
       ELSE start' = start + Step /\ UNCHANGED running
    /\ UNCHANGED <<length, unknown, pieces>>

\* range() is exhausted.
End ==
    /\ running /\ start >= length
    /\ running' = FALSE
    /\ UNCHANGED <<length, unknown, pieces, start, chunks>>

Next == Skip \/ Emit \/ End

Spec == Init /\ [][Next]_vars

-----------------------------------------------------------------------------
(* Correctness.                                                            *)

TypeOK ==
    /\ length \in Nat
    /\ unknown \subseteq 0 .. length - 1
    /\ pieces \subseteq 1 .. length - 1
    /\ start \in Nat
    /\ running \in BOOLEAN
    /\ chunks \in Seq([from : 0 .. length - 1, to : 0 .. length - 1])

\* Every token that has a text is in a chunk, although blank windows are
\* passed over and the loop is left early; and no chunk is part of another: it
\* has text, ends later than the one before and repeats at most ChunkOverlap
\* tokens of it.  Its token_count exceeds the budget only if it begins inside a
\* word, and then by the marker at most.
WindowsCover ==
    /\ ~running =>
           \A t \in (0 .. length - 1) \ unknown :
               \E k \in 1 .. Len(chunks) : t \in chunks[k].from .. chunks[k].to
    /\ \A k \in 1 .. Len(chunks) :
           /\ ~Blank(chunks[k])
           /\ TokenCount(chunks[k]) <= ChunkSize + 2
           /\ TokenCount(chunks[k]) > ChunkSize => chunks[k].from \in pieces
           /\ k > 1 => /\ chunks[k].to > chunks[k - 1].to
                       /\ chunks[k - 1].to - chunks[k].from + 1 <= ChunkOverlap
=============================================================================
