------------------------------ MODULE Packing ------------------------------
(***************************************************************************)
(* RecursiveChunker._pack and _carry_overlap (ingestion/chunkers/          *)
(* recursive.py): text units are merged greedily into chunks of ChunkSize  *)
(* tokens, and a chunk starts with the last units of the one before, up to *)
(* ChunkOverlap tokens.                                                    *)
(*                                                                         *)
(* A chunk is a range of units.  Units are given by where they end, in     *)
(* tokens from the start of the segment, so that the size of a range is a  *)
(* difference (the tokens of joined units add up).                         *)
(***************************************************************************)
EXTENDS Integers, Sequences

CONSTANTS
    ChunkSize,    \* chunk_size
    ChunkOverlap, \* chunk_overlap
    Inputs        \* segments: records with the ends of their units

\* RecursiveChunker.__init__ raises unless chunk_overlap < chunk_size.
ASSUME SizesAssumption ==
    /\ ChunkSize \in Nat /\ ChunkOverlap \in Nat
    /\ ChunkOverlap < ChunkSize

EndOf(ends, i) == IF i = 0 THEN 0 ELSE ends[i]

\* What _recursive_split delivers: no unit is empty.
ASSUME InputsAssumption ==
    \A x \in Inputs :
        /\ x.ends \in Seq(Nat)
        /\ \A i \in 1 .. Len(x.ends) : EndOf(x.ends, i) > EndOf(x.ends, i - 1)

VARIABLES
    input,        \* the segment
    pc,           \* "pack", "carry" (inside _carry_overlap) or "done"
    unit,         \* the unit the loop is at
    first,        \* current holds units first .. unit - 1
    tokens,       \* current_tokens
    back,         \* _carry_overlap has taken over units back + 1 .. unit - 1
    carried,      \* ... and their tokens
    chunks        \* the chunks so far, as ranges of units

vars == <<input, pc, unit, first, tokens, back, carried, chunks>>

Count == Len(input.ends)
End(i) == EndOf(input.ends, i)
UnitTokens(i) == End(i) - End(i - 1)              \* tokenizer.count(unit)
RangeTokens(c) == End(c.last) - End(c.first - 1)  \* ... of units joined

\* Before the first step of the loop.
Begin ==
    /\ pc = "pack"
    /\ unit = 1
    /\ first = 1
    /\ tokens = 0
    /\ back = 0
    /\ carried = 0
    /\ chunks = <<>>

Init ==
    /\ input \in Inputs
    /\ Begin

\* Mutant: the unit at hand is not counted against the budget.
FullLate == first < unit /\ tokens > ChunkSize
\* current is not empty and the unit would take it over the budget.
Full == first < unit /\ tokens + UnitTokens(unit) > ChunkSize

Take ==
    /\ pc = "pack" /\ unit <= Count /\ ~Full
    /\ tokens' = tokens + UnitTokens(unit)
    /\ unit' = unit + 1
    /\ UNCHANGED <<input, pc, first, back, carried, chunks>>

\* Mutant: a chunk is closed although the unit still fits.
CloseEarly ==
    /\ pc = "pack" /\ unit <= Count /\ first < unit
    /\ chunks' = Append(chunks, [first |-> first, last |-> unit - 1])
    /\ pc' = "carry"
    /\ back' = unit - 1
    /\ carried' = 0
    /\ UNCHANGED <<input, unit, first, tokens>>
\* The chunk is closed, and _carry_overlap starts at its end.
Close ==
    /\ pc = "pack" /\ unit <= Count /\ Full
    /\ chunks' = Append(chunks, [first |-> first, last |-> unit - 1])
    /\ pc' = "carry"
    /\ back' = unit - 1
    /\ carried' = 0
    /\ UNCHANGED <<input, unit, first, tokens>>

\* Mutant: the unit at hand is not counted against the overlap budget.
CarriesAhead == back >= first /\ carried <= ChunkOverlap
\* Another unit of the closed chunk fits into the overlap.
Carries == back >= first /\ carried + UnitTokens(back) <= ChunkOverlap

Carry ==
    /\ pc = "carry" /\ Carries
    /\ carried' = carried + UnitTokens(back)
    /\ back' = back - 1
    /\ UNCHANGED <<input, pc, unit, first, tokens, chunks>>

\* Mutant: the unit that did not fit is dropped.
ReopenWithout ==
    /\ pc = "carry" /\ ~Carries
    /\ first' = IF back = unit - 1 THEN unit + 1 ELSE back + 1
    /\ tokens' = carried
    /\ unit' = unit + 1
    /\ pc' = "pack"
    /\ UNCHANGED <<input, back, carried, chunks>>
\* The next chunk starts with what was carried over and the unit itself.
Reopen ==
    /\ pc = "carry" /\ ~Carries
    /\ first' = back + 1
    /\ tokens' = carried + UnitTokens(unit)
    /\ unit' = unit + 1
    /\ pc' = "pack"
    /\ UNCHANGED <<input, back, carried, chunks>>

\* Mutant: a last chunk also when nothing is left.
FlushAlways ==
    /\ pc = "pack" /\ unit > Count
    /\ chunks' = Append(chunks, [first |-> first, last |-> unit - 1])
    /\ pc' = "done"
    /\ UNCHANGED <<input, unit, first, tokens, back, carried>>
\* The loop is over: what is left is the last chunk.
Flush ==
    /\ pc = "pack" /\ unit > Count
    /\ chunks' = IF first < unit
                 THEN Append(chunks, [first |-> first, last |-> unit - 1])
                 ELSE chunks
    /\ pc' = "done"
    /\ UNCHANGED <<input, unit, first, tokens, back, carried>>

Next == Take \/ Close \/ Carry \/ Reopen \/ Flush

Spec == Init /\ [][Next]_vars

-----------------------------------------------------------------------------
(* Correctness.                                                            *)

UnitRange == [first : Nat \ {0}, last : Nat \ {0}]

TypeOK ==
    /\ pc \in {"pack", "carry", "done"}
    /\ unit \in 1 .. Count + 1
    /\ first \in 1 .. unit
    /\ tokens \in Nat
    /\ back \in 0 .. Count
    /\ carried \in Nat
    /\ chunks \in Seq(UnitRange)

\* Where the last of the first k chunks ends.
EndsAt(k) == IF k = 0 THEN 0 ELSE chunks[k].last

\* A chunk is above its token budget only when a single unit was added to what
\* was carried over (RecursiveChunker._pack).
OverBudgetByOverlapOnly ==
    \A k \in 1 .. Len(chunks) :
        RangeTokens(chunks[k]) > ChunkSize => chunks[k].last = EndsAt(k - 1) + 1

\* Nothing of the segment is lost and each chunk adds something: the chunks
\* start at the first unit, leave no gap, end at the last unit, and each ends
\* later than the one before.
NothingSkipped ==
    /\ \A k \in 1 .. Len(chunks) :
        /\ k = 1 => chunks[k].first = 1
        /\ k > 1 => /\ chunks[k].first <= chunks[k - 1].last + 1
                    /\ chunks[k].last > chunks[k - 1].last
    /\ pc = "done" /\ Count > 0 =>
        chunks # <<>> /\ chunks[Len(chunks)].last = Count

\* Consecutive chunks share at most ChunkOverlap tokens, and all the units
\* that fit: one more of the earlier chunk would be too much (_carry_overlap).
OverlapMaximal ==
    \A k \in 2 .. Len(chunks) :
        LET prev == chunks[k - 1]
            next == chunks[k]
        IN  /\ End(prev.last) - End(next.first - 1) <= ChunkOverlap
            /\ next.first > prev.first =>
                  End(prev.last) - End(next.first - 2) > ChunkOverlap

\* Packing is greedy: a chunk ends only where the next unit does not fit.
Greedy ==
    \A k \in 1 .. Len(chunks) :
        chunks[k].last < Count =>
            RangeTokens(chunks[k]) + UnitTokens(chunks[k].last + 1) > ChunkSize

-----------------------------------------------------------------------------
\* recursive.py promises "chunks within the token budget", and the unit tests
\* assert it: no chunk is larger than ChunkSize.
WithinBudget ==
    \A k \in 1 .. Len(chunks) : RangeTokens(chunks[k]) <= ChunkSize
=============================================================================
