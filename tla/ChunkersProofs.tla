--------------------------- MODULE ChunkersProofs ---------------------------
(***************************************************************************)
(* Theorems about the loops of the three chunkers, and about how the       *)
(* recursive one splits, for every budget, overlap, percentile and text.   *)
(***************************************************************************)
EXTENDS Chunkers, FoldProofs

-----------------------------------------------------------------------------
(* RecursiveChunker: packing.                                              *)

\* The segment's units have ends, each after the one before.
InputInv ==
    /\ input.ends \in Seq(Nat)
    /\ \A i \in 1 .. Len(input.ends) : EndOf(input.ends, i) > EndOf(input.ends, i - 1)

\* current_tokens is the size of the units in hand.
TokensInv == tokens = End(unit - 1) - End(first - 1)

\* Inside _carry_overlap: the chunk just closed ends before the unit at hand,
\* and what is carried over is its end.
CarryInv ==
    pc = "carry" =>
        /\ unit <= Count /\ first < unit
        /\ back < unit /\ first <= back + 1
        /\ carried = End(unit - 1) - End(back)
        /\ carried <= ChunkOverlap
        /\ chunks # <<>>
        /\ chunks[Len(chunks)] = [first |-> first, last |-> unit - 1]

\* Between chunks: where the next one will start, and that it is above the
\* budget only while it holds a single unit that is not in the one before.
PackInv ==
    pc = "pack" =>
        /\ tokens > ChunkSize => unit = EndsAt(Len(chunks)) + 2
        /\ chunks = <<>> => first = 1
        /\ unit > 1 => first < unit
        /\ unit = 1 => chunks = <<>>
        /\ chunks # <<>> => LET prev == chunks[Len(chunks)]
                            IN  /\ first <= prev.last + 1
                                /\ prev.last < unit - 1
                                /\ End(prev.last) - End(first - 1) <= ChunkOverlap
                                /\ first > prev.first =>
                                     End(prev.last) - End(first - 2) > ChunkOverlap

\* The chunks are ranges of units.
RangesInv ==
    \A k \in 1 .. Len(chunks) :
        1 <= chunks[k].first /\ chunks[k].first <= chunks[k].last
            /\ chunks[k].last <= Count

IInv ==
    /\ TypeOK
    /\ InputInv
    /\ TokensInv
    /\ CarryInv
    /\ PackInv
    /\ RangesInv
    /\ OverBudgetByOverlapOnly
    /\ NothingSkipped
    /\ OverlapMaximal
    /\ Greedy

\* The sizes of units, from where they end, are positive.
LEMMA UnitSizes ==
    ASSUME InputInv
    PROVE  /\ Count \in Nat
           /\ \A i \in 0 .. Count : End(i) \in Nat
           /\ \A i \in 1 .. Count : UnitTokens(i) \in Nat \ {0}
<1>1. input.ends \in Seq(Nat)
  BY DEF InputInv
<1>2. Count \in Nat
  BY <1>1 DEF Count
<1>3. \A i \in 0 .. Count : End(i) \in Nat
  BY <1>1 DEF Count, End, EndOf
<1>4. \A i \in 1 .. Count : End(i) > End(i - 1)
  BY DEF InputInv, Count, End
<1>5. \A i \in 1 .. Count : UnitTokens(i) \in Nat \ {0}
  <2>1. \A i \in 1 .. Count : i - 1 \in 0 .. Count /\ i \in 0 .. Count
    BY <1>2
  <2> QED
    BY <1>3, <1>4, <2>1 DEF UnitTokens
<1> QED
  BY <1>2, <1>3, <1>5

\* Adding a range to the chunks leaves the others where they are.
LEMMA Appended ==
    ASSUME TypeOK, NEW c \in UnitRange, chunks' = Append(chunks, c)
    PROVE  /\ Len(chunks') = Len(chunks) + 1
           /\ \A k \in 1 .. Len(chunks) : chunks'[k] = chunks[k]
           /\ chunks'[Len(chunks')] = c
           /\ chunks' # <<>>
           /\ chunks' \in Seq(UnitRange)
           /\ Len(chunks) \in Nat
BY DEF TypeOK

\* The invariant holds before the first unit.
LEMMA InitInv == Begin /\ InputInv => IInv
<1> SUFFICES ASSUME Begin, InputInv PROVE IInv
  OBVIOUS
<1>1. InputInv
  OBVIOUS
<1>2. Count \in Nat
  BY <1>1, UnitSizes
<1>3. TypeOK
  BY <1>2 DEF Begin, TypeOK
<1>4. TokensInv /\ CarryInv /\ PackInv
  BY SizesAssumption DEF Begin, TokensInv, CarryInv, PackInv, End, EndOf
<1>5. RangesInv /\ OverBudgetByOverlapOnly /\ NothingSkipped /\ OverlapMaximal /\ Greedy
  BY DEF Begin, RangesInv, OverBudgetByOverlapOnly, NothingSkipped,
         OverlapMaximal, Greedy
<1> QED
  BY <1>1, <1>3, <1>4, <1>5 DEF IInv

\* The steps that close no chunk leave what holds of the chunks alone.
LEMMA SameChunks ==
    ASSUME IInv, chunks' = chunks, input' = input, pc' # "done" \/ pc = "done"
    PROVE  /\ InputInv' /\ RangesInv' /\ OverBudgetByOverlapOnly'
           /\ NothingSkipped' /\ OverlapMaximal' /\ Greedy'
BY DEF IInv, InputInv, RangesInv, OverBudgetByOverlapOnly, NothingSkipped,
       OverlapMaximal, Greedy, Count, End, EndsAt, UnitTokens, RangeTokens

\* A unit that fits is added.
LEMMA TakeStep == IInv /\ Take => IInv'
<1> SUFFICES ASSUME IInv, Take PROVE IInv'
  OBVIOUS
<1>1. /\ InputInv' /\ RangesInv' /\ OverBudgetByOverlapOnly'
      /\ NothingSkipped' /\ OverlapMaximal' /\ Greedy'
  BY SameChunks DEF Take
<1>2. Count' = Count /\ \A i : End(i)' = End(i)
  BY DEF Take, Count, End
<1>3. /\ UnitTokens(unit) \in Nat \ {0} /\ Count \in Nat
      /\ unit \in 1 .. Count /\ End(unit) \in Nat /\ End(unit - 1) \in Nat
      /\ End(first - 1) \in Nat
  BY UnitSizes DEF Take, IInv, TypeOK
<1>4. TypeOK'
  BY <1>2, <1>3, SizesAssumption DEF Take, IInv, TypeOK
<1>5. TokensInv'
  <2>1. tokens' = End(unit) - End(first - 1)
    BY <1>3 DEF Take, IInv, TokensInv, UnitTokens
  <2> QED
    BY <1>2, <1>3, <2>1 DEF Take, TokensInv
<1>6. CarryInv'
  BY DEF Take, CarryInv
<1>7. PackInv'
  <2>1. chunks # <<>> => chunks[Len(chunks)] \in UnitRange
    BY DEF IInv, TypeOK
  <2>2. /\ first \in Nat /\ unit \in Nat /\ 1 <= first /\ first <= unit
        /\ unit' = unit + 1 /\ first' = first /\ chunks' = chunks /\ pc = "pack"
    BY <1>3 DEF Take, IInv, TypeOK
  <2>3. tokens' > ChunkSize => unit' = EndsAt(Len(chunks))' + 2
    <3>1. CASE first < unit
      BY <1>3, <3>1, SizesAssumption DEF Take, Full, IInv, TypeOK
    <3>2. CASE first = unit
      BY <2>2, <3>2 DEF IInv, PackInv, EndsAt
    <3> QED
      BY <2>2, <3>1, <3>2
  <2> QED
    BY <1>2, <2>1, <2>2, <2>3 DEF IInv, PackInv, UnitRange
<1> QED
  BY <1>1, <1>4, <1>5, <1>6, <1>7 DEF IInv

\* The last chunk, closed or flushed, extends the chain.
LEMMA OneMoreChunk ==
    ASSUME IInv, pc = "pack", first < unit, input' = input,
           chunks' = Append(chunks, [first |-> first, last |-> unit - 1]),
           unit <= Count => tokens + UnitTokens(unit) > ChunkSize,
           pc' = "done" => unit > Count
    PROVE  /\ chunks' \in Seq(UnitRange)
           /\ InputInv' /\ RangesInv' /\ OverBudgetByOverlapOnly'
           /\ NothingSkipped' /\ OverlapMaximal' /\ Greedy'
<1> DEFINE c == [first |-> first, last |-> unit - 1]
<1>1. c \in UnitRange
  BY DEF IInv, TypeOK, UnitRange
<1>2. /\ Len(chunks') = Len(chunks) + 1
      /\ \A k \in 1 .. Len(chunks) : chunks'[k] = chunks[k]
      /\ chunks'[Len(chunks')] = c
      /\ chunks' # <<>>
      /\ chunks' \in Seq(UnitRange)
      /\ Len(chunks) \in Nat
  BY <1>1, Appended DEF IInv
<1>3. /\ Count' = Count /\ \A i : End(i)' = End(i)
      /\ \A i : UnitTokens(i)' = UnitTokens(i)
      /\ \A r : RangeTokens(r)' = RangeTokens(r)
  BY DEF Count, End, UnitTokens, RangeTokens
<1>4. c.first = first /\ c.last = unit - 1
  OBVIOUS
<1>5. /\ first \in Nat /\ unit \in Nat /\ Count \in Nat
      /\ 1 <= first /\ unit <= Count + 1
  BY UnitSizes DEF IInv, TypeOK
<1>6. RangeTokens(c) = tokens
  BY DEF IInv, TokensInv, RangeTokens
<1> HIDE DEF c
<1>7. InputInv'
  BY DEF IInv, InputInv
<1>8. RangesInv'
  BY <1>2, <1>3, <1>4, <1>5 DEF IInv, RangesInv
<1>9. OverBudgetByOverlapOnly'
  <2>1. ASSUME NEW k \in 1 .. Len(chunks'), RangeTokens(chunks'[k]) > ChunkSize
        PROVE  chunks'[k].last = EndsAt(k - 1)' + 1
    <3>1. CASE k \in 1 .. Len(chunks)
      BY <1>2, <2>1, <3>1 DEF IInv, OverBudgetByOverlapOnly, EndsAt
    <3>2. CASE k = Len(chunks')
      <4>1. k - 1 = Len(chunks) /\ EndsAt(k - 1)' = EndsAt(Len(chunks))
        BY <1>2, <3>2 DEF EndsAt
      <4>2. unit = EndsAt(Len(chunks)) + 2
        BY <1>2, <1>6, <2>1, <3>2 DEF IInv, PackInv
      <4>3. EndsAt(Len(chunks)) \in Int
        <5>1. Len(chunks) # 0 => chunks[Len(chunks)] \in UnitRange
          BY <1>2 DEF IInv, TypeOK
        <5> QED
          BY <5>1 DEF EndsAt, UnitRange
      <4> QED
        BY <1>2, <1>4, <1>5, <3>2, <4>1, <4>2, <4>3
    <3> QED
      BY <1>2, <3>1, <3>2
  <2> QED
    BY <1>3, <2>1 DEF OverBudgetByOverlapOnly
<1>10. Greedy'
  <2>1. ASSUME NEW k \in 1 .. Len(chunks'), chunks'[k].last < Count
        PROVE  RangeTokens(chunks'[k]) + UnitTokens(chunks'[k].last + 1) > ChunkSize
    <3>1. CASE k \in 1 .. Len(chunks)
      BY <1>2, <2>1, <3>1 DEF IInv, Greedy
    <3>2. CASE k = Len(chunks')
      BY <1>2, <1>4, <1>5, <1>6, <2>1, <3>2
    <3> QED
      BY <1>2, <3>1, <3>2
  <2> QED
    BY <1>3, <2>1 DEF Greedy
<1>11. NothingSkipped'
  <2>1. ASSUME NEW k \in 1 .. Len(chunks')
        PROVE  /\ k = 1 => chunks'[k].first = 1
               /\ k > 1 => /\ chunks'[k].first <= chunks'[k - 1].last + 1
                           /\ chunks'[k].last > chunks'[k - 1].last
    <3>1. CASE k \in 1 .. Len(chunks)
      BY <1>2, <3>1 DEF IInv, NothingSkipped
    <3>2. CASE k = Len(chunks') /\ chunks = <<>>
      BY <1>2, <1>4, <3>2 DEF IInv, PackInv
    <3>3. CASE k = Len(chunks') /\ chunks # <<>>
      <4>1. Len(chunks) \in 1 .. Len(chunks) /\ k - 1 = Len(chunks)
        BY <1>2, <3>3 DEF IInv, TypeOK
      <4>2. /\ first <= chunks[Len(chunks)].last + 1
            /\ chunks[Len(chunks)].last < unit - 1
        BY <3>3 DEF IInv, PackInv
      <4> QED
        BY <1>2, <1>4, <3>3, <4>1, <4>2
    <3> QED
      BY <1>2, <3>1, <3>2, <3>3
  <2>2. pc' = "done" => chunks' # <<>> /\ chunks'[Len(chunks')].last = Count
    BY <1>2, <1>4, <1>5
  <2> QED
    BY <1>3, <2>1, <2>2 DEF NothingSkipped
<1>12. OverlapMaximal'
  <2>1. ASSUME NEW k \in 2 .. Len(chunks')
        PROVE  /\ End(chunks'[k - 1].last) - End(chunks'[k].first - 1) <= ChunkOverlap
               /\ chunks'[k].first > chunks'[k - 1].first =>
                    End(chunks'[k - 1].last) - End(chunks'[k].first - 2) > ChunkOverlap
    <3>1. CASE k \in 2 .. Len(chunks)
      BY <1>2, <3>1 DEF IInv, OverlapMaximal
    <3>2. CASE k = Len(chunks')
      <4>1. k - 1 = Len(chunks) /\ k - 1 \in 1 .. Len(chunks)
        BY <1>2, <3>2
      <4>2. chunks # <<>>
        BY <4>1
      <4> QED
        BY <1>2, <1>4, <3>2, <4>1, <4>2 DEF IInv, PackInv
    <3> QED
      BY <1>2, <3>1, <3>2
  <2> QED
    BY <1>3, <2>1 DEF OverlapMaximal
<1> QED
  BY <1>2, <1>7, <1>8, <1>9, <1>10, <1>11, <1>12

\* A chunk is closed before the unit that does not fit.
LEMMA CloseStep == IInv /\ Close => IInv'
<1> SUFFICES ASSUME IInv, Close PROVE IInv'
  OBVIOUS
<1> DEFINE c == [first |-> first, last |-> unit - 1]
<1>1. /\ chunks' \in Seq(UnitRange)
      /\ InputInv' /\ RangesInv' /\ OverBudgetByOverlapOnly'
      /\ NothingSkipped' /\ OverlapMaximal' /\ Greedy'
  BY OneMoreChunk DEF Close, Full
<1>2. Count' = Count /\ \A i : End(i)' = End(i)
  BY DEF Close, Count, End
<1>3. /\ Count \in Nat /\ unit \in 1 .. Count /\ first \in 1 .. unit
      /\ first < unit /\ End(unit - 1) \in Nat
  BY UnitSizes DEF Close, Full, IInv, TypeOK
<1>4. TypeOK'
  BY <1>1, <1>2, <1>3 DEF Close, IInv, TypeOK
<1>5. TokensInv' /\ PackInv'
  BY <1>2 DEF Close, IInv, TokensInv, PackInv
<1>6. c \in UnitRange
  BY <1>3 DEF UnitRange
<1>7. chunks' # <<>> /\ chunks'[Len(chunks')] = c
  BY <1>6, Appended DEF Close, IInv
<1>8. CarryInv'
  BY <1>2, <1>3, <1>7, SizesAssumption DEF Close, CarryInv
<1> QED
  BY <1>1, <1>4, <1>5, <1>8 DEF IInv

\* The overlap grows backwards while it stays in its limit.
LEMMA CarryStep == IInv /\ Carry => IInv'
<1> SUFFICES ASSUME IInv, Carry PROVE IInv'
  OBVIOUS
<1>1. /\ InputInv' /\ RangesInv' /\ OverBudgetByOverlapOnly'
      /\ NothingSkipped' /\ OverlapMaximal' /\ Greedy'
  BY SameChunks DEF Carry
<1>2. Count' = Count /\ \A i : End(i)' = End(i)
  BY DEF Carry, Count, End
<1>3. /\ Count \in Nat /\ unit \in 1 .. Count /\ first \in 1 .. unit
      /\ back \in first .. unit - 1 /\ back \in 1 .. Count
      /\ carried = End(unit - 1) - End(back)
  BY UnitSizes DEF Carry, Carries, IInv, TypeOK, CarryInv
<1>4. /\ UnitTokens(back) \in Nat \ {0}
      /\ End(back) \in Nat /\ End(back - 1) \in Nat /\ End(unit - 1) \in Nat
  BY <1>3, UnitSizes DEF IInv
<1>5. TypeOK'
  BY <1>2, <1>3, <1>4, SizesAssumption DEF Carry, IInv, TypeOK
<1>6. TokensInv' /\ PackInv'
  BY <1>2 DEF Carry, IInv, TokensInv, PackInv
<1>7. CarryInv'
  BY <1>2, <1>3, <1>4 DEF Carry, Carries, IInv, CarryInv, UnitTokens
<1> QED
  BY <1>1, <1>5, <1>6, <1>7 DEF IInv

\* The next chunk starts with the overlap and the unit that did not fit.
LEMMA ReopenStep == IInv /\ Reopen => IInv'
<1> SUFFICES ASSUME IInv, Reopen PROVE IInv'
  OBVIOUS
<1>1. /\ InputInv' /\ RangesInv' /\ OverBudgetByOverlapOnly'
      /\ NothingSkipped' /\ OverlapMaximal' /\ Greedy'
  BY SameChunks DEF Reopen
<1>2. Count' = Count /\ \A i : End(i)' = End(i)
  BY DEF Reopen, Count, End
<1>3. /\ Count \in Nat /\ unit \in 1 .. Count /\ first \in 1 .. unit
      /\ back \in 0 .. Count /\ back < unit /\ first <= back + 1
      /\ carried = End(unit - 1) - End(back) /\ carried <= ChunkOverlap
      /\ chunks # <<>>
      /\ chunks[Len(chunks)] = [first |-> first, last |-> unit - 1]
      /\ carried \in Nat
  BY UnitSizes DEF Reopen, IInv, TypeOK, CarryInv
<1>4. /\ UnitTokens(unit) \in Nat \ {0}
      /\ End(unit) \in Nat /\ End(unit - 1) \in Nat /\ End(back) \in Nat
  BY <1>3, UnitSizes DEF IInv
<1>5. TypeOK'
  <2>1. unit' \in 1 .. Count + 1 /\ first' \in 1 .. unit' /\ tokens' \in Nat
    <3>1. unit' = unit + 1 /\ first' = back + 1 /\ tokens' = carried + UnitTokens(unit)
      BY DEF Reopen
    <3>2. unit + 1 \in 1 .. Count + 1 /\ back + 1 \in 1 .. unit + 1
      BY <1>3
    <3>3. carried + UnitTokens(unit) \in Nat
      BY <1>3, <1>4
    <3> QED
      BY <3>1, <3>2, <3>3
  <2>2. /\ pc' = "pack" /\ back' = back /\ carried' = carried /\ chunks' = chunks
    BY DEF Reopen
  <2> QED
    BY <1>2, <1>3, <2>1, <2>2 DEF IInv, TypeOK
<1>6. TokensInv'
  <2>1. tokens' = End(unit) - End(back)
    BY <1>3, <1>4 DEF Reopen, UnitTokens
  <2>2. unit' - 1 = unit /\ first' - 1 = back
    BY <1>3 DEF Reopen
  <2> QED
    BY <1>2, <2>1, <2>2 DEF TokensInv
<1>7. CarryInv'
  BY DEF Reopen, CarryInv
<1>8. PackInv'
  <2>1. first' = back + 1 /\ unit' = unit + 1 /\ chunks' = chunks
    BY DEF Reopen
  <2>2. ASSUME back + 1 > first
        PROVE  End(unit - 1) - End(back - 1) > ChunkOverlap
    <3>1. back \in 1 .. Count /\ back >= first
      BY <1>3, <2>2
    <3>2. UnitTokens(back) \in Nat /\ End(back - 1) \in Nat
      BY <3>1, UnitSizes, SizesAssumption DEF IInv
    <3>3. carried + UnitTokens(back) > ChunkOverlap
      BY <1>3, <3>1, <3>2, SizesAssumption DEF Reopen, Carries
    <3> QED
      BY <1>3, <1>4, <3>2, <3>3 DEF UnitTokens
  <2>3. first' - 1 = back /\ first' - 2 = back - 1
    BY <1>3, <2>1
  <2>4. unit' = EndsAt(Len(chunks))' + 2
    BY <1>3, <2>1 DEF EndsAt, IInv, TypeOK
  <2> QED
    BY <1>2, <1>3, <2>1, <2>2, <2>3, <2>4 DEF PackInv
<1> QED
  BY <1>1, <1>5, <1>6, <1>7, <1>8 DEF IInv

\* The last chunk is closed at the end.
LEMMA FlushStep == IInv /\ Flush => IInv'
<1> SUFFICES ASSUME IInv, Flush PROVE IInv'
  OBVIOUS
<1>1. Count' = Count /\ \A i : End(i)' = End(i)
  BY DEF Flush, Count, End
<1>2. Count \in Nat
  BY UnitSizes DEF IInv
<1>3. TokensInv' /\ CarryInv' /\ PackInv'
  BY <1>1 DEF Flush, IInv, TokensInv, CarryInv, PackInv
<1>4. CASE first < unit
  <2>1. /\ chunks' \in Seq(UnitRange)
        /\ InputInv' /\ RangesInv' /\ OverBudgetByOverlapOnly'
        /\ NothingSkipped' /\ OverlapMaximal' /\ Greedy'
    <3>1. ~ (unit <= Count)
      BY <1>2 DEF Flush, IInv, TypeOK
    <3> QED
      BY <1>4, <3>1, OneMoreChunk DEF Flush
  <2>2. TypeOK'
    BY <1>1, <2>1 DEF Flush, IInv, TypeOK
  <2> QED
    BY <1>3, <2>1, <2>2 DEF IInv
<1>5. CASE ~ (first < unit)
  <2>1. unit = 1 /\ chunks = <<>> /\ Count = 0
    BY <1>2, <1>5 DEF Flush, IInv, PackInv, TypeOK
  <2>2. chunks' = chunks /\ input' = input
    BY <1>5 DEF Flush
  <2>3. TypeOK'
    BY <1>1, <2>2 DEF Flush, IInv, TypeOK
  <2>4. /\ InputInv' /\ RangesInv' /\ OverBudgetByOverlapOnly'
        /\ NothingSkipped' /\ OverlapMaximal' /\ Greedy'
    BY <1>1, <2>1, <2>2 DEF IInv, InputInv, RangesInv, OverBudgetByOverlapOnly,
                            NothingSkipped, OverlapMaximal, Greedy
  <2> QED
    BY <1>3, <2>3, <2>4 DEF IInv
<1> QED
  BY <1>4, <1>5

\* Every step keeps the invariant.
LEMMA PackingStep == IInv /\ [Next]_vars => IInv'
<1>1. IInv /\ UNCHANGED vars => IInv'
  BY DEF vars, IInv, TypeOK, InputInv, TokensInv, CarryInv, PackInv, RangesInv,
         OverBudgetByOverlapOnly, NothingSkipped, OverlapMaximal, Greedy,
         Count, End, EndsAt, UnitTokens, RangeTokens
<1> QED
  BY <1>1, TakeStep, CloseStep, CarryStep, ReopenStep, FlushStep DEF Next

\* Whatever the strategy, packing starts at the first unit of some segment.
LEMMA PackingStarts == ChunkersInit => Begin /\ InputInv
<1> SUFFICES ASSUME ChunkersInit PROVE InputInv
  BY DEF ChunkersInit
<1>1. CASE input \in Inputs
  BY <1>1, InputsAssumption DEF InputInv
<1>2. CASE input = BlankSegment
  <2>1. input.ends = <<>>
    BY <1>2 DEF BlankSegment
  <2> QED
    BY <2>1 DEF InputInv
<1> QED
  BY <1>1, <1>2 DEF ChunkersInit

\* The invariant, in every behaviour: the chunkers pack or leave packing alone.
LEMMA InvariantHolds == ChunkersSpec => []IInv
<1>1. ChunkersInit => IInv
  BY PackingStarts, InitInv
<1>2. [ChunkersNext]_chunkersVars => [Next]_vars
  BY DEF ChunkersNext, chunkersVars, recursiveVars
<1>3. IInv /\ [ChunkersNext]_chunkersVars => IInv'
  BY <1>2, PackingStep
<1> QED
  BY <1>1, <1>3, PTL DEF ChunkersSpec

\* The packing loop never leaves the types of its variables.
THEOREM TypeCorrect == ChunkersSpec => []TypeOK
BY InvariantHolds, PTL DEF IInv

\* Whatever the segment, a chunk above the budget adds one unit to its overlap.
THEOREM BudgetBound == ChunkersSpec => []OverBudgetByOverlapOnly
BY InvariantHolds, PTL DEF IInv

\* Whatever the segment, its chunks cover it in order and each adds a unit.
THEOREM NothingLost == ChunkersSpec => []NothingSkipped
BY InvariantHolds, PTL DEF IInv

\* Consecutive chunks share as much as the overlap budget allows.
THEOREM OverlapBounded == ChunkersSpec => []OverlapMaximal
BY InvariantHolds, PTL DEF IInv

\* A chunk ends only where the next unit does not fit.
THEOREM PackingGreedy == ChunkersSpec => []Greedy
BY InvariantHolds, PTL DEF IInv

-----------------------------------------------------------------------------
(* FixedSizeChunker: windows.                                              *)

\* A window that became a chunk spans at most chunk_size tokens and has text.
WindowsSound ==
    \A k \in 1 .. Len(windows) :
        /\ windows[k].from \in 0 .. length - 1 /\ windows[k].to \in 0 .. length - 1
        /\ windows[k].to - windows[k].from < ChunkSize
        /\ ~ (windows[k].from .. windows[k].to \subseteq unknown)

\* A window adds something to the one before and repeats little of it.
WindowsAdvance ==
    \A k \in 1 .. Len(windows) : k > 1 =>
        /\ windows[k].to > windows[k - 1].to
        /\ windows[k - 1].to - windows[k].from + 1 <= ChunkOverlap

\* While the loop runs, the next window starts within the overlap of the last
\* chunk, whose end is not the segment's.
NextWindow ==
    running /\ windows # <<>> =>
        /\ windows[Len(windows)].to < start + ChunkOverlap
        /\ windows[Len(windows)].to < length - 1

\* Every token with text that the loop has passed is in a window.
Passed ==
    \A t \in (0 .. length - 1) \ unknown : (running => t < start) =>
        \E k \in 1 .. Len(windows) : t \in windows[k].from .. windows[k].to

FixedInv ==
    /\ Fixed!TypeOK
    /\ WindowsSound
    /\ WindowsAdvance
    /\ NextWindow
    /\ Passed

\* The invariant holds before the first window.
LEMMA FixedInit == ChunkersInit => FixedInv
<1> SUFFICES ASSUME ChunkersInit PROVE FixedInv
  OBVIOUS
<1>1. start = 0 /\ running = TRUE /\ windows = <<>>
  BY DEF ChunkersInit, Fixed!Begin
<1>2. /\ length \in Nat /\ unknown \subseteq 0 .. length - 1
      /\ pieces \subseteq 1 .. length - 1
  BY BoundAssumption DEF ChunkersInit, Nothing, Fixed!Init
<1>3. Fixed!TypeOK
  BY <1>1, <1>2 DEF Fixed!TypeOK
<1>4. Len(windows) = 0
  BY <1>1
<1>5. Passed
  BY <1>1, <1>2 DEF Passed
<1> QED
  BY <1>1, <1>3, <1>4, <1>5 DEF FixedInv, WindowsSound, WindowsAdvance, NextWindow

\* A blank window is passed over: what it spans has no text.
LEMMA SkipKeeps == FixedInv /\ Fixed!Skip => FixedInv'
<1> SUFFICES ASSUME FixedInv, Fixed!Skip PROVE FixedInv'
  OBVIOUS
<1>1. /\ running /\ start < length /\ Fixed!Blank(Fixed!Window)
      /\ start' = start + (ChunkSize - ChunkOverlap)
      /\ length' = length /\ unknown' = unknown /\ pieces' = pieces
      /\ running' = running /\ windows' = windows
  BY DEF Fixed!Skip, Fixed!Step
<1>2. /\ length \in Nat /\ start \in Nat /\ unknown \subseteq 0 .. length - 1
      /\ pieces \subseteq 1 .. length - 1
      /\ windows \in Seq([from : 0 .. length - 1, to : 0 .. length - 1])
      /\ running \in BOOLEAN
  BY DEF FixedInv, Fixed!TypeOK
<1>3. /\ ChunkSize \in Nat /\ ChunkOverlap \in Nat /\ ChunkOverlap < ChunkSize
  BY SizesAssumption
<1>4. start' \in Nat /\ start < start' /\ start' <= start + ChunkSize
  BY <1>1, <1>2, <1>3
<1>5. Fixed!TypeOK'
  BY <1>1, <1>2, <1>4 DEF Fixed!TypeOK
<1>6. WindowsSound'
  BY <1>1 DEF FixedInv, WindowsSound
<1>7. WindowsAdvance'
  BY <1>1 DEF FixedInv, WindowsAdvance
<1>8. NextWindow'
  <2> SUFFICES ASSUME windows # <<>>
               PROVE  /\ windows[Len(windows)].to < start' + ChunkOverlap
                      /\ windows[Len(windows)].to < length - 1
    BY <1>1 DEF NextWindow
  <2>1. Len(windows) \in 1 .. Len(windows)
    BY <1>2
  <2>2. windows[Len(windows)].to \in 0 .. length - 1
    BY <2>1 DEF FixedInv, WindowsSound
  <2>3. /\ windows[Len(windows)].to < start + ChunkOverlap
        /\ windows[Len(windows)].to < length - 1
    BY <1>1 DEF FixedInv, NextWindow
  <2> QED
    BY <1>2, <1>3, <1>4, <2>2, <2>3
<1>9. Passed'
  <2> SUFFICES ASSUME NEW t \in (0 .. length - 1) \ unknown, t < start'
               PROVE  \E k \in 1 .. Len(windows) : t \in windows[k].from .. windows[k].to
    BY <1>1 DEF Passed
  <2>1. t < start
    <3>1. ~ (t \in Fixed!Window.from .. Fixed!Window.to)
      BY <1>1 DEF Fixed!Blank
    <3>2. Fixed!Window.from = start
      BY DEF Fixed!Window
    <3>3. Fixed!Window.to = IF start + ChunkSize <= length THEN start + ChunkSize - 1 ELSE length - 1
      BY DEF Fixed!Window
    <3>4. t \in Nat /\ t <= length - 1
      BY <1>2
    <3> QED
      BY <1>2, <1>3, <1>4, <3>1, <3>2, <3>3, <3>4
  <2> QED
    BY <1>1, <2>1 DEF FixedInv, Passed
<1> QED
  BY <1>5, <1>6, <1>7, <1>8, <1>9 DEF FixedInv

\* A window with text becomes a chunk; the last one reaches the end.
LEMMA EmitKeeps == FixedInv /\ Fixed!Emit => FixedInv'
<1> SUFFICES ASSUME FixedInv, Fixed!Emit PROVE FixedInv'
  OBVIOUS
<1> DEFINE w == Fixed!Window
           n == Len(windows)
<1>1. /\ running /\ start < length /\ ~Fixed!Blank(w)
      /\ windows' = Append(windows, w)
      /\ length' = length /\ unknown' = unknown /\ pieces' = pieces
      /\ IF start + ChunkSize >= length
         THEN running' = FALSE /\ start' = start
         ELSE start' = start + (ChunkSize - ChunkOverlap) /\ running' = running
  BY DEF Fixed!Emit, Fixed!Step, Fixed!Reaches
<1>2. /\ length \in Nat /\ start \in Nat /\ unknown \subseteq 0 .. length - 1
      /\ pieces \subseteq 1 .. length - 1
      /\ windows \in Seq([from : 0 .. length - 1, to : 0 .. length - 1])
      /\ running \in BOOLEAN
  BY DEF FixedInv, Fixed!TypeOK
<1>3. /\ ChunkSize \in Nat /\ ChunkOverlap \in Nat /\ ChunkOverlap < ChunkSize
  BY SizesAssumption
<1>4. /\ w.from = start
      /\ w.to = IF start + ChunkSize <= length THEN start + ChunkSize - 1 ELSE length - 1
      /\ w = [from |-> w.from, to |-> w.to]
  BY DEF Fixed!Window
<1> HIDE DEF w
<1>5. /\ w.from \in 0 .. length - 1 /\ w.to \in 0 .. length - 1
      /\ w.to - w.from < ChunkSize
      /\ w \in [from : 0 .. length - 1, to : 0 .. length - 1]
  <2>1. w.from \in 0 .. length - 1 /\ w.to \in 0 .. length - 1 /\ w.to - w.from < ChunkSize
    BY <1>1, <1>2, <1>3, <1>4
  <2> QED
    BY <1>4, <2>1
<1>6. /\ n \in Nat /\ Len(windows') = n + 1 /\ windows'[n + 1] = w
      /\ \A k \in 1 .. n : windows'[k] = windows[k]
      /\ windows' \in Seq([from : 0 .. length - 1, to : 0 .. length - 1])
  BY <1>1, <1>2, <1>5
<1> HIDE DEF n
<1>7. \A k \in 1 .. n + 1 : k \in 1 .. n \/ k = n + 1
  BY <1>6
<1>8. \A k \in 1 .. n : windows[k].to \in 0 .. length - 1
  BY DEF FixedInv, WindowsSound, n
<1>9. Fixed!TypeOK'
  <2>1. start' \in Nat
    <3>1. start' = start \/ start' = start + (ChunkSize - ChunkOverlap)
      BY <1>1
    <3> QED
      BY <1>2, <1>3, <3>1
  <2>2. running' \in BOOLEAN
    BY <1>1, <1>2
  <2> QED
    BY <1>1, <1>2, <1>6, <2>1, <2>2 DEF Fixed!TypeOK
<1>10. WindowsSound'
  <2> SUFFICES ASSUME NEW k \in 1 .. n + 1
               PROVE  /\ windows'[k].from \in 0 .. length - 1 /\ windows'[k].to \in 0 .. length - 1
                      /\ windows'[k].to - windows'[k].from < ChunkSize
                      /\ ~ (windows'[k].from .. windows'[k].to \subseteq unknown)
    BY <1>1, <1>6 DEF WindowsSound
  <2>1. CASE k \in 1 .. n
    BY <1>6, <2>1 DEF FixedInv, WindowsSound, n
  <2>2. CASE k = n + 1
    BY <1>1, <1>5, <1>6, <2>2 DEF Fixed!Blank
  <2> QED
    BY <1>7, <2>1, <2>2
<1>11. WindowsAdvance'
  <2> SUFFICES ASSUME NEW k \in 1 .. n + 1, k > 1
               PROVE  /\ windows'[k].to > windows'[k - 1].to
                      /\ windows'[k - 1].to - windows'[k].from + 1 <= ChunkOverlap
    BY <1>6 DEF WindowsAdvance
  <2>1. CASE k \in 1 .. n
    <3>1. k - 1 \in 1 .. n
      BY <1>6, <2>1
    <3> QED
      BY <1>6, <2>1, <3>1 DEF FixedInv, WindowsAdvance, n
  <2>2. CASE k = n + 1
    <3>1. k - 1 = n /\ n \in 1 .. n /\ windows # <<>>
      <4>1. k - 1 = n /\ n \in 1 .. n
        BY <1>6, <2>2
      <4>2. n # 0
        BY <4>1, <1>6
      <4> QED
        BY <4>1, <4>2 DEF n
    <3>2. windows[n].to < start + ChunkOverlap /\ windows[n].to < length - 1
      BY <1>1, <3>1 DEF FixedInv, NextWindow, n
    <3>3. windows'[k] = w /\ windows'[k - 1] = windows[n] /\ windows[n].to \in 0 .. length - 1
      BY <1>6, <1>8, <2>2, <3>1
    <3> DEFINE e == windows[n].to
    <3>4. w.to > e /\ e - w.from + 1 <= ChunkOverlap
      <4>1. e < start + ChunkOverlap /\ e < length - 1 /\ e \in 0 .. length - 1
        BY <3>2, <3>3
      <4> HIDE DEF e
      <4>2. w.to > e
        BY <1>2, <1>3, <1>4, <4>1
      <4>3. e - start + 1 <= ChunkOverlap
        BY <1>2, <1>3, <4>1
      <4> QED
        BY <1>4, <4>2, <4>3
    <3> QED
      BY <3>3, <3>4
  <2> QED
    BY <1>7, <2>1, <2>2
<1>12. NextWindow'
  <2> SUFFICES ASSUME running' PROVE w.to < start' + ChunkOverlap /\ w.to < length - 1
    BY <1>1, <1>6 DEF NextWindow
  <2>1. ~ (start + ChunkSize >= length) /\ start' = start + (ChunkSize - ChunkOverlap)
    BY <1>1
  <2> QED
    BY <1>2, <1>3, <1>4, <2>1
<1>13. Passed'
  <2> SUFFICES ASSUME NEW t \in (0 .. length - 1) \ unknown, running' => t < start'
               PROVE  \E k \in 1 .. n + 1 : t \in windows'[k].from .. windows'[k].to
    BY <1>1, <1>6 DEF Passed
  <2>1. CASE t < start
    <3>1. PICK k \in 1 .. n : t \in windows[k].from .. windows[k].to
      BY <1>1, <2>1 DEF FixedInv, Passed, n
    <3>2. k \in 1 .. n + 1
      BY <1>6
    <3> QED
      BY <1>6, <3>1, <3>2
  <2>2. CASE ~ (t < start)
    <3>1. t \in w.from .. w.to
      <4>1. t \in Nat /\ start <= t /\ t <= length - 1
        BY <1>2, <2>2
      <4>2. CASE start + ChunkSize <= length /\ start + ChunkSize >= length
        BY <1>2, <1>3, <1>4, <4>1, <4>2
      <4>3. CASE ~ (start + ChunkSize <= length)
        BY <1>2, <1>3, <1>4, <4>1, <4>3
      <4>4. CASE start + ChunkSize < length
        <5>0. ~ (start + ChunkSize >= length)
          BY <1>2, <1>3, <4>4
        <5>1. t < start + (ChunkSize - ChunkOverlap)
          BY <1>1, <5>0
        <5> QED
          BY <1>2, <1>3, <1>4, <4>1, <4>4, <5>1
      <4> QED
        BY <1>2, <1>3, <4>2, <4>3, <4>4
    <3>2. n + 1 \in 1 .. n + 1
      BY <1>6
    <3> QED
      BY <1>6, <3>1, <3>2
  <2> QED
    BY <2>1, <2>2
<1> QED
  BY <1>9, <1>10, <1>11, <1>12, <1>13 DEF FixedInv

\* The invariant, in every behaviour: when the range is exhausted all is passed.
LEMMA FixedHolds == ChunkersSpec => []FixedInv
<1>1. FixedInv /\ [ChunkersNext]_chunkersVars => FixedInv'
  <2> SUFFICES ASSUME FixedInv, [ChunkersNext]_chunkersVars PROVE FixedInv'
    OBVIOUS
  <2>1. Fixed!Next \/ UNCHANGED fixedVars
    BY DEF ChunkersNext, chunkersVars
  <2>2. CASE UNCHANGED fixedVars
    <3>1. /\ length' = length /\ unknown' = unknown /\ pieces' = pieces
          /\ start' = start /\ running' = running /\ windows' = windows
      BY <2>2 DEF fixedVars
    <3>2. Fixed!TypeOK'
      BY <3>1 DEF FixedInv, Fixed!TypeOK
    <3>3. WindowsSound'
      BY <3>1 DEF FixedInv, WindowsSound
    <3>4. WindowsAdvance' /\ NextWindow' /\ Passed'
      BY <3>1 DEF FixedInv, WindowsAdvance, NextWindow, Passed
    <3> QED
      BY <3>2, <3>3, <3>4 DEF FixedInv
  <2>3. CASE Fixed!End
    <3>1. /\ length' = length /\ unknown' = unknown /\ pieces' = pieces
          /\ start' = start /\ running' = FALSE /\ windows' = windows /\ running /\ start >= length
      BY <2>3 DEF Fixed!End
    <3>2. Fixed!TypeOK'
      BY <3>1 DEF FixedInv, Fixed!TypeOK
    <3>3. WindowsSound'
      BY <3>1 DEF FixedInv, WindowsSound
    <3>4. WindowsAdvance' /\ NextWindow'
      BY <3>1 DEF FixedInv, WindowsAdvance, NextWindow
    <3>5. \A t \in (0 .. length - 1) \ unknown : t < start
      BY <3>1 DEF FixedInv, Fixed!TypeOK
    <3>6. Passed'
      BY <3>1, <3>5 DEF FixedInv, Passed
    <3> QED
      BY <3>2, <3>3, <3>4, <3>6 DEF FixedInv
  <2> QED
    BY <2>1, <2>2, <2>3, SkipKeeps, EmitKeeps DEF Fixed!Next
<1> QED
  BY <1>1, FixedInit, PTL DEF ChunkersSpec

\* A window's text counts as many tokens as the window has with a text, and two
\* more if it begins inside a word (make_chunk).
LEMMA CountIs ==
    ASSUME FixedInv, NEW k \in 1 .. Len(windows)
    PROVE  /\ Fixed!TokenCount(windows[k]) <= ChunkSize + 2
           /\ Fixed!TokenCount(windows[k]) > ChunkSize => windows[k].from \in pieces
<1>. DEFINE a == windows[k].from
            b == windows[k].to
            known == (a .. b) \ unknown
            n == Cardinality(known)
<1>1. length \in Nat /\ ChunkSize \in Nat /\ ChunkSize # 0
  BY SizesAssumption DEF FixedInv, Fixed!TypeOK
<1>2. a \in 0 .. length - 1 /\ b \in 0 .. length - 1 /\ b - a < ChunkSize
  BY DEF FixedInv, WindowsSound
<1>3. Fixed!TokenCount(windows[k]) = n + (IF a \in pieces THEN 2 ELSE 0)
  BY DEF Fixed!TokenCount, Fixed!Cardinality, Cardinality
<1>. HIDE DEF a, b
<1>4. a \in Int /\ b \in Int
  BY <1>1, <1>2
<1>5. IsFiniteSet(a .. b) /\ Cardinality(a .. b) = IF a > b THEN 0 ELSE b - a + 1
  BY <1>4, FS_Interval
<1>6. n \in Nat /\ n <= Cardinality(a .. b)
  <2>. DEFINE all == a .. b
  <2>1. IsFiniteSet(all) /\ known \in SUBSET all
    BY <1>5
  <2>. HIDE DEF all, known
  <2>2. IsFiniteSet(known) /\ Cardinality(known) <= Cardinality(all)
    BY <2>1, FS_Subset
  <2>. QED
    BY <2>2, FS_CardinalityType DEF all
<1>. HIDE DEF n
<1>7. n <= ChunkSize
  BY <1>1, <1>2, <1>4, <1>5, <1>6
<1>8. n + (IF a \in pieces THEN 2 ELSE 0) <= ChunkSize + 2
  BY <1>1, <1>6, <1>7
<1>9. n + (IF a \in pieces THEN 2 ELSE 0) > ChunkSize => a \in pieces
  BY <1>1, <1>6, <1>7
<1>. QED
  BY <1>3, <1>8, <1>9 DEF a

\* Whatever the segment and the sizes, every token with a text is in a window, no
\* window is part of another, and the text of a window counts more tokens than
\* chunk_size only if it begins inside a word, by two at most
\* (FixedSizeChunker.chunk, make_chunk).
THEOREM WindowsCoverAll == ChunkersSpec => []WindowsCover
<1>1. FixedInv => WindowsCover
  <2> SUFFICES ASSUME FixedInv PROVE WindowsCover
    OBVIOUS
  <2>1. ~running => \A t \in (0 .. length - 1) \ unknown :
                        \E k \in 1 .. Len(windows) : t \in windows[k].from .. windows[k].to
    BY DEF FixedInv, Passed
  <2>2. ASSUME NEW k \in 1 .. Len(windows)
        PROVE  /\ ~Fixed!Blank(windows[k])
               /\ k > 1 => /\ windows[k].to > windows[k - 1].to
                           /\ windows[k - 1].to - windows[k].from + 1 <= ChunkOverlap
    BY DEF FixedInv, WindowsSound, WindowsAdvance, Fixed!Blank
  <2>3. ASSUME NEW k \in 1 .. Len(windows)
        PROVE  /\ Fixed!TokenCount(windows[k]) <= ChunkSize + 2
               /\ Fixed!TokenCount(windows[k]) > ChunkSize => windows[k].from \in pieces
    BY CountIs
  <2> QED
    BY <2>1, <2>2, <2>3 DEF WindowsCover, Fixed!WindowsCover
<1> QED
  BY <1>1, FixedHolds, PTL

-----------------------------------------------------------------------------
(* SemanticChunker: the percentile.                                        *)

\* The places of the values that are below v, and of those not above it.
Below(values, v) == {i \in 1 .. Len(values) : values[i] < v}
Upto(values, v) == {i \in 1 .. Len(values) : values[i] <= v}

\* Places of values are finitely many, and all of them up to the largest.
LEMMA PlacesCounted ==
    ASSUME NEW values \in Seq(Int), NEW v
    PROVE  /\ IsFiniteSet(Below(values, v)) /\ Cardinality(Below(values, v)) \in Nat
           /\ IsFiniteSet(Upto(values, v)) /\ Cardinality(Upto(values, v)) \in Nat
           /\ IsFiniteSet(1 .. Len(values)) /\ Cardinality(1 .. Len(values)) = Len(values)
<1> DEFINE n == Len(values)
<1>1. n \in Nat
  OBVIOUS
<1>2. IsFiniteSet(1 .. n) /\ Cardinality(1 .. n) = n
  <2> HIDE DEF n
  <2> QED
    BY <1>1, FS_Interval
<1>3. Below(values, v) \subseteq 1 .. n /\ Upto(values, v) \subseteq 1 .. n
  BY DEF Below, Upto
<1>4. IsFiniteSet(Below(values, v)) /\ IsFiniteSet(Upto(values, v))
  <2> HIDE DEF n
  <2> QED
    BY <1>2, <1>3, FS_Subset
<1> QED
  BY <1>2, <1>4, FS_CardinalityType

\* An instance of FiniteSets counts as FiniteSets does.
LEMMA SameCardinality == \A S : Semantic!Cardinality(S) = Cardinality(S)
BY DEF Semantic!Cardinality, Cardinality

\* There is a value with no more than n below it and more than n up to it.
LEMMA OrderedIs ==
    ASSUME NEW values \in Seq(Int), NEW n \in Nat, n < Len(values)
    PROVE  LET v == Semantic!Ordered(values, n)
           IN  /\ v \in Int /\ \E i \in 1 .. Len(values) : values[i] = v
               /\ Cardinality(Below(values, v)) <= n
               /\ n < Cardinality(Upto(values, v))
<1> DEFINE D == 1 .. Len(values)
           f == [i \in D |-> values[i]]
           range == {f[i] : i \in D}
           High == {v \in range : n < Cardinality(Upto(values, v))}
<1>1. Len(values) \in Nat /\ D # {} /\ \A i \in D : f[i] = values[i] /\ f[i] \in Int
  <2>1. Len(values) \in Nat /\ 1 \in D
    OBVIOUS
  <2>2. \A i \in D : values[i] \in Int
    OBVIOUS
  <2>3. \A i \in D : f[i] = values[i]
    OBVIOUS
  <2> QED
    BY <2>1, <2>2, <2>3
<1>2. IsFiniteSet(D) /\ Cardinality(D) = Len(values)
  BY PlacesCounted
<1>3. IsFiniteSet(range)
  <2> HIDE DEF D, f
  <2> QED
    BY <1>2, FiniteRange
<1>4. range \subseteq Int /\ range # {} /\ \A v : v \in range <=> \E i \in D : values[i] = v
  <2> HIDE DEF D
  <2>1. range = {values[i] : i \in D}
    OBVIOUS
  <2> HIDE DEF range, f
  <2>2. \A i \in D : values[i] \in Int
    BY <1>1
  <2> QED
    BY <1>1, <2>1, <2>2
<1> HIDE DEF D, f, range
<1>5. IsFiniteSet(High) /\ High \subseteq Int
  <2>1. High \subseteq range
    OBVIOUS
  <2> HIDE DEF High
  <2> QED
    BY <1>3, <1>4, <2>1, FS_Subset
<1>6. High # {}
  <2>1. Max(range) \in range /\ \A y \in range : y <= Max(range)
    BY <1>3, <1>4, Extremes
  <2>2. \A i : i \in D <=> i \in Upto(values, Max(range))
    BY <1>4, <2>1 DEF Upto, D
  <2>3. Upto(values, Max(range)) = D
    BY <2>2
  <2>4. Max(range) \in High
    BY <1>2, <2>1, <2>3
  <2> QED
    BY <2>4
<1> DEFINE v == Min(High)
<1>7. v \in High /\ \A y \in High : v <= y
  <2> HIDE DEF High
  <2> QED
    BY <1>5, <1>6, Extremes
<1>8. v \in range /\ v \in Int /\ n < Cardinality(Upto(values, v))
  BY <1>4, <1>7
<1> DEFINE L == {u \in range : u < v}
<1>9. Cardinality(Below(values, v)) <= n
  <2>1. CASE L = {}
    <3>1. \A i \in D : values[i] \in range
      BY <1>4
    <3>2. \A i \in D : ~ (values[i] < v)
      BY <2>1, <3>1
    <3>3. Below(values, v) = {}
      BY <3>2 DEF Below, D
    <3>4. Cardinality(Below(values, v)) = 0
      BY <3>3, FS_EmptySet
    <3> QED
      BY <3>4
  <2>2. CASE L # {}
    <3> DEFINE u == Max(L)
    <3>1. IsFiniteSet(L) /\ L \subseteq Int
      <4>1. L \subseteq range
        OBVIOUS
      <4> HIDE DEF L
      <4> QED
        BY <1>3, <1>4, <4>1, FS_Subset
    <3>2. u \in L /\ \A y \in L : y <= u
      <4> HIDE DEF L
      <4> QED
        BY <2>2, <3>1, Extremes
    <3>3. u \in range /\ u \in Int /\ u < v
      BY <3>1, <3>2
    <3> HIDE DEF u
    <3>4. \A i \in D : values[i] < v <=> values[i] <= u
      <4> SUFFICES ASSUME NEW i \in D PROVE values[i] < v <=> values[i] <= u
        OBVIOUS
      <4>1. values[i] \in range /\ values[i] \in Int
        BY <1>4
      <4>2. values[i] < v => values[i] <= u
        BY <3>2, <4>1
      <4>3. values[i] <= u => values[i] < v
        <5> HIDE DEF v
        <5> QED
          BY <1>8, <3>3, <4>1
      <4> QED
        BY <4>2, <4>3
    <3>5. Below(values, v) = Upto(values, u)
      BY <3>4 DEF Below, Upto, D
    <3>6. u \notin High
      <4> HIDE DEF v, High
      <4> QED
        BY <1>7, <1>8, <3>3
    <3>7. ~ (n < Cardinality(Upto(values, u)))
      BY <3>3, <3>6
    <3>8. Cardinality(Upto(values, u)) \in Nat
      BY PlacesCounted
    <3> HIDE DEF v
    <3> QED
      BY <3>5, <3>7, <3>8
  <2> QED
    BY <2>1, <2>2
<1> HIDE DEF v
<1>10. \E x \in {values[i] : i \in 1 .. Len(values)} :
          /\ Semantic!Cardinality({i \in 1 .. Len(values) : values[i] < x}) <= n
          /\ n < Semantic!Cardinality({i \in 1 .. Len(values) : values[i] <= x})
  <2>1. v \in {values[i] : i \in 1 .. Len(values)}
    BY <1>4, <1>8 DEF D
  <2>2. /\ Cardinality({i \in 1 .. Len(values) : values[i] < v}) <= n
        /\ n < Cardinality({i \in 1 .. Len(values) : values[i] <= v})
    BY <1>8, <1>9 DEF Below, Upto
  <2> QED
    BY <2>1, <2>2, SameCardinality
<1> HIDE DEF High, L
<1>11. /\ Semantic!Ordered(values, n) \in {values[i] : i \in 1 .. Len(values)}
       /\ Semantic!Cardinality(
              {i \in 1 .. Len(values) : values[i] < Semantic!Ordered(values, n)}) <= n
       /\ n < Semantic!Cardinality(
              {i \in 1 .. Len(values) : values[i] <= Semantic!Ordered(values, n)})
  BY <1>10 DEF Semantic!Ordered
<1> DEFINE o == Semantic!Ordered(values, n)
<1>12. Cardinality(Below(values, o)) <= n /\ n < Cardinality(Upto(values, o))
  BY <1>11, SameCardinality DEF Below, Upto
<1>13. \E i \in 1 .. Len(values) : values[i] = o
  BY <1>11
<1> HIDE DEF o
<1>14. o \in Int
  BY <1>13
<1> QED
  BY <1>12, <1>13, <1>14 DEF o

\* The values rise with their places in the order.
LEMMA OrderedRises ==
    ASSUME NEW values \in Seq(Int), NEW m \in Nat, NEW n \in Nat, m <= n, n < Len(values)
    PROVE  Semantic!Ordered(values, m) <= Semantic!Ordered(values, n)
<1> DEFINE u == Semantic!Ordered(values, m)
           v == Semantic!Ordered(values, n)
<1>1. Len(values) \in Nat /\ m < Len(values)
  OBVIOUS
<1>2. u \in Int /\ Cardinality(Below(values, u)) <= m
  BY <1>1, OrderedIs
<1>3. v \in Int /\ n < Cardinality(Upto(values, v))
  BY OrderedIs
<1> HIDE DEF u, v
<1>4. CASE v < u
  <2>1. Upto(values, v) \subseteq Below(values, u)
    <3>1. \A i \in 1 .. Len(values) : values[i] \in Int
      OBVIOUS
    <3> QED
      BY <1>2, <1>3, <1>4, <3>1 DEF Upto, Below
  <2>2. IsFiniteSet(Below(values, u)) /\ Cardinality(Below(values, u)) \in Nat
    BY PlacesCounted
  <2>3. Cardinality(Upto(values, v)) \in Nat
    BY PlacesCounted
  <2>4. Cardinality(Upto(values, v)) <= Cardinality(Below(values, u))
    BY <2>1, <2>2, FS_Subset
  <2> QED
    BY <1>2, <1>3, <2>2, <2>3, <2>4
<1> QED
  BY <1>2, <1>3, <1>4 DEF u, v

\* The percentile lies between the values at the neighbours of its rank.
LEMMA PercentileIs ==
    ASSUME NEW values \in Seq(Int), Len(values) > 0, NEW percent \in 0 .. 100
    PROVE  LET rank == percent * (Len(values) - 1)
               p == Semantic!Percentile(values, percent)
           IN  /\ rank \in Nat /\ p \in Int
               /\ \E low \in Nat, high \in Nat :
                    /\ low < Len(values) /\ high < Len(values)
                    /\ rank < 100 * low + 100 /\ 100 * high <= rank + 99
                    /\ 100 * Semantic!Ordered(values, low) <= p
                    /\ p <= 100 * Semantic!Ordered(values, high)
<1> DEFINE m == Len(values) - 1
           rank == percent * m
           low == rank \div 100
           high == (rank + 99) \div 100
           below == Semantic!Ordered(values, low)
           above == Semantic!Ordered(values, high)
           part == rank - 100 * low
<1>1. m \in Nat /\ Len(values) = m + 1 /\ Len(values) \in Nat
  OBVIOUS
<1>2. rank \in Nat /\ rank <= 100 * m
  <2>1. percent \in Nat /\ 100 - percent \in Nat
    OBVIOUS
  <2> HIDE DEF m
  <2>2. \A x, y \in Nat : x * y \in Nat
    OBVIOUS
  <2>3. percent * m \in Nat /\ (100 - percent) * m \in Nat
    BY <1>1, <2>1, <2>2
  <2>4. 100 * m = percent * m + (100 - percent) * m
    BY <1>1, <2>1
  <2> QED
    BY <2>3, <2>4
<1>3. Semantic!Percentile(values, percent) = 100 * below + (above - below) * part
  BY DEF Semantic!Percentile
<1> HIDE DEF rank, m
<1>4. low \in Nat /\ 100 * low <= rank /\ rank < 100 * low + 100
  BY <1>2
<1>5. high \in Nat /\ 100 * high <= rank + 99 /\ rank < 100 * high + 1
  BY <1>2
<1> HIDE DEF low, high
<1>6. low <= high /\ high < Len(values) /\ low < Len(values)
  BY <1>1, <1>2, <1>4, <1>5
<1>7. below \in Int /\ above \in Int /\ below <= above
  <2>1. below \in Int
    BY <1>4, <1>6, OrderedIs
  <2>2. above \in Int
    BY <1>5, <1>6, OrderedIs
  <2>3. below <= above
    BY <1>4, <1>5, <1>6, OrderedRises
  <2> QED
    BY <2>1, <2>2, <2>3
<1>8. part \in 0 .. 100
  BY <1>2, <1>4
<1> HIDE DEF below, above, part
<1>9. /\ (above - below) * part \in Nat
      /\ (above - below) * part <= 100 * (above - below)
  <2> DEFINE d == above - below
  <2>1. d \in Nat /\ part \in Nat /\ 100 - part \in Nat
    BY <1>7, <1>8
  <2> HIDE DEF d
  <2>2. \A x, y \in Nat : x * y \in Nat
    OBVIOUS
  <2>3. d * part \in Nat /\ d * (100 - part) \in Nat
    BY <2>1, <2>2
  <2>4. 100 * d = d * part + d * (100 - part)
    BY <2>1
  <2>5. d * part <= 100 * d
    BY <2>3, <2>4
  <2> QED
    BY <2>3, <2>5 DEF d
<1> DEFINE share == (above - below) * part
           p == 100 * below + share
<1>10. p \in Int /\ 100 * below <= p /\ p <= 100 * above
  <2>1. share \in Nat /\ share <= 100 * (above - below)
    BY <1>9
  <2> HIDE DEF share
  <2> QED
    BY <1>7, <2>1
<1> HIDE DEF p
<1>11. Semantic!Percentile(values, percent) = p
  BY <1>3 DEF p
<1> QED
  BY <1>2, <1>4, <1>5, <1>6, <1>10, <1>11 DEF below, above, rank, m

-----------------------------------------------------------------------------
(* SemanticChunker: the loop over the sentences.                           *)

\* The segment has sentences, and a similarity for every two neighbours.
SegmentInv ==
    /\ segment.ends \in Seq(Nat) /\ segment.ends # <<>>
    /\ segment.sim \in Seq(Int) /\ Len(segment.sim) = Len(segment.ends) - 1

\* What is in hand starts where the chunk before it ends, and is above the
\* budget only while it is a single sentence.
HandInv ==
    /\ opening < sentence /\ sentence <= Semantic!Count + 1
    /\ done => sentence > Semantic!Count /\ topics # <<>>
    /\ ~done =>
         /\ opening = IF topics = <<>> THEN 1 ELSE topics[Len(topics)].last + 1
         /\ Semantic!Size([first |-> opening, last |-> sentence - 1]) > MaxTokens =>
                opening = sentence - 1

\* The chunks end later and later.
EndsRise ==
    \A i, j \in 1 .. Len(topics) : i < j => topics[i].last < topics[j].last

\* Sentence s is less similar to the one before than the percentile.
Shift(s) == 100 * segment.sim[s - 1] < Semantic!Percentile(segment.sim, Percent)

\* The sentence after chunk k would have made it exceed the budget.
Forced(k) ==
    Semantic!Size(topics[k]) + Semantic!Size([first |-> topics[k].last + 1,
                                              last  |-> topics[k].last + 1]) > MaxTokens

\* A chunk ends where the budget or the topic asks, and so far the topic was
\* followed wherever it shifts.
Reasons ==
    \A k \in 1 .. Len(topics) :
        topics[k].last < Semantic!Count => Forced(k) \/ Shift(topics[k].last + 1)
Followed ==
    \A s \in 2 .. sentence - 1 :
        Shift(s) => \E k \in 1 .. Len(topics) : topics[k].last = s - 1

SemanticInv ==
    /\ SegmentInv
    /\ Semantic!TypeOK
    /\ HandInv
    /\ EndsRise
    /\ Reasons
    /\ Followed
    /\ Semantic!SentencesChunked

\* Sentences end at natural numbers of tokens.
LEMMA SentenceEnds ==
    ASSUME SegmentInv
    PROVE  /\ Semantic!Count \in Nat \ {0}
           /\ \A i \in 0 .. Semantic!Count : Semantic!End(i) \in Nat
<1>1. Len(segment.ends) \in Nat \ {0}
  BY DEF SegmentInv
<1>2. \A i \in 1 .. Len(segment.ends) : segment.ends[i] \in Nat
  BY DEF SegmentInv
<1> QED
  BY <1>1, <1>2 DEF Semantic!Count, Semantic!End

\* A step changes no segment, so it changes nothing that is computed from it.
LEMMA SameSegment ==
    ASSUME segment' = segment
    PROVE  /\ SegmentInv' = SegmentInv
           /\ Semantic!Count' = Semantic!Count
           /\ \A i : Semantic!End(i)' = Semantic!End(i)
           /\ \A c : Semantic!Size(c)' = Semantic!Size(c)
           /\ \A s : Shift(s)' = Shift(s)
<1>1. SegmentInv' = SegmentInv
  BY DEF SegmentInv
<1>2. Semantic!Count' = Semantic!Count
  BY DEF Semantic!Count
<1>3. \A i : Semantic!End(i)' = Semantic!End(i)
  BY DEF Semantic!End
<1>4. \A c : Semantic!Size(c)' = Semantic!Size(c)
  BY DEF Semantic!Size, Semantic!End
<1>5. \A s : Shift(s)' = Shift(s)
  BY DEF Shift
<1> QED
  BY <1>1, <1>2, <1>3, <1>4, <1>5

\* The invariant holds before the second sentence.
LEMMA SemanticInit == ChunkersInit => SemanticInv
<1> SUFFICES ASSUME ChunkersInit PROVE SemanticInv
  OBVIOUS
<1>1. SegmentInv
  <2>1. CASE OneSentence
    BY <2>1 DEF OneSentence, SegmentInv
  <2>2. CASE segment \in SemanticInputs
    BY <2>2, SemanticAssumption DEF SegmentInv
  <2> QED
    BY <2>1, <2>2 DEF ChunkersInit
<1>2. sentence = 2 /\ opening = 1 /\ done = FALSE /\ topics = <<>>
  BY DEF ChunkersInit, Semantic!Begin
<1>3. Semantic!Count \in Nat \ {0}
  BY <1>1, SentenceEnds
<1>4. Semantic!TypeOK
  <2>1. topics \in Seq([first : 1 .. Semantic!Count, last : 1 .. Semantic!Count])
    BY <1>2
  <2>2. sentence \in 2 .. Semantic!Count + 2 /\ opening \in 1 .. Semantic!Count
    BY <1>2, <1>3
  <2> QED
    BY <1>2, <2>1, <2>2 DEF Semantic!TypeOK
<1>5. HandInv
  BY <1>2, <1>3 DEF HandInv
<1>6. Len(topics) = 0
  BY <1>2
<1>7. EndsRise /\ Reasons
  BY <1>6 DEF EndsRise, Reasons
<1>8. Followed
  BY <1>2 DEF Followed
<1>9. Semantic!SentencesChunked
  BY <1>2, <1>6 DEF Semantic!SentencesChunked
<1> QED
  BY <1>1, <1>4, <1>5, <1>7, <1>8, <1>9 DEF SemanticInv

\* A step that adds no chunk and leaves the loop where it is, or goes to a
\* sentence that continues the chunk in hand.
LEMMA ExtendKeeps == SemanticInv /\ Semantic!Extend => SemanticInv'
<1> SUFFICES ASSUME SemanticInv, Semantic!Extend PROVE SemanticInv'
  OBVIOUS
<1>1. /\ sentence <= Semantic!Count /\ ~Semantic!OverBudget /\ ~Semantic!TopicShift
      /\ sentence' = sentence + 1 /\ segment' = segment /\ opening' = opening
      /\ done' = done /\ topics' = topics
  BY DEF Semantic!Extend
<1>2. /\ SegmentInv' /\ Semantic!Count' = Semantic!Count
      /\ (\A i : Semantic!End(i)' = Semantic!End(i)) /\ \A s : Shift(s)' = Shift(s)
  BY <1>1, SameSegment DEF SemanticInv
<1>3. /\ Semantic!Count \in Nat \ {0} /\ sentence \in Nat /\ sentence >= 2
      /\ opening \in 1 .. Semantic!Count
  BY SentenceEnds DEF SemanticInv, Semantic!TypeOK
<1>4. Semantic!TypeOK'
  BY <1>1, <1>2, <1>3 DEF SemanticInv, Semantic!TypeOK
<1>5. HandInv'
  <2>1. opening < sentence' /\ sentence' <= Semantic!Count + 1
    BY <1>1, <1>3 DEF SemanticInv, HandInv
  <2>2. ~done
    BY <1>1, <1>3 DEF SemanticInv, HandInv
  <2>3. opening = IF topics = <<>> THEN 1 ELSE topics[Len(topics)].last + 1
    BY <2>2 DEF SemanticInv, HandInv
  <2>4. ~ (Semantic!End(sentence' - 1) - Semantic!End(opening - 1) > MaxTokens)
    BY <1>1, <1>3 DEF Semantic!OverBudget
  <2>5. ~ (Semantic!Size([first |-> opening, last |-> sentence' - 1]) > MaxTokens)
    BY <2>4 DEF Semantic!Size
  <2> QED
    BY <1>1, <1>2, <2>1, <2>2, <2>3, <2>4 DEF HandInv, Semantic!Size
<1>6. EndsRise'
  BY <1>1 DEF SemanticInv, EndsRise
<1>7. Reasons'
  BY <1>1, <1>2 DEF SemanticInv, Reasons, Forced, Semantic!Size
<1>8. Followed'
  <2> SUFFICES ASSUME NEW s \in 2 .. sentence' - 1, Shift(s)
               PROVE  \E k \in 1 .. Len(topics) : topics[k].last = s - 1
    BY <1>1, <1>2 DEF Followed
  <2>1. s # sentence
    BY <1>1 DEF Semantic!TopicShift, Shift
  <2>2. s \in 2 .. sentence - 1
    BY <1>1, <1>3, <2>1
  <2> QED
    BY <2>2 DEF SemanticInv, Followed
<1>9. Semantic!SentencesChunked'
  BY <1>1, <1>2 DEF SemanticInv, Semantic!SentencesChunked, Semantic!Size
<1> QED
  BY <1>2, <1>4, <1>5, <1>6, <1>7, <1>8, <1>9 DEF SemanticInv

\* What is in hand becomes a chunk: it ends after the chunks before it, it
\* starts where they end, and it is above the budget only as a single sentence.
LEMMA Closing ==
    ASSUME SemanticInv, ~done, segment' = segment,
           topics' = Append(topics, [first |-> opening, last |-> sentence - 1])
    PROVE  LET n == Len(topics)
           IN  /\ n \in Nat /\ Len(topics') = n + 1
               /\ \A k \in 1 .. n : topics'[k] = topics[k]
               /\ topics'[n + 1] = [first |-> opening, last |-> sentence - 1]
               /\ topics' \in Seq([first : 1 .. Semantic!Count, last : 1 .. Semantic!Count])
               /\ EndsRise'
               /\ \A k \in 1 .. n + 1 :
                      /\ topics'[k].first <= topics'[k].last
                      /\ topics'[k].first = IF k = 1 THEN 1 ELSE topics'[k - 1].last + 1
                      /\ Semantic!Size(topics'[k]) > MaxTokens =>
                             topics'[k].first = topics'[k].last
<1> DEFINE n == Len(topics)
           c == [first |-> opening, last |-> sentence - 1]
           Ranges == [first : 1 .. Semantic!Count, last : 1 .. Semantic!Count]
<1>1. /\ Semantic!Count \in Nat \ {0} /\ sentence \in Nat /\ sentence >= 2
      /\ opening \in 1 .. Semantic!Count /\ topics \in Seq(Ranges)
      /\ opening < sentence /\ sentence <= Semantic!Count + 1
  BY SentenceEnds DEF SemanticInv, Semantic!TypeOK, HandInv
<1>2. c \in Ranges /\ c.first = opening /\ c.last = sentence - 1
  BY <1>1
<1> HIDE DEF Ranges, c
<1>3. /\ n \in Nat /\ Len(topics') = n + 1
      /\ \A k \in 1 .. n : topics'[k] = topics[k]
      /\ topics'[n + 1] = c
      /\ topics' \in Seq(Ranges)
      /\ n = 0 <=> topics = <<>>
  <2>1. topics' = Append(topics, c)
    BY DEF c
  <2> QED
    BY <1>1, <1>2, <2>1
<1>4. \A k \in 1 .. n : topics[k].last \in 1 .. Semantic!Count
  <2> SUFFICES ASSUME NEW k \in 1 .. n PROVE topics[k].last \in 1 .. Semantic!Count
    OBVIOUS
  <2>1. topics[k] \in Ranges
    BY <1>1
  <2> QED
    BY <2>1 DEF Ranges
<1>5. opening = IF n = 0 THEN 1 ELSE topics[n].last + 1
  BY <1>3 DEF SemanticInv, HandInv
<1> HIDE DEF n
<1>6. \A k \in 1 .. n + 1 : k \in 1 .. n \/ k = n + 1
  BY <1>3
<1>7. \A k \in 1 .. n : topics[k].last < sentence - 1
  <2> SUFFICES ASSUME NEW k \in 1 .. n PROVE topics[k].last < sentence - 1
    OBVIOUS
  <2>1. n \in 1 .. n /\ n # 0
    BY <1>3
  <2>2. topics[n].last < sentence - 1
    <3> DEFINE e == topics[n].last
    <3>1. e \in Nat /\ opening = e + 1
      BY <1>1, <1>4, <1>5, <2>1
    <3> HIDE DEF e
    <3>2. e < sentence - 1
      BY <1>1, <3>1
    <3> QED
      BY <3>2 DEF e
  <2>3. k < n => topics[k].last < topics[n].last
    BY <2>1 DEF SemanticInv, EndsRise, n
  <2>4. k = n \/ k < n
    BY <1>3
  <2>5. topics[k].last \in Nat /\ topics[n].last \in Nat
    BY <1>1, <1>4, <2>1
  <2> QED
    BY <1>1, <2>2, <2>3, <2>4, <2>5
<1>8. EndsRise'
  <2> SUFFICES ASSUME NEW i \in 1 .. n + 1, NEW j \in 1 .. n + 1, i < j
               PROVE  topics'[i].last < topics'[j].last
    BY <1>3 DEF EndsRise
  <2>1. i \in 1 .. n
    BY <1>3
  <2>2. CASE j \in 1 .. n
    BY <1>3, <2>1, <2>2 DEF SemanticInv, EndsRise, n
  <2>3. CASE j = n + 1
    BY <1>2, <1>3, <1>7, <2>1, <2>3
  <2> QED
    BY <1>6, <2>2, <2>3
<1>9. ASSUME NEW k \in 1 .. n + 1
      PROVE  /\ topics'[k].first <= topics'[k].last
             /\ topics'[k].first = IF k = 1 THEN 1 ELSE topics'[k - 1].last + 1
             /\ Semantic!Size(topics'[k]) > MaxTokens => topics'[k].first = topics'[k].last
  <2>1. CASE k \in 1 .. n
    <3>1. /\ topics[k].first <= topics[k].last
          /\ topics[k].first = IF k = 1 THEN 1 ELSE topics[k - 1].last + 1
          /\ Semantic!Size(topics[k]) > MaxTokens => topics[k].first = topics[k].last
      BY <2>1 DEF SemanticInv, Semantic!SentencesChunked, n
    <3>2. k # 1 => k - 1 \in 1 .. n
      BY <1>3, <2>1
    <3>3. topics'[k] = topics[k] /\ (k # 1 => topics'[k - 1] = topics[k - 1])
      BY <1>3, <2>1, <3>2
    <3> QED
      BY <3>1, <3>3
  <2>2. CASE k = n + 1
    <3>1. topics'[k] = c
      BY <1>3, <2>2
    <3>2. c.first <= c.last
      BY <1>1, <1>2
    <3>3. Semantic!Size(c) > MaxTokens => c.first = c.last
      BY <1>2 DEF SemanticInv, HandInv, c
    <3>4. c.first = IF k = 1 THEN 1 ELSE topics'[k - 1].last + 1
      <4>1. CASE n = 0
        BY <1>2, <1>5, <2>2, <4>1
      <4>2. CASE n # 0
        <5>1. n \in 1 .. n /\ k # 1 /\ k - 1 = n
          BY <1>3, <2>2, <4>2
        <5> QED
          BY <1>2, <1>3, <1>5, <4>2, <5>1
      <4> QED
        BY <4>1, <4>2
    <3> QED
      BY <3>1, <3>2, <3>3, <3>4
  <2> QED
    BY <1>6, <2>1, <2>2
<1> QED
  BY <1>3, <1>8, <1>9 DEF n, Ranges, c

\* A chunk that is closed before the end has its reason, and the others keep theirs.
LEMMA ClosedReasons ==
    ASSUME SemanticInv, ~done, segment' = segment,
           topics' = Append(topics, [first |-> opening, last |-> sentence - 1]),
           sentence <= Semantic!Count => Semantic!OverBudget \/ Semantic!TopicShift
    PROVE  Reasons'
<1> DEFINE n == Len(topics)
           c == [first |-> opening, last |-> sentence - 1]
           Over(d) == Semantic!Size(d) + Semantic!Size([first |-> d.last + 1,
                                                        last  |-> d.last + 1]) > MaxTokens
           Why(d) == d.last < Semantic!Count => Over(d) \/ Shift(d.last + 1)
<1>1. /\ n \in Nat /\ Len(topics') = n + 1
      /\ \A k \in 1 .. n : topics'[k] = topics[k]
      /\ topics'[n + 1] = c
  BY Closing
<1>2. \A k \in 1 .. n : Why(topics[k])
  BY DEF SemanticInv, Reasons, Forced
<1>3. Why(c)
  <2> SUFFICES ASSUME sentence - 1 < Semantic!Count PROVE Over(c) \/ Shift(sentence)
    <3>1. sentence - 1 + 1 = sentence
      BY DEF SemanticInv, Semantic!TypeOK
    <3> QED
      BY <3>1
  <2>1. /\ Semantic!Count \in Nat \ {0} /\ sentence \in Nat /\ sentence >= 2
        /\ opening \in 1 .. Semantic!Count /\ sentence <= Semantic!Count
        /\ Semantic!End(sentence) \in Nat /\ Semantic!End(sentence - 1) \in Nat
        /\ Semantic!End(opening - 1) \in Nat
    BY SentenceEnds DEF SemanticInv, Semantic!TypeOK
  <2>2. CASE Semantic!OverBudget
    <3>1. Semantic!End(sentence) - Semantic!End(opening - 1) > MaxTokens
      BY <2>2 DEF Semantic!OverBudget
    <3>2. Semantic!Size(c) = Semantic!End(sentence - 1) - Semantic!End(opening - 1)
      BY DEF Semantic!Size
    <3>3. Semantic!Size([first |-> sentence, last |-> sentence])
              = Semantic!End(sentence) - Semantic!End(sentence - 1)
      BY DEF Semantic!Size
    <3>4. c.last + 1 = sentence
      BY <2>1
    <3>5. MaxTokens \in Nat
      BY PercentAssumption
    <3> QED
      BY <2>1, <3>1, <3>2, <3>3, <3>4, <3>5
  <2>3. CASE Semantic!TopicShift
    BY <2>3 DEF Semantic!TopicShift, Shift
  <2> QED
    BY <2>1, <2>2, <2>3
<1>4. \A k \in 1 .. n + 1 : k \in 1 .. n \/ k = n + 1
  BY <1>1
<1> HIDE DEF n, c, Why
<1>5. \A k \in 1 .. n + 1 : Why(topics'[k])
  BY <1>1, <1>2, <1>3, <1>4
<1> QED
  BY <1>1, <1>5, SameSegment DEF Reasons, Forced, Why, SemanticInv

\* At a shift, or when the budget is reached, the chunk in hand is closed.
LEMMA BreakKeeps == SemanticInv /\ Semantic!Break => SemanticInv'
<1> SUFFICES ASSUME SemanticInv, Semantic!Break PROVE SemanticInv'
  OBVIOUS
<1>1. /\ sentence <= Semantic!Count /\ (Semantic!OverBudget \/ Semantic!TopicShift)
      /\ topics' = Append(topics, [first |-> opening, last |-> sentence - 1])
      /\ opening' = sentence /\ sentence' = sentence + 1
      /\ segment' = segment /\ done' = done
  BY DEF Semantic!Break
<1>2. /\ SegmentInv' /\ Semantic!Count' = Semantic!Count
      /\ (\A i : Semantic!Size(i)' = Semantic!Size(i)) /\ \A s : Shift(s)' = Shift(s)
  BY <1>1, SameSegment DEF SemanticInv
<1>3. /\ Semantic!Count \in Nat \ {0} /\ sentence \in Nat /\ sentence >= 2
      /\ opening \in 1 .. Semantic!Count /\ done \in BOOLEAN
  BY SentenceEnds DEF SemanticInv, Semantic!TypeOK
<1>4. ~done
  BY <1>1, <1>3 DEF SemanticInv, HandInv
<1> DEFINE n == Len(topics)
<1>5. /\ n \in Nat /\ Len(topics') = n + 1
      /\ \A k \in 1 .. n : topics'[k] = topics[k]
      /\ topics'[n + 1] = [first |-> opening, last |-> sentence - 1]
      /\ topics' \in Seq([first : 1 .. Semantic!Count, last : 1 .. Semantic!Count])
      /\ EndsRise'
      /\ \A k \in 1 .. n + 1 :
             /\ topics'[k].first <= topics'[k].last
             /\ topics'[k].first = IF k = 1 THEN 1 ELSE topics'[k - 1].last + 1
             /\ Semantic!Size(topics'[k]) > MaxTokens => topics'[k].first = topics'[k].last
  BY <1>1, <1>4, Closing
<1> HIDE DEF n
<1>6. Semantic!TypeOK'
  <2>1. sentence' \in 2 .. Semantic!Count + 2 /\ opening' \in 1 .. Semantic!Count
    BY <1>1, <1>3
  <2> QED
    BY <1>1, <1>2, <1>3, <1>5, <2>1 DEF Semantic!TypeOK
<1>7. HandInv'
  <2>1. opening' < sentence' /\ sentence' <= Semantic!Count + 1
    BY <1>1, <1>3
  <2>2. topics'[n + 1].last + 1 = sentence /\ opening' = sentence' - 1
    BY <1>1, <1>3, <1>5
  <2>3. topics' # <<>>
    BY <1>5
  <2> QED
    BY <1>1, <1>2, <1>4, <1>5, <2>1, <2>2, <2>3 DEF HandInv
<1>8. Reasons'
  BY <1>1, <1>4, ClosedReasons
<1>9. Followed'
  <2> SUFFICES ASSUME NEW s \in 2 .. sentence' - 1, Shift(s)
               PROVE  \E k \in 1 .. n + 1 : topics'[k].last = s - 1
    BY <1>2, <1>5 DEF Followed
  <2>1. CASE s = sentence
    <3>1. n + 1 \in 1 .. n + 1
      BY <1>5
    <3> QED
      BY <1>5, <2>1, <3>1
  <2>2. CASE s # sentence
    <3>1. s \in 2 .. sentence - 1
      BY <1>1, <1>3, <2>2
    <3>2. PICK k \in 1 .. n : topics[k].last = s - 1
      BY <3>1 DEF SemanticInv, Followed, n
    <3>3. k \in 1 .. n + 1
      BY <1>5
    <3> QED
      BY <1>5, <3>2, <3>3
  <2> QED
    BY <2>1, <2>2
<1>10. Semantic!SentencesChunked'
  BY <1>1, <1>2, <1>4, <1>5 DEF Semantic!SentencesChunked
<1> QED
  BY <1>2, <1>5, <1>6, <1>7, <1>8, <1>9, <1>10 DEF SemanticInv

\* What is in hand after the last sentence becomes the last chunk.
LEMMA FlushKeeps == SemanticInv /\ Semantic!Flush => SemanticInv'
<1> SUFFICES ASSUME SemanticInv, Semantic!Flush PROVE SemanticInv'
  OBVIOUS
<1>1. /\ ~done /\ sentence > Semantic!Count /\ done' = TRUE
      /\ topics' = Append(topics, [first |-> opening, last |-> Semantic!Count])
      /\ opening' = opening /\ sentence' = sentence /\ segment' = segment
  BY DEF Semantic!Flush
<1>2. /\ SegmentInv' /\ Semantic!Count' = Semantic!Count
      /\ (\A i : Semantic!Size(i)' = Semantic!Size(i)) /\ \A s : Shift(s)' = Shift(s)
  BY <1>1, SameSegment DEF SemanticInv
<1>3. /\ Semantic!Count \in Nat \ {0} /\ sentence \in Nat /\ sentence >= 2
      /\ opening \in 1 .. Semantic!Count /\ sentence <= Semantic!Count + 1
  BY SentenceEnds DEF SemanticInv, Semantic!TypeOK, HandInv
<1>4. sentence - 1 = Semantic!Count
  BY <1>1, <1>3
<1>5. topics' = Append(topics, [first |-> opening, last |-> sentence - 1])
  BY <1>1, <1>4
<1> DEFINE n == Len(topics)
<1>6. /\ n \in Nat /\ Len(topics') = n + 1
      /\ \A k \in 1 .. n : topics'[k] = topics[k]
      /\ topics'[n + 1] = [first |-> opening, last |-> sentence - 1]
      /\ topics' \in Seq([first : 1 .. Semantic!Count, last : 1 .. Semantic!Count])
      /\ EndsRise'
      /\ \A k \in 1 .. n + 1 :
             /\ topics'[k].first <= topics'[k].last
             /\ topics'[k].first = IF k = 1 THEN 1 ELSE topics'[k - 1].last + 1
             /\ Semantic!Size(topics'[k]) > MaxTokens => topics'[k].first = topics'[k].last
  BY <1>1, <1>5, Closing
<1> HIDE DEF n
<1>7. Semantic!TypeOK'
  BY <1>1, <1>2, <1>6 DEF SemanticInv, Semantic!TypeOK
<1>8. HandInv'
  <2>1. topics' # <<>>
    BY <1>6
  <2> QED
    BY <1>1, <1>2, <2>1 DEF SemanticInv, HandInv
<1>9. Reasons'
  <2>1. ~ (sentence <= Semantic!Count)
    BY <1>1, <1>3
  <2> QED
    BY <1>1, <1>5, <2>1, ClosedReasons
<1>10. Followed'
  <2> SUFFICES ASSUME NEW s \in 2 .. sentence - 1, Shift(s)
               PROVE  \E k \in 1 .. n + 1 : topics'[k].last = s - 1
    BY <1>1, <1>2, <1>6 DEF Followed
  <2>1. PICK k \in 1 .. n : topics[k].last = s - 1
    BY DEF SemanticInv, Followed, n
  <2>2. k \in 1 .. n + 1
    BY <1>6
  <2> QED
    BY <1>6, <2>1, <2>2
<1>11. Semantic!SentencesChunked'
  <2>1. topics'[n + 1].last = Semantic!Count
    BY <1>4, <1>6
  <2> QED
    BY <1>2, <1>6, <2>1 DEF Semantic!SentencesChunked
<1> QED
  BY <1>2, <1>6, <1>7, <1>8, <1>9, <1>10, <1>11 DEF SemanticInv

\* The invariant, in every behaviour.
LEMMA SemanticHolds == ChunkersSpec => []SemanticInv
<1>1. SemanticInv /\ [ChunkersNext]_chunkersVars => SemanticInv'
  <2> SUFFICES ASSUME SemanticInv, [ChunkersNext]_chunkersVars PROVE SemanticInv'
    OBVIOUS
  <2>1. Semantic!Next \/ UNCHANGED semanticVars
    BY DEF ChunkersNext, chunkersVars
  <2>2. CASE UNCHANGED semanticVars
    <3>1. /\ segment' = segment /\ sentence' = sentence /\ opening' = opening
          /\ done' = done /\ topics' = topics
      BY <2>2 DEF semanticVars
    <3>2. /\ SegmentInv' /\ Semantic!Count' = Semantic!Count
          /\ (\A i : Semantic!Size(i)' = Semantic!Size(i)) /\ \A s : Shift(s)' = Shift(s)
      BY <3>1, SameSegment DEF SemanticInv
    <3>3. Semantic!TypeOK' /\ HandInv' /\ EndsRise'
      BY <3>1, <3>2 DEF SemanticInv, Semantic!TypeOK, HandInv, EndsRise
    <3>4. Reasons' /\ Followed'
      BY <3>1, <3>2 DEF SemanticInv, Reasons, Followed, Forced
    <3>5. Semantic!SentencesChunked'
      BY <3>1, <3>2 DEF SemanticInv, Semantic!SentencesChunked
    <3> QED
      BY <3>2, <3>3, <3>4, <3>5 DEF SemanticInv
  <2> QED
    BY <2>1, <2>2, ExtendKeeps, BreakKeeps, FlushKeeps DEF Semantic!Next
<1> QED
  BY <1>1, SemanticInit, PTL DEF ChunkersSpec

\* Whatever the segment and the budget, the chunks are the sentences, each once
\* and in order, and only a single sentence exceeds the budget
\* (SemanticChunker._split_segment).
THEOREM SentencesAllChunked == ChunkersSpec => []SentencesChunked
<1>1. SemanticInv => SentencesChunked
  BY DEF SemanticInv, SentencesChunked
<1> QED
  BY <1>1, SemanticHolds, PTL

\* No more chunks than the percentile says end where the budget does not force
\* them to: they end at different pairs of neighbours, each below the percentile.
LEMMA FewShifts ==
    ASSUME SemanticInv, Semantic!Count > 1
    PROVE  100 * Cardinality({k \in 1 .. Len(topics) :
                                 topics[k].last < Semantic!Count /\ ~Forced(k)})
               <= Percent * (Semantic!Count - 2) + 99
<1> DEFINE n == Len(topics)
           Shifts == {k \in 1 .. n : topics[k].last < Semantic!Count /\ ~Forced(k)}
           last == [k \in Shifts |-> topics[k].last]
           p == Semantic!Percentile(segment.sim, Percent)
           m == Len(segment.sim)
<1>1. /\ segment.sim \in Seq(Int) /\ m \in Nat /\ m = Semantic!Count - 1 /\ m > 0
      /\ n \in Nat /\ Semantic!Count \in Nat
  <2>1. SegmentInv /\ Semantic!Count = Len(segment.ends) /\ Semantic!Count \in Nat
    BY SentenceEnds DEF SemanticInv, Semantic!Count
  <2>2. n \in Nat
    BY DEF SemanticInv, Semantic!TypeOK
  <2> HIDE DEF n
  <2>3. segment.sim \in Seq(Int) /\ m \in Nat /\ m = Semantic!Count - 1
    BY <2>1 DEF SegmentInv
  <2> HIDE DEF m
  <2> QED
    BY <2>1, <2>2, <2>3
<1>2. PICK high \in Nat :
         /\ high < m /\ 100 * high <= Percent * (m - 1) + 99
         /\ p <= 100 * Semantic!Ordered(segment.sim, high) /\ p \in Int
  BY <1>1, PercentAssumption, PercentileIs
<1> DEFINE v == Semantic!Ordered(segment.sim, high)
           B == Below(segment.sim, v)
<1>3. v \in Int /\ Cardinality(B) <= high
  BY <1>1, <1>2, OrderedIs
<1>4. IsFiniteSet(B) /\ Cardinality(B) \in Nat
  BY <1>1, PlacesCounted
<1>5. \A k \in 1 .. n : topics[k].last \in 1 .. Semantic!Count
  <2> DEFINE Ranges == [first : 1 .. Semantic!Count, last : 1 .. Semantic!Count]
  <2>1. topics \in Seq(Ranges)
    BY DEF SemanticInv, Semantic!TypeOK
  <2>2. \A c \in Ranges : c.last \in 1 .. Semantic!Count
    OBVIOUS
  <2> HIDE DEF Ranges, Shifts, last, p, m, v, B
  <2>3. \A k \in 1 .. n : topics[k] \in Ranges
    BY <2>1
  <2> QED
    BY <2>2, <2>3
<1>6. \A k \in Shifts : last[k] \in B
  <2> SUFFICES ASSUME NEW k \in Shifts PROVE topics[k].last \in B
    OBVIOUS
  <2> DEFINE i == topics[k].last
  <2>1. i \in Nat /\ i >= 1 /\ i < Semantic!Count /\ i + 1 - 1 = i
    BY <1>1, <1>5
  <2>2. Shift(i + 1)
    BY DEF SemanticInv, Reasons
  <2>3. 100 * segment.sim[i] < p
    BY <2>1, <2>2 DEF Shift
  <2> HIDE DEF i, v, p, B, m, Shifts
  <2>4. i \in 1 .. m
    BY <1>1, <2>1
  <2>5. segment.sim[i] \in Int
    BY <1>1, <2>4 DEF m
  <2>6. segment.sim[i] < v
    <3> DEFINE x == segment.sim[i]
    <3>1. x \in Int /\ 100 * x < p /\ p <= 100 * v
      BY <1>2, <2>3, <2>5 DEF v
    <3> HIDE DEF x
    <3> QED
      BY <1>2, <1>3, <3>1 DEF x
  <2> QED
    BY <2>4, <2>6 DEF B, Below, m, i
<1>7. \A j, k \in Shifts : last[j] = last[k] => j = k
  <2> SUFFICES ASSUME NEW j \in Shifts, NEW k \in Shifts, topics[j].last = topics[k].last
               PROVE  j = k
    OBVIOUS
  <2>1. (j < k => topics[j].last < topics[k].last) /\ (k < j => topics[k].last < topics[j].last)
    BY DEF SemanticInv, EndsRise
  <2>2. topics[j].last \in Nat /\ topics[k].last \in Nat
    BY <1>1, <1>5
  <2>3. ~ (j < k) /\ ~ (k < j)
    BY <2>1, <2>2
  <2>4. j \in Int /\ k \in Int
    BY <1>1
  <2> QED
    BY <2>3, <2>4
<1>8. last \in Injection(Shifts, B)
  <2>1. last \in [Shifts -> B]
    <3> HIDE DEF B, Shifts
    <3> QED
      BY <1>6
  <2> HIDE DEF B, Shifts, last
  <2> QED
    BY <1>7, <2>1 DEF Injection, IsInjective
<1>9. IsFiniteSet(Shifts) /\ Cardinality(Shifts) <= Cardinality(B)
  <2> HIDE DEF B, Shifts, last
  <2> QED
    BY <1>4, <1>8, FS_Injection
<1>10. Cardinality(Shifts) \in Nat
  BY <1>9, FS_CardinalityType
<1> DEFINE a == Cardinality(Shifts)
           bound == Percent * (m - 1)
<1>11. bound = Percent * (Semantic!Count - 2) /\ bound \in Int
  <2>1. m - 1 = Semantic!Count - 2 /\ m - 1 \in Int
    BY <1>1
  <2> HIDE DEF m
  <2> QED
    BY <2>1, PercentAssumption
<1>12. a \in Nat /\ a <= high /\ 100 * high <= bound + 99
  <2>1. 100 * high <= bound + 99
    BY <1>2
  <2> HIDE DEF B, Shifts, bound
  <2> QED
    BY <1>3, <1>4, <1>9, <1>10, <2>1
<1> HIDE DEF a, bound
<1>13. 100 * a <= bound + 99
  BY <1>11, <1>12
<1> QED
  BY <1>11, <1>13 DEF a

\* When more pairs of neighbours than the least similar ones are below the
\* percentile's rank, the least similar ones are below the percentile.
LEMMA LeastParted ==
    ASSUME SemanticInv, done,
           NEW i \in 1 .. Semantic!Count - 1,
           \A j \in 1 .. Semantic!Count - 1 : segment.sim[i] <= segment.sim[j],
           100 * Cardinality({k \in 1 .. Semantic!Count - 1 :
                   \A j \in 1 .. Semantic!Count - 1 : segment.sim[k] <= segment.sim[j]})
               <= Percent * (Semantic!Count - 2)
    PROVE  \E k \in 1 .. Len(topics) : topics[k].last = i
<1> DEFINE p == Semantic!Percentile(segment.sim, Percent)
           m == Len(segment.sim)
           Least == {k \in 1 .. Semantic!Count - 1 :
                       \A j \in 1 .. Semantic!Count - 1 : segment.sim[k] <= segment.sim[j]}
<1>1. /\ segment.sim \in Seq(Int) /\ m \in Nat /\ m = Semantic!Count - 1 /\ m > 0
      /\ Semantic!Count \in Nat
  <2>1. SegmentInv /\ Semantic!Count = Len(segment.ends) /\ Semantic!Count \in Nat
    BY SentenceEnds DEF SemanticInv, Semantic!Count
  <2>2. segment.sim \in Seq(Int) /\ m \in Nat /\ m = Semantic!Count - 1
    BY <2>1 DEF SegmentInv
  <2> HIDE DEF m
  <2> QED
    BY <2>1, <2>2
<1>2. PICK low \in Nat :
         /\ low < m /\ Percent * (m - 1) < 100 * low + 100 /\ Percent * (m - 1) \in Nat
         /\ 100 * Semantic!Ordered(segment.sim, low) <= p /\ p \in Int
  BY <1>1, PercentAssumption, PercentileIs
<1> DEFINE v == Semantic!Ordered(segment.sim, low)
           U == Upto(segment.sim, v)
           x == segment.sim[i]
<1>3. v \in Int /\ low < Cardinality(U)
  BY <1>1, <1>2, OrderedIs
<1>4. x \in Int /\ \A j \in 1 .. m : segment.sim[j] \in Int /\ x <= segment.sim[j]
  <2>1. i \in 1 .. m
    BY <1>1
  <2>2. \A j \in 1 .. m : segment.sim[j] \in Int
    BY <1>1
  <2>3. \A j \in 1 .. m : x <= segment.sim[j]
    BY <1>1
  <2> QED
    BY <2>1, <2>2, <2>3
<1>5. CASE v <= x
  <2>1. U \subseteq Least
    <3> SUFFICES ASSUME NEW k \in U PROVE k \in Least
      OBVIOUS
    <3>1. k \in 1 .. m /\ segment.sim[k] <= v
      BY DEF Upto
    <3> HIDE DEF x, v
    <3>2. \A j \in 1 .. m : segment.sim[k] <= segment.sim[j]
      <4> SUFFICES ASSUME NEW j \in 1 .. m PROVE segment.sim[k] <= segment.sim[j]
        OBVIOUS
      <4>1. segment.sim[k] \in Int /\ segment.sim[j] \in Int /\ x <= segment.sim[j]
        BY <1>4, <3>1
      <4> QED
        BY <1>3, <1>4, <1>5, <3>1, <4>1
    <3> QED
      BY <1>1, <3>1, <3>2
  <2>2. IsFiniteSet(Least)
    <3>1. IsFiniteSet(1 .. m)
      BY <1>1, PlacesCounted
    <3>2. Least \subseteq 1 .. m
      BY <1>1
    <3> HIDE DEF Least, m
    <3> QED
      BY <3>1, <3>2, FS_Subset
  <2> HIDE DEF Least, U
  <2>3. Cardinality(U) <= Cardinality(Least) /\ IsFiniteSet(U)
    BY <2>1, <2>2, FS_Subset
  <2>4. Cardinality(U) \in Nat /\ Cardinality(Least) \in Nat
    BY <2>2, <2>3, FS_CardinalityType
  <2> DEFINE a == Cardinality(Least)
             rank == Percent * (m - 1)
  <2>5. 100 * a <= rank
    <3>1. m - 1 = Semantic!Count - 2
      BY <1>1
    <3> QED
      BY <3>1 DEF Least
  <2>6. rank < 100 * low + 100 /\ rank \in Nat /\ a \in Nat
    BY <1>2, <2>4
  <2>7. low + 1 <= a
    BY <1>3, <2>3, <2>4
  <2> HIDE DEF a, rank
  <2> QED
    BY <2>5, <2>6, <2>7
<1>6. CASE ~ (v <= x)
  <2> HIDE DEF v, x, p
  <2>1. 100 * x < p
    BY <1>2, <1>3, <1>4, <1>6 DEF v
  <2>2. i + 1 - 1 = i
    BY <1>1
  <2>3. Shift(i + 1)
    BY <2>1, <2>2 DEF Shift, x, p
  <2>4. i + 1 \in 2 .. sentence - 1
    <3>1. sentence \in Int /\ sentence > Semantic!Count
      BY <1>1 DEF SemanticInv, HandInv, Semantic!TypeOK
    <3> QED
      BY <1>1, <3>1
  <2> QED
    BY <2>2, <2>3, <2>4 DEF SemanticInv, Followed
<1> QED
  BY <1>5, <1>6

\* Whatever the segment, the budget and the percentile, breaks are where the
\* topic shifts (SemanticChunker._split_segment, _percentile).
THEOREM BreaksFollowShifts == ChunkersSpec => []BreaksAtShifts
<1>1. SemanticInv => BreaksAtShifts
  <2> SUFFICES ASSUME SemanticInv PROVE BreaksAtShifts
    OBVIOUS
  <2>1. Semantic!Count > 1 =>
            100 * Semantic!Cardinality({k \in 1 .. Len(topics) :
                      topics[k].last < Semantic!Count /\ ~Forced(k)})
                <= Percent * (Semantic!Count - 2) + 99
    BY FewShifts, SameCardinality
  <2>2. ASSUME done, Percent > 0,
               100 * Semantic!Cardinality({i \in 1 .. Semantic!Count - 1 :
                   \A j \in 1 .. Semantic!Count - 1 : segment.sim[i] <= segment.sim[j]})
                 <= Percent * (Semantic!Count - 2),
               NEW i \in {i \in 1 .. Semantic!Count - 1 :
                   \A j \in 1 .. Semantic!Count - 1 : segment.sim[i] <= segment.sim[j]}
        PROVE  \E k \in 1 .. Len(topics) : topics[k].last = i
    BY <2>2, LeastParted, SameCardinality
  <2> QED
    BY <2>1, <2>2 DEF BreaksAtShifts, Semantic!BreaksAtShifts, Forced
<1> QED
  BY <1>1, SemanticHolds, PTL

\* Every loop keeps the types of its variables, whichever strategy is chosen.
THEOREM TypesHold == ChunkersSpec => []TypesOK
<1> DEFINE Chosen == strategy \in {"fixed", "recursive", "semantic"}
<1>1. ChunkersInit => Chosen
  BY DEF ChunkersInit
<1>2. Chosen /\ [ChunkersNext]_chunkersVars => Chosen'
  BY DEF ChunkersNext, chunkersVars
<1>3. ChunkersSpec => []Chosen
  BY <1>1, <1>2, PTL DEF ChunkersSpec
<1>4. Chosen /\ IInv /\ FixedInv /\ SemanticInv => TypesOK
  BY DEF TypesOK, IInv, FixedInv, SemanticInv
<1> QED
  BY <1>3, <1>4, InvariantHolds, FixedHolds, SemanticHolds, PTL

-----------------------------------------------------------------------------
(* RecursiveChunker: how a text is split.                                  *)

Ranges(gap) == [from : 1 .. Len(gap) + 1, to : 1 .. Len(gap) + 1]

\* Parts of a part: ranges with a token, none reaching into another.
Apart(gap, p, parts) ==
    /\ \A q \in parts : /\ q \in Ranges(gap)
                        /\ p.from <= q.from /\ q.from <= q.to /\ q.to <= p.to
    /\ \A q, r \in parts : q # r => q.to < r.from \/ r.to < q.from

\* The numbers that a size divides are at least the size apart, and one of them
\* is less than the size below any.
LEMMA Multiples ==
    ASSUME NEW size \in Nat \ {0}, NEW x \in Nat
    PROVE  /\ \A y \in Nat : x % size = 0 /\ y % size = 0 /\ x < y => x + size <= y
           /\ x - (x % size) \in Nat /\ (x - (x % size)) % size = 0 /\ x < (x - (x % size)) + size
<1>1. ASSUME NEW y \in Nat
      PROVE y = size * (y \div size) + (y % size) /\ y % size \in 0 .. size - 1 /\ y \div size \in Nat
  OBVIOUS
<1>2. ASSUME NEW y \in Nat, x % size = 0, y % size = 0, x < y
      PROVE  x + size <= y
  <2>. DEFINE a == x \div size  b == y \div size
  <2>1. x = size * a /\ y = size * b /\ a \in Nat /\ b \in Nat
    BY <1>1, <1>2
  <2>. HIDE DEF a, b
  <2>2. a < b
    <3>1. CASE b <= a
      <4>1. size * b <= size * a
        BY <2>1, <3>1
      <4>. QED
        BY <1>2, <2>1, <4>1
    <3>. QED
      BY <2>1, <3>1
  <2>3. size * (a + 1) <= size * b
    <3>1. a + 1 <= b
      BY <2>1, <2>2
    <3>. QED
      BY <2>1, <3>1
  <2>4. size * (a + 1) = size * a + size
    BY <2>1
  <2>. QED
    BY <2>1, <2>3, <2>4
<1>. DEFINE q == x \div size  r == x % size
<1>3. x = size * q + r /\ r \in 0 .. size - 1 /\ q \in Nat
  BY <1>1
<1>4. x - r = size * q /\ size * q \in Nat
  <2>. HIDE DEF q, r
  <2>1. size * q \in Nat
    BY <1>3
  <2>. QED
    BY <1>3, <2>1
<1>5. (size * q) % size = 0
  <2>. DEFINE y == size * q  c == y \div size  d == y % size
  <2>1. y = size * c + d /\ d \in 0 .. size - 1 /\ c \in Nat
    BY <1>1, <1>4
  <2>. HIDE DEF c, d, q
  <2>2. size * q = size * c + d /\ q \in Nat
    BY <1>3, <2>1
  <2>3. q = c
    <3>1. CASE q < c
      <4>1. size * (q + 1) <= size * c /\ size * (q + 1) = size * q + size
        BY <2>1, <2>2, <3>1
      <4>. QED
        BY <2>1, <2>2, <4>1
    <3>2. CASE c < q
      <4>1. size * (c + 1) <= size * q /\ size * (c + 1) = size * c + size
        BY <2>1, <2>2, <3>2
      <4>. QED
        BY <2>1, <2>2, <4>1
    <3>. QED
      BY <2>1, <2>2, <3>1, <3>2
  <2>4. d = 0
    <3>1. size * q \in Int
      BY <2>2
    <3>. QED
      BY <2>1, <2>2, <2>3, <3>1
  <2>. QED
    BY <2>4 DEF d
<1>6. x < size * q + size
  <2>. HIDE DEF q, r
  <2>. QED
    BY <1>3
<1>. QED
  BY <1>2, <1>4, <1>5, <1>6

\* What a hard split makes of a part: pieces of it that fit and hold every token
\* that decodes to something.
LEMMA HardSplitIs ==
    ASSUME NEW gap \in Seq(Gaps), NEW p \in Ranges(gap), p.from <= p.to,
           NEW size \in Nat \ {0}, NEW unk
    PROVE  /\ Apart(gap, p, HardSplit(p, size, unk))
           /\ \A q \in HardSplit(p, size, unk) : Length(q) <= size
           /\ \A k \in (p.from .. p.to) \ unk :
                  \E q \in HardSplit(p, size, unk) : k \in q.from .. q.to
<1>. DEFINE a == p.from
            b == p.to
            N == Len(gap) + 1
            starts == {k \in a .. b : (k - a) % size = 0}
            Piece1(f) == Between(f, IF f + size > b THEN b ELSE f + size - 1)
            parts == {q \in {Piece1(f) : f \in starts} : ~(q.from .. q.to \subseteq unk)}
<1>1. a \in 1 .. N /\ b \in 1 .. N /\ N \in Nat /\ a <= b
  BY DEF Ranges
<1>2. HardSplit(p, size, unk) = parts
  BY DEF HardSplit
<1>. HIDE DEF a, b, N
<1>3. \A f \in starts :
          /\ Piece1(f) \in [from : 1 .. N, to : 1 .. N] /\ a <= f /\ f <= Piece1(f).to
          /\ Piece1(f).to <= b /\ Piece1(f).to < f + size /\ Piece1(f).from = f
          /\ Length(Piece1(f)) <= size
  <2>. SUFFICES ASSUME NEW f \in starts
                PROVE  /\ Piece1(f) \in [from : 1 .. N, to : 1 .. N] /\ a <= f /\ f <= Piece1(f).to
                       /\ Piece1(f).to <= b /\ Piece1(f).to < f + size /\ Piece1(f).from = f
                       /\ Length(Piece1(f)) <= size
    OBVIOUS
  <2>. DEFINE e == IF f + size > b THEN b ELSE f + size - 1
  <2>1. /\ e \in 1 .. N /\ f \in 1 .. N /\ a <= f /\ f <= e /\ e <= b /\ e < f + size
        /\ e - f + 1 <= size
    BY <1>1
  <2>2. Piece1(f) = [from |-> f, to |-> e] /\ Length(Piece1(f)) = e - f + 1
    BY DEF Between, Length
  <2>. HIDE DEF e, Piece1
  <2>. QED
    BY <2>1, <2>2
<1>4. \A f, g \in starts : f < g => f + size <= g
  <2>. SUFFICES ASSUME NEW f \in starts, NEW g \in starts, f < g PROVE f + size <= g
    OBVIOUS
  <2>. DEFINE x == f - a  y == g - a
  <2>1. x \in Nat /\ y \in Nat /\ x < y /\ x % size = 0 /\ y % size = 0
    BY <1>1
  <2>. HIDE DEF x, y
  <2>2. x + size <= y
    BY <2>1, Multiples
  <2>3. f \in Int /\ g \in Int
    BY <1>1
  <2>. QED
    BY <1>1, <2>2, <2>3 DEF x, y
<1>5. ASSUME NEW k \in a .. b PROVE \E f \in starts : f <= k /\ k < f + size
  <2>. DEFINE x == k - a  r == x % size  f == a + (x - r)
  <2>1. x \in Nat
    BY <1>1
  <2>2. x - r \in Nat /\ (x - r) % size = 0 /\ x < (x - r) + size /\ r >= 0 /\ r \in Int
    <3>. HIDE DEF x
    <3>1. r \in Int /\ r >= 0
      BY <2>1
    <3>. QED
      BY <2>1, <3>1, Multiples
  <2>. HIDE DEF r
  <2>3. f - a = x - r /\ f \in a .. b /\ f <= k /\ k < f + size
    BY <1>1, <2>1, <2>2
  <2>. QED
    BY <2>2, <2>3
<1>. HIDE DEF Piece1, starts
<1>6. Apart(gap, p, parts)
  <2>1. \A q \in parts : /\ q \in Ranges(gap)
                         /\ p.from <= q.from /\ q.from <= q.to /\ q.to <= p.to
    BY <1>3 DEF Ranges, N, a, b
  <2>2. ASSUME NEW q \in parts, NEW r \in parts, q # r
        PROVE  q.to < r.from \/ r.to < q.from
    <3>1. PICK f \in starts : q = Piece1(f)
      OBVIOUS
    <3>2. PICK g \in starts : r = Piece1(g)
      OBVIOUS
    <3>3. f \in Int /\ g \in Int /\ f # g
      BY <1>1, <2>2, <3>1, <3>2 DEF starts
    <3>4. /\ q.to \in Int /\ r.to \in Int /\ q.from = f /\ r.from = g
          /\ q.to < f + size /\ r.to < g + size
      BY <1>1, <1>3, <3>1, <3>2
    <3>5. f + size <= g \/ g + size <= f
      BY <1>4, <3>3
    <3>. QED
      BY <3>3, <3>4, <3>5
  <2>. QED
    BY <2>1, <2>2 DEF Apart
<1>7. \A q \in parts : Length(q) <= size
  BY <1>3
<1>8. ASSUME NEW k \in (a .. b) \ unk PROVE \E q \in parts : k \in q.from .. q.to
  <2>1. PICK f \in starts : f <= k /\ k < f + size
    BY <1>5
  <2>2. Piece1(f).from = f /\ (k <= b => k <= Piece1(f).to)
    <3>1. f \in Int /\ k \in Int
      BY <1>1 DEF starts
    <3>. QED
      BY <1>1, <2>1, <3>1 DEF Piece1, Between
  <2>3. Piece1(f).to \in Int /\ f \in Int /\ k \in Int /\ k <= b
    BY <1>1, <1>3 DEF starts
  <2>. DEFINE q == Piece1(f)
  <2>4. k \in q.from .. q.to
    BY <1>1, <2>1, <2>2, <2>3
  <2>5. q \in parts
    <3>1. q \in {Piece1(g) : g \in starts}
      OBVIOUS
    <3>. HIDE DEF q
    <3>. QED
      BY <2>4, <3>1
  <2>. QED
    BY <2>4, <2>5
<1>. HIDE DEF parts
<1>. QED
  BY <1>2, <1>6, <1>7, <1>8 DEF a, b

\* The texts between the separators of one kind.
TextsRight(gap, p, sep, parts) ==
    /\ Apart(gap, p, parts)
    /\ \A q \in parts : q.from = p.from \/ (p.from < q.from /\ At(gap, q.from - 1, sep))
    /\ \A q \in parts : \/ q.to = p.to
                        \/ q.to < p.to /\ At(gap, q.to, sep)
                        \/ q.to + 1 < p.to /\ gap[q.to + 1] = Sentence
    /\ \A q \in parts : \A j \in q.from .. q.to - 1 : ~At(gap, j, sep)
    /\ \A k \in p.from .. p.to :
           \/ \E q \in parts : k \in q.from .. q.to
           \/ k < p.to /\ sep = Sentence /\ At(gap, k, sep)

\* The parts of text.split(sep) that have a text.
Texts(gap, p, sep) ==
    LET cuts == {k \in p.from .. p.to - 1 : At(gap, k, sep)}
        Until(from) == IF \A k \in cuts : k < from THEN p.to
                     ELSE Min({k \in cuts : k >= from}) - (IF sep = Sentence THEN 1 ELSE 0)
    IN  {q \in {Between(from, Until(from)) : from \in {p.from} \cup {k + 1 : k \in cuts}} :
             Length(q) > 0}

\* text.split(sep) cuts at every separator of the kind and nowhere else, and loses
\* only the periods of sentences.
LEMMA TextsAre ==
    ASSUME NEW gap \in Seq(Gaps), NEW p \in Ranges(gap), p.from <= p.to, NEW sep \in Separators
    PROVE  TextsRight(gap, p, sep, Texts(gap, p, sep))
<1>. DEFINE a == p.from
            b == p.to
            N == Len(gap) + 1
            cuts == {k \in a .. b - 1 : At(gap, k, sep)}
            starts == {a} \cup {k + 1 : k \in cuts}
            After(f) == {k \in cuts : k >= f}
            d == IF sep = Sentence THEN 1 ELSE 0
            Ending(f) == IF \A k \in cuts : k < f THEN b ELSE Min(After(f)) - d
            parts == {q \in {Between(f, Ending(f)) : f \in starts} : Length(q) > 0}
<1>1. a \in 1 .. N /\ b \in 1 .. N /\ N \in Nat /\ a <= b /\ d \in {0, 1}
  BY DEF Ranges
<1>2. Texts(gap, p, sep) = parts
  BY DEF Texts
<1>3. cuts \subseteq a .. b - 1 /\ IsFiniteSet(cuts)
  <2>1. IsFiniteSet(a .. b - 1)
    <3>1. a \in Int /\ b - 1 \in Int
      BY <1>1
    <3>. HIDE DEF a, b
    <3>. QED
      BY <3>1, FS_Interval
  <2>2. cuts \subseteq a .. b - 1
    OBVIOUS
  <2>. HIDE DEF cuts
  <2>. QED
    BY <2>1, <2>2, FS_Subset
<1>4. \A k \in a .. b - 1 : k \in cuts <=> At(gap, k, sep)
  OBVIOUS
<1>. HIDE DEF a, b, N, cuts, d
\* A part ends before the next separator, or at the end.
<1>5. ASSUME NEW f \in starts
      PROVE  /\ f \in a .. b /\ Ending(f) \in Int /\ Ending(f) <= b
             /\ \A k \in cuts : k >= f => Ending(f) <= k
             /\ \/ Ending(f) = b
                \/ \E m \in cuts : f <= m /\ Ending(f) = m - d
  <2>1. f \in a .. b
    BY <1>1, <1>3
  <2>2. CASE \A k \in cuts : k < f
    <3>1. Ending(f) = b
      BY <2>2
    <3>2. \A k \in cuts : ~(k >= f)
      BY <1>1, <1>3, <2>1, <2>2
    <3>. HIDE DEF Ending
    <3>. QED
      BY <1>1, <2>1, <3>1, <3>2
  <2>3. CASE ~\A k \in cuts : k < f
    <3>1. Ending(f) = Min(After(f)) - d
      BY <2>3
    <3>2. After(f) \subseteq cuts /\ After(f) # {} /\ After(f) \subseteq Int /\ IsFiniteSet(After(f))
      <4>1. \A k \in cuts : k \in Int
        BY <1>1, <1>3
      <4>2. After(f) # {}
        BY <1>1, <1>3, <2>1, <2>3
      <4>. QED
        BY <1>3, <4>1, <4>2, FS_Subset
    <3>. DEFINE m == Min(After(f))
    <3>3. m \in cuts /\ m >= f /\ \A k \in cuts : k >= f => m <= k
      <4>1. m \in After(f) /\ \A y \in After(f) : m <= y
        <5>. DEFINE S == After(f)
        <5>. HIDE DEF S
        <5>1. Min(S) \in S /\ \A y \in S : Min(S) <= y
          BY <3>2, Extremes DEF S
        <5>. QED
          BY <5>1 DEF S
      <4>. HIDE DEF m
      <4>. QED
        BY <4>1
    <3>. HIDE DEF m, Ending
    <3>4. Ending(f) = m - d
      BY <3>1 DEF m
    <3>5. m \in a .. b - 1
      BY <1>3, <3>3
    <3>6. /\ Ending(f) \in Int /\ Ending(f) <= b
          /\ \A k \in cuts : k >= f => Ending(f) <= k
      BY <1>1, <1>3, <3>3, <3>4, <3>5
    <3>7. f <= m
      BY <1>1, <2>1, <3>3, <3>5
    <3>. QED
      BY <2>1, <3>3, <3>4, <3>6, <3>7
  <2>. HIDE DEF Ending
  <2>. QED
    BY <2>2, <2>3
<1>. HIDE DEF Ending
<1>6. ASSUME NEW q \in parts
      PROVE  /\ q.from \in starts /\ q = [from |-> q.from, to |-> Ending(q.from)]
             /\ q.from \in a .. b /\ q.to = Ending(q.from) /\ q.from <= q.to /\ q.to \in Int
             /\ q.to <= b
  <2>1. PICK f \in starts : q = Between(f, Ending(f))
    OBVIOUS
  <2>2. q = [from |-> f, to |-> Ending(f)] /\ Length(q) > 0
    BY <2>1 DEF Between
  <2>. HIDE DEF starts, parts
  <2>3. q.from = f /\ q.to = Ending(f) /\ q.to - q.from + 1 > 0
    BY <2>2 DEF Length
  <2>4. f \in a .. b /\ Ending(f) \in Int /\ Ending(f) <= b
    BY <1>5
  <2>5. f <= Ending(f)
    BY <1>1, <2>3, <2>4
  <2>. QED
    BY <2>2, <2>3, <2>4, <2>5
<1>7. ASSUME NEW f \in starts, f <= Ending(f)
      PROVE  /\ Between(f, Ending(f)) \in parts /\ Between(f, Ending(f)).from = f
             /\ Between(f, Ending(f)).to = Ending(f)
  <2>1. f \in Int /\ Ending(f) \in Int
    BY <1>1, <1>5
  <2>2. Length(Between(f, Ending(f))) > 0
    BY <1>7, <2>1 DEF Length, Between
  <2>. QED
    BY <2>2 DEF Between
<1>8. starts = {a} \cup {k + 1 : k \in cuts}
  OBVIOUS
<1>. HIDE DEF parts, starts
<1>9. Apart(gap, p, parts)
  <2>1. ASSUME NEW q \in parts
        PROVE  q \in Ranges(gap) /\ p.from <= q.from /\ q.from <= q.to /\ q.to <= p.to
    <3>1. q.from \in 1 .. N /\ q.to \in 1 .. N /\ a <= q.from /\ q.from <= q.to /\ q.to <= b
      BY <1>1, <1>6
    <3>2. q = [from |-> q.from, to |-> q.to]
      BY <1>6
    <3>3. q \in [from : 1 .. N, to : 1 .. N]
      BY <3>1, <3>2
    <3>. QED
      BY <3>1, <3>3 DEF Ranges, N, a, b
  <2>2. ASSUME NEW q \in parts, NEW r \in parts, q.from < r.from
        PROVE  q.to < r.from
    <3>1. r.from \in starts /\ q.from \in a .. b /\ r.from \in a .. b /\ q.to = Ending(q.from)
          /\ q.from \in starts /\ q.to \in Int
      BY <1>6
    <3>2. r.from # a
      BY <1>1, <2>2, <3>1
    <3>3. PICK k \in cuts : r.from = k + 1
      BY <1>8, <3>1, <3>2
    <3>4. k \in a .. b - 1 /\ k >= q.from
      BY <1>1, <1>3, <2>2, <3>1, <3>3
    <3>5. q.to <= k
      BY <1>5, <3>1, <3>4
    <3>. QED
      BY <1>1, <3>1, <3>3, <3>4, <3>5
  <2>3. ASSUME NEW q \in parts, NEW r \in parts, q # r
        PROVE  q.to < r.from \/ r.to < q.from
    <3>1. q.from # r.from
      BY <1>6, <2>3
    <3>2. q.from \in Int /\ r.from \in Int
      BY <1>1, <1>6
    <3>3. q.from < r.from \/ r.from < q.from
      BY <3>1, <3>2
    <3>. QED
      BY <2>2, <3>3
  <2>. QED
    BY <2>1, <2>3 DEF Apart
<1>10. ASSUME NEW q \in parts
       PROVE  q.from = p.from \/ (p.from < q.from /\ At(gap, q.from - 1, sep))
  <2>1. CASE q.from = a
    BY <2>1 DEF a
  <2>2. CASE q.from # a
    <3>1. PICK k \in cuts : q.from = k + 1
      BY <1>6, <1>8, <2>2
    <3>2. k \in a .. b - 1 /\ At(gap, k, sep)
      BY <1>3, <1>4
    <3>3. q.from - 1 = k /\ a < q.from
      BY <1>1, <3>1, <3>2
    <3>. QED
      BY <3>2, <3>3 DEF a
  <2>. QED
    BY <2>1, <2>2
<1>11. ASSUME NEW q \in parts, NEW j \in q.from .. q.to - 1
       PROVE  ~At(gap, j, sep)
  <2>1. q.from \in starts /\ q.from \in a .. b /\ q.to = Ending(q.from) /\ q.to \in Int /\ q.to <= b
    BY <1>6
  <2>2. j \in a .. b - 1 /\ j >= q.from /\ j < q.to
    BY <1>1, <2>1
  <2>3. j \notin cuts
    <3>. SUFFICES ASSUME j \in cuts PROVE FALSE
      OBVIOUS
    <3>1. q.to <= j
      BY <1>5, <2>1, <2>2
    <3>. QED
      BY <2>1, <2>2, <3>1
  <2>. QED
    BY <1>4, <2>2, <2>3
<1>12. ASSUME NEW k \in a .. b
       PROVE  \/ \E q \in parts : k \in q.from .. q.to
              \/ k < b /\ sep = Sentence /\ At(gap, k, sep)
  <2>. DEFINE below == {f \in starts : f <= k}
              f0 == Max(below)
  <2>1. starts \subseteq a .. b /\ a \in starts
    BY <1>5, <1>8
  <2>2. f0 \in below /\ \A y \in below : y <= f0
    <3>. DEFINE T == a .. b
    <3>1. IsFiniteSet(T)
      <4>1. a \in Int /\ b \in Int
        BY <1>1
      <4>. QED
        BY <4>1, FS_Interval
    <3>2. below \in SUBSET T
      BY <2>1
    <3>3. T \subseteq Int
      BY <1>1
    <3>4. a \in below
      BY <1>1, <2>1
    <3>. HIDE DEF below, T
    <3>5. IsFiniteSet(below)
      BY <3>1, <3>2, FS_Subset
    <3>6. below \subseteq Int /\ below # {}
      BY <3>2, <3>3, <3>4
    <3>. QED
      BY <3>5, <3>6, Extremes
  <2>3. f0 \in starts /\ f0 <= k /\ f0 \in a .. b
    BY <1>5, <2>2
  <2>4. \A y \in starts : y <= k => y <= f0
    BY <2>2
  <2>. HIDE DEF f0
  <2>5. CASE k <= Ending(f0)
    <3>1. f0 \in Int /\ k \in Int /\ Ending(f0) \in Int /\ f0 <= Ending(f0)
      BY <1>1, <1>5, <2>3, <2>5
    <3>2. k \in f0 .. Ending(f0)
      BY <2>3, <2>5, <3>1
    <3>. DEFINE q == Between(f0, Ending(f0))
    <3>3. q \in parts /\ q.from = f0 /\ q.to = Ending(f0)
      BY <1>7, <2>3, <3>1
    <3>. HIDE DEF q
    <3>. QED
      BY <3>2, <3>3
  <2>6. CASE ~(k <= Ending(f0))
    <3>1. Ending(f0) \in Int /\ k \in Int /\ k <= b /\ Ending(f0) < k
      BY <1>1, <1>5, <2>3, <2>6
    <3>2. PICK m \in cuts : f0 <= m /\ Ending(f0) = m - d
      BY <1>1, <1>5, <2>3, <3>1
    <3>3. m \in a .. b - 1 /\ m + 1 \in starts
      BY <1>3, <1>8
    <3>4. ~(m + 1 <= k)
      <4>. SUFFICES ASSUME m + 1 <= k PROVE FALSE
        OBVIOUS
      <4>1. m + 1 <= f0
        BY <2>4, <3>3
      <4>. QED
        BY <1>1, <2>3, <3>2, <3>3, <4>1
    <3>5. m = k /\ d = 1
      BY <1>1, <3>1, <3>2, <3>3, <3>4
    <3>6. sep = Sentence
      BY <3>5 DEF d
    <3>7. k < b /\ At(gap, k, sep)
      BY <1>1, <1>4, <3>3, <3>5
    <3>. QED
      BY <3>6, <3>7
  <2>. QED
    BY <2>5, <2>6
<1>13. ASSUME NEW q \in parts
       PROVE  \/ q.to = p.to
              \/ q.to < p.to /\ At(gap, q.to, sep)
              \/ q.to + 1 < p.to /\ gap[q.to + 1] = Sentence
  <2>1. q.to = Ending(q.from) /\ q.from \in starts
    BY <1>6
  <2>2. CASE q.to = b
    BY <2>2 DEF b
  <2>3. CASE q.to # b
    <3>1. PICK m \in cuts : q.to = m - d
      BY <1>5, <2>1, <2>3
    <3>2. m \in a .. b - 1 /\ At(gap, m, sep)
      BY <1>3, <1>4
    <3>3. CASE sep = Sentence
      <4>1. d = 1 /\ gap[m] = Sentence
        BY <3>2, <3>3 DEF d, At, Sentence, Word
      <4>2. q.to + 1 = m /\ m < b
        BY <1>1, <3>1, <3>2, <4>1
      <4>. QED
        BY <4>1, <4>2 DEF b
    <3>4. CASE sep # Sentence
      <4>1. d = 0
        BY <3>4 DEF d
      <4>2. q.to = m /\ m < b
        BY <1>1, <3>1, <3>2, <4>1
      <4>. QED
        BY <3>2, <4>2 DEF b
    <3>. QED
      BY <3>3, <3>4
  <2>. QED
    BY <2>2, <2>3
<1>14. TextsRight(gap, p, sep, parts)
  BY <1>9, <1>10, <1>11, <1>12, <1>13 DEF TextsRight, a, b
<1>. QED
  BY <1>2, <1>14

\* A text has finitely many parts (_recursive_split).
LEMMA RangesFinite ==
    ASSUME NEW gap \in Seq(Gaps)
    PROVE  IsFiniteSet(Ranges(gap))
<1>. DEFINE ends == 1 .. Len(gap) + 1
            pairs == ends \X ends
            range == [x \in pairs |-> [from |-> x[1], to |-> x[2]]]
<1>1. IsFiniteSet(ends)
  <2>1. 1 \in Int /\ Len(gap) + 1 \in Int
    OBVIOUS
  <2>. QED
    BY <2>1, FS_Interval
<1>2. Ranges(gap) = {range[x] : x \in pairs}
  <2>. HIDE DEF ends
  <2>1. ASSUME NEW p \in [from : ends, to : ends]
        PROVE  \E x \in pairs : p = range[x]
    <3>1. <<p.from, p.to>> \in pairs /\ p = range[<<p.from, p.to>>]
      OBVIOUS
    <3>. QED
      BY <3>1
  <2>2. \A x \in pairs : range[x] \in [from : ends, to : ends]
    OBVIOUS
  <2>. HIDE DEF pairs, range
  <2>3. [from : ends, to : ends] = {range[x] : x \in pairs}
    BY <2>1, <2>2
  <2>. QED
    BY <2>3 DEF Ranges, ends
<1>. HIDE DEF ends
<1>3. IsFiniteSet(pairs)
  BY <1>1, FS_Product
<1>. HIDE DEF pairs, range
<1>4. IsFiniteSet({range[x] : x \in pairs})
  BY <1>3, FiniteRange
<1>. QED
  BY <1>2, <1>4

\* The parts a separator leaves: begun and ended at its places, and with it inside
\* only where it is a period that stands alone.
PartsRight(gap, p, sep, parts) ==
    /\ Apart(gap, p, parts)
    /\ \A q \in parts : q.from = p.from \/ (p.from < q.from /\ At(gap, q.from - 1, sep))
    /\ \A q \in parts : \/ q.to = p.to
                        \/ q.to < p.to /\ At(gap, q.to, sep)
                        \/ q.to + 1 < p.to /\ gap[q.to + 1] = Sentence
    /\ \A q \in parts : \A j \in q.from .. q.to - 1 :
           At(gap, j, sep) => Alone(gap, j) /\ sep = Sentence
    /\ \A k \in p.from .. p.to :
           \/ \E q \in parts : k \in q.from .. q.to
           \/ k < p.to /\ gap[k] = Sentence

\* ... and so do the parts _recursive_split works on, where a separator that leaves
\* one text is ignored: what it would have cut off are periods that stand alone.
LEMMA PartsAre ==
    ASSUME NEW gap \in Seq(Gaps), NEW p \in Ranges(gap), p.from <= p.to, NEW sep \in Separators,
           Begun(gap, p)
    PROVE  PartsRight(gap, p, sep, Parts(gap, p, sep))
<1>. DEFINE texts == Texts(gap, p, sep)
<1>1. Parts(gap, p, sep) = IF Cardinality(texts) = 1 THEN {p} ELSE texts
  BY DEF Parts, Texts
<1>2. TextsRight(gap, p, sep, texts)
  BY TextsAre
<1>. HIDE DEF texts
<1>3. /\ p.from \in 1 .. Len(gap) + 1 /\ p.to \in 1 .. Len(gap) + 1 /\ p.from <= p.to
      /\ p \in Ranges(gap) /\ Len(gap) \in Nat
  BY DEF Ranges
<1>4. CASE Cardinality(texts) # 1
  <2>1. Parts(gap, p, sep) = texts
    BY <1>1, <1>4
  <2>2. \A k \in p.from .. p.to :
           \/ \E q \in texts : k \in q.from .. q.to
           \/ k < p.to /\ gap[k] = Sentence
    <3>1. \A k : sep = Sentence /\ At(gap, k, sep) => gap[k] = Sentence
      BY DEF At
    <3>. QED
      BY <1>2, <3>1 DEF TextsRight
  <2>3. PartsRight(gap, p, sep, texts)
    BY <1>2, <2>2 DEF PartsRight, TextsRight
  <2>. QED
    BY <2>1, <2>3
<1>5. CASE Cardinality(texts) = 1
  <2>1. texts \subseteq Ranges(gap)
    BY <1>2 DEF TextsRight, Apart
  <2>2. IsFiniteSet(texts)
    BY <2>1, RangesFinite, FS_Subset
  <2>3. PICK t : texts = {t}
    BY <1>5, <2>2, FS_Singleton
  <2>4. /\ t.from \in 1 .. Len(gap) + 1 /\ t.to \in 1 .. Len(gap) + 1
        /\ p.from <= t.from /\ t.from <= t.to /\ t.to <= p.to
    <3>1. t \in Ranges(gap) /\ p.from <= t.from /\ t.from <= t.to /\ t.to <= p.to
      BY <1>2, <2>3 DEF TextsRight, Apart
    <3>. QED
      BY <3>1 DEF Ranges
  <2>5. \A k \in p.from .. p.to :
           \/ k \in t.from .. t.to
           \/ k < p.to /\ sep = Sentence /\ At(gap, k, sep)
    BY <1>2, <2>3 DEF TextsRight
  <2>6. t.to = p.to
    <3>1. p.to \in p.from .. p.to
      BY <1>3
    <3>2. p.to \in t.from .. t.to
      BY <1>3, <2>5, <3>1
    <3>. QED
      BY <1>3, <2>4, <3>2
  <2>7. ASSUME NEW j \in p.from .. p.to - 1, At(gap, j, sep)
        PROVE  Alone(gap, j) /\ sep = Sentence
    <3>1. j < t.from
      <4>1. j \notin t.from .. t.to - 1
        BY <1>2, <2>3, <2>7 DEF TextsRight
      <4>. QED
        BY <1>3, <2>4, <2>6, <4>1
    <3>2. j \in p.from .. p.to /\ j \notin t.from .. t.to
      BY <1>3, <2>4, <3>1
    <3>3. sep = Sentence /\ gap[j] = Sentence
      <4>1. sep = Sentence
        BY <2>5, <3>2
      <4>. QED
        BY <2>7, <4>1 DEF At, Sentence, Word
    <3>4. j = 1 \/ gap[j - 1] \in Separators
      <4>1. CASE j = p.from
        BY <4>1 DEF Begun
      <4>2. CASE j # p.from
        <5>1. j - 1 \in p.from .. p.to /\ j - 1 \notin t.from .. t.to
          BY <1>3, <2>4, <3>1, <4>2
        <5>2. At(gap, j - 1, sep)
          BY <2>5, <5>1
        <5>3. gap[j - 1] = Sentence
          BY <3>3, <5>2 DEF At, Sentence, Word
        <5>. QED
          BY <5>3 DEF Separators, Sentence
      <4>. QED
        BY <4>1, <4>2
    <3>. QED
      BY <3>3, <3>4 DEF Alone
  <2>8. Parts(gap, p, sep) = {p}
    BY <1>1, <1>5
  <2>9. Apart(gap, p, {p})
    BY <1>3 DEF Apart
  <2>10. PartsRight(gap, p, sep, {p})
    BY <2>7, <2>9 DEF PartsRight
  <2>. QED
    BY <2>8, <2>10
<1>. QED
  BY <1>4, <1>5

\* A part that no separator coarser than the one at hand is left in.
Whole(gap, p, sep) ==
    /\ p \in Ranges(gap) /\ p.from <= p.to
    /\ Begun(gap, p) /\ Ended(gap, p)
    /\ \A j \in p.from .. p.to - 1 : gap[j] < sep => Alone(gap, j)
    /\ sep = Inside => \A j \in p.from .. p.to - 1 : gap[j] \notin Separators

\* What is cut at a separator has it no longer, so its parts are ready for the next
\* finer one.
LEMMA PartsWhole ==
    ASSUME NEW gap \in Seq(Gaps), NEW sep \in Separators, NEW p, Whole(gap, p, sep),
           NEW q \in Parts(gap, p, sep), NEW next, next = sep + 1
    PROVE  Whole(gap, q, next)
<1>1. PartsRight(gap, p, sep, Parts(gap, p, sep))
  BY PartsAre DEF Whole
<1>2. /\ p.from \in 1 .. Len(gap) + 1 /\ p.to \in 1 .. Len(gap) + 1 /\ p.from <= p.to
      /\ Len(gap) \in Nat /\ \A j \in 1 .. Len(gap) : gap[j] \in Gaps
  BY DEF Ranges, Whole
<1>3. q \in Ranges(gap) /\ p.from <= q.from /\ q.from <= q.to /\ q.to <= p.to
  BY <1>1 DEF PartsRight, Apart
<1>4. q.from \in 1 .. Len(gap) + 1 /\ q.to \in 1 .. Len(gap) + 1
  BY <1>3 DEF Ranges
<1>5. Begun(gap, q)
  <2>1. CASE q.from = p.from
    BY <2>1 DEF Begun, Whole
  <2>2. CASE At(gap, q.from - 1, sep)
    BY <2>2 DEF Begun, At, Separators, Sentence
  <2>. QED
    BY <1>1, <2>1, <2>2 DEF PartsRight
<1>6. ASSUME NEW j \in q.from .. q.to - 1, gap[j] < next
      PROVE  Alone(gap, j)
  <2>1. j \in p.from .. p.to - 1 /\ j \in 1 .. Len(gap)
    BY <1>2, <1>3, <1>4
  <2>2. CASE gap[j] < sep
    BY <2>1, <2>2 DEF Whole
  <2>3. CASE gap[j] = sep
    <3>1. At(gap, j, sep)
      BY <2>3 DEF At
    <3>. QED
      BY <1>1, <3>1 DEF PartsRight
  <2>4. gap[j] \in Int /\ sep \in Int
    BY <1>2, <2>1 DEF Gaps, Separators, Inside, Piece
  <2>. QED
    BY <1>6, <2>2, <2>3, <2>4
<1>7. Ended(gap, q)
  <2>1. CASE q.to = p.to
    BY <2>1 DEF Ended, Whole
  <2>2. CASE At(gap, q.to, sep)
    BY <2>2 DEF Ended, At, Separators, Sentence
  <2>3. CASE q.to + 1 < p.to /\ gap[q.to + 1] = Sentence
    <3>1. q.to < Len(gap)
      BY <1>2, <1>4, <2>3
    <3>. QED
      BY <2>3, <3>1 DEF Ended
  <2>. QED
    BY <1>1, <2>1, <2>2, <2>3 DEF PartsRight
<1>8. ASSUME next = Inside, NEW j \in q.from .. q.to - 1
      PROVE  gap[j] \notin Separators
  <2>1. sep = Word /\ sep # Sentence
    BY <1>8 DEF Inside, Word, Sentence, Separators
  <2>2. ~At(gap, j, Word)
    BY <1>1, <2>1 DEF PartsRight
  <2>3. gap[j] # Word /\ gap[j] # Sentence
    BY <2>2 DEF At
  <2>4. ~(gap[j] < next)
    BY <1>6, <2>3 DEF Alone
  <2>. QED
    BY <1>8, <2>4 DEF Separators, Inside
<1>. QED
  BY <1>3, <1>5, <1>6, <1>7, <1>8 DEF Whole

\* Cuts of a text none of which is inside a part.
Uncut(gap, p, cuts) ==
    cuts \in SUBSET (1 .. Len(gap)) /\ \A j \in cuts : j \notin p.from .. p.to - 1

\* Cuts that are not inside a part leave it whole: what lies between them around a
\* token of the part is at least as large.
LEMMA AroundLarge ==
    ASSUME NEW gap \in Seq(Gaps), NEW p \in Ranges(gap), NEW cuts, Uncut(gap, p, cuts),
           NEW k \in p.from .. p.to, NEW size \in Nat, Length(p) > size
    PROVE  Length(Around(gap, cuts, k)) > size
<1>. DEFINE N == Len(gap) + 1
            A == {0} \cup {j \in cuts : j < k}
            B == {N} \cup {j \in cuts : j >= k}
<1>1. p.from \in 1 .. N /\ p.to \in 1 .. N /\ N \in Nat
  BY DEF Ranges
<1>2. k \in Int /\ p.from <= k /\ k <= p.to
  BY <1>1
<1>4. \A j \in cuts : j \in 1 .. N - 1 /\ (j < p.from \/ j >= p.to)
  BY <1>1 DEF Uncut
<1>5. \A j \in cuts : j \in Int
  BY <1>4
<1>6. IsFiniteSet(cuts)
  <2>. DEFINE T == 1 .. Len(gap)
  <2>1. IsFiniteSet(T)
    <3>1. 1 \in Int /\ Len(gap) \in Int
      OBVIOUS
    <3>. QED
      BY <3>1, FS_Interval
  <2>2. cuts \in SUBSET T
    BY DEF Uncut
  <2>. HIDE DEF T
  <2>. QED
    BY <2>1, <2>2, FS_Subset
<1>7. Max(A) \in A
  <2>1. {j \in cuts : j < k} \in SUBSET cuts
    OBVIOUS
  <2>2. IsFiniteSet({j \in cuts : j < k})
    BY <1>6, <2>1, FS_Subset
  <2>3. IsFiniteSet(A)
    BY <2>2, FS_Union, FS_Singleton
  <2>4. A \subseteq Int /\ A # {}
    BY <1>5
  <2>. HIDE DEF A
  <2>. QED
    BY <2>3, <2>4, Extremes
<1>8. Min(B) \in B
  <2>1. {j \in cuts : j >= k} \in SUBSET cuts
    OBVIOUS
  <2>2. IsFiniteSet({j \in cuts : j >= k})
    BY <1>6, <2>1, FS_Subset
  <2>3. IsFiniteSet(B)
    BY <2>2, FS_Union, FS_Singleton
  <2>4. B \subseteq Int /\ B # {}
    BY <1>1, <1>5
  <2>. HIDE DEF B
  <2>. QED
    BY <2>3, <2>4, Extremes
<1>9. Max(A) \in Int /\ 1 + Max(A) <= p.from
  <2>. DEFINE x == Max(A)
  <2>1. x = 0 \/ (x \in cuts /\ x < k)
    BY <1>7
  <2>. HIDE DEF x
  <2>2. x \in Int /\ (x \in cuts => x < p.from \/ x >= p.to)
    BY <1>1, <1>4, <1>5, <2>1
  <2>3. 1 + x <= p.from
    BY <1>1, <1>2, <2>1, <2>2
  <2>. QED
    BY <2>2, <2>3 DEF x
<1>10. Min(B) \in Int /\ Min(B) >= p.to
  <2>. DEFINE x == Min(B)
  <2>1. x = N \/ (x \in cuts /\ x >= k)
    BY <1>8
  <2>. HIDE DEF x
  <2>2. x \in Int /\ (x \in cuts => x < p.from \/ x >= p.to)
    BY <1>1, <1>4, <1>5, <2>1
  <2>3. x >= p.to
    BY <1>1, <1>2, <2>1, <2>2
  <2>. QED
    BY <2>2, <2>3 DEF x
<1>11. Around(gap, cuts, k) = [from |-> 1 + Max(A), to |-> Min(B)]
  BY DEF Around, Between
<1>. DEFINE u == 1 + Max(A)  v == Min(B)
<1>12. u \in Int /\ v \in Int /\ u <= p.from /\ p.to <= v
  BY <1>1, <1>9, <1>10
<1>13. Around(gap, cuts, k) = [from |-> u, to |-> v]
  BY <1>11
<1>. HIDE DEF u, v
<1>14. v - u + 1 > size
  <2>1. p.to - p.from + 1 > size
    BY DEF Length
  <2>. QED
    BY <1>1, <1>12, <2>1
<1>. QED
  BY <1>13, <1>14 DEF Length

\* Where a part above the budget is cut at its coarsest separator, what that
\* separator divides is above the budget.
LEMMA EnclosingLarge ==
    ASSUME NEW gap \in Seq(Gaps), NEW sep \in 1 .. Inside, NEW p, Whole(gap, p, sep),
           NEW size \in Nat, Length(p) > size,
           NEW k \in p.from .. p.to - 1, gap[k] <= sep \/ sep = Inside
    PROVE  Length(Enclosing(gap, k)) > size
<1>. DEFINE N == Len(gap) + 1
            kind == Min({gap[k], Inside})
            coarser == {j \in 1 .. Len(gap) : gap[j] < kind /\ ~Alone(gap, j)}
<1>1. /\ p.from \in 1 .. N /\ p.to \in 1 .. N /\ p.from <= p.to
      /\ N \in Nat /\ \A j \in 1 .. Len(gap) : gap[j] \in Int
  BY DEF Ranges, Whole, Gaps, Separators, Inside, Piece
<1>2. k \in 1 .. Len(gap) /\ gap[k] \in Int /\ k \in Int /\ k \in p.from .. p.to
  BY <1>1
<1>3. kind \in Int /\ kind <= sep
  <2>. DEFINE S == {gap[k], Inside}
  <2>1. S \subseteq Int /\ S # {} /\ Inside \in S /\ gap[k] \in S
    BY <1>2 DEF Inside
  <2>2. IsFiniteSet(S)
    <3>1. S = {gap[k]} \cup {Inside}
      OBVIOUS
    <3>. HIDE DEF S
    <3>. QED
      BY <3>1, FS_Singleton, FS_Union
  <2>. HIDE DEF S
  <2>3. Min(S) \in S /\ \A y \in S : Min(S) <= y
    BY <2>1, <2>2, Extremes
  <2>4. Min(S) \in Int /\ Min(S) <= Inside /\ Min(S) <= gap[k]
    BY <2>1, <2>3
  <2>. DEFINE m == Min(S)
  <2>. HIDE DEF m
  <2>5. m \in Int /\ m <= Inside /\ m <= gap[k] /\ sep \in Int
    BY <2>4 DEF m
  <2>6. m <= sep
    BY <1>2, <2>5 DEF Inside
  <2>7. m = kind
    BY DEF m, S
  <2>. QED
    BY <2>5, <2>6, <2>7
<1>. HIDE DEF kind
<1>4. Uncut(gap, p, coarser)
  <2>. SUFFICES ASSUME NEW j \in coarser PROVE j \notin p.from .. p.to - 1
    BY DEF Uncut
  <2>1. j \in 1 .. Len(gap) /\ gap[j] < kind /\ ~Alone(gap, j)
    OBVIOUS
  <2>. HIDE DEF coarser
  <2>2. gap[j] < sep
    <3>1. gap[j] \in Int /\ sep \in Int
      BY <1>1, <2>1
    <3>. QED
      BY <1>3, <2>1, <3>1
  <2>. QED
    BY <2>1, <2>2 DEF Whole
<1>6. Enclosing(gap, k) = Around(gap, coarser, k)
  BY DEF Enclosing, kind
<1>. HIDE DEF coarser
<1>7. p \in Ranges(gap)
  BY DEF Whole
<1>8. Length(Around(gap, coarser, k)) > size
  BY <1>2, <1>4, <1>7, AroundLarge
<1>. QED
  BY <1>6, <1>8

\* A part without separators is of one word, which is at least as large.
LEMMA WordLarge ==
    ASSUME NEW gap \in Seq(Gaps), NEW p, Whole(gap, p, Inside),
           NEW size \in Nat, Length(p) > size, NEW k \in p.from .. p.to
    PROVE  Length(WordAround(gap, k)) > size
<1>. DEFINE cuts == {j \in 1 .. Len(gap) : gap[j] \in Separators}
<1>1. Uncut(gap, p, cuts)
  BY DEF Uncut, Whole
<1>2. p \in Ranges(gap)
  BY DEF Whole
<1>3. WordAround(gap, k) = Around(gap, cuts, k)
  BY DEF WordAround
<1>. HIDE DEF cuts
<1>4. Length(Around(gap, cuts, k)) > size
  BY <1>1, <1>2, AroundLarge
<1>. QED
  BY <1>3, <1>4

\* The function that _recursive_split is, level by level.
Level(gap, unk, size, sep, finer) ==
    [p \in Ranges(gap) |->
        IF Length(p) <= size THEN {p}
        ELSE IF sep = Inside THEN HardSplit(p, size, unk)
        ELSE UNION {finer[q] : q \in Parts(gap, p, sep)}]
Levels(gap, unk, size, f) == [sep \in 1 .. Inside |-> Level(gap, unk, size, sep, f[sep + 1])]
Cuts(gap, unk, size) == CHOOSE f : f = Levels(gap, unk, size, f)

\* _recursive_split is the function whose levels are tied together.
LEMMA SplitIs ==
    ASSUME NEW gap, NEW unk, NEW size
    PROVE  Split(gap, unk, size) = InOrder(Cuts(gap, unk, size)[1][Between(1, Len(gap) + 1)])
BY DEF Split, Cuts, Levels, Level, Ranges

\* There is such a function: it is built from the finest separator up.
LEMMA CutsAre ==
    ASSUME NEW gap, NEW unk, NEW size
    PROVE  Cuts(gap, unk, size) = Levels(gap, unk, size, Cuts(gap, unk, size))
<1>. DEFINE l5 == Level(gap, unk, size, 5, 0)
            l4 == Level(gap, unk, size, 4, l5)
            l3 == Level(gap, unk, size, 3, l4)
            l2 == Level(gap, unk, size, 2, l3)
            l1 == Level(gap, unk, size, 1, l2)
            f == [sep \in 1 .. Inside |-> IF sep = 1 THEN l1 ELSE IF sep = 2 THEN l2
                                          ELSE IF sep = 3 THEN l3 ELSE IF sep = 4 THEN l4 ELSE l5]
<1>1. \A x : Level(gap, unk, size, 5, x) = l5
  BY DEF Level, Inside
<1>. HIDE DEF l5, l4, l3, l2, l1
<1>2. f[1] = l1 /\ f[2] = l2 /\ f[3] = l3 /\ f[4] = l4 /\ f[5] = l5
  BY DEF Inside
<1>3. /\ l4 = Level(gap, unk, size, 4, f[5]) /\ l3 = Level(gap, unk, size, 3, f[4])
      /\ l2 = Level(gap, unk, size, 2, f[3]) /\ l1 = Level(gap, unk, size, 1, f[2])
      /\ l5 = Level(gap, unk, size, 5, f[6])
  <2>1. l5 = Level(gap, unk, size, 5, f[6])
    BY <1>1
  <2>2. /\ l4 = Level(gap, unk, size, 4, l5) /\ l3 = Level(gap, unk, size, 3, l4)
        /\ l2 = Level(gap, unk, size, 2, l3) /\ l1 = Level(gap, unk, size, 1, l2)
    BY DEF l4, l3, l2, l1
  <2>. HIDE DEF f
  <2>. QED
    BY <1>2, <2>1, <2>2
<1>4. f = [sep \in 1 .. Inside |-> f[sep]]
  OBVIOUS
<1>. HIDE DEF f
<1>5. ASSUME NEW sep \in 1 .. Inside
      PROVE  f[sep] = Level(gap, unk, size, sep, f[sep + 1])
  <2>1. sep = 1 \/ sep = 2 \/ sep = 3 \/ sep = 4 \/ sep = 5
    BY DEF Inside
  <2>2. 1 + 1 = 2 /\ 2 + 1 = 3 /\ 3 + 1 = 4 /\ 4 + 1 = 5 /\ 5 + 1 = 6
    OBVIOUS
  <2>3. CASE sep = 1
    <3>1. sep + 1 = 2
      BY <2>3
    <3>. QED
      BY <1>2, <1>3, <2>3, <3>1
  <2>4. CASE sep = 2
    <3>1. sep + 1 = 3
      BY <2>4
    <3>. QED
      BY <1>2, <1>3, <2>4, <3>1
  <2>5. CASE sep = 3
    <3>1. sep + 1 = 4
      BY <2>5
    <3>. QED
      BY <1>2, <1>3, <2>5, <3>1
  <2>6. CASE sep = 4
    <3>1. sep + 1 = 5
      BY <2>6
    <3>. QED
      BY <1>2, <1>3, <2>6, <3>1
  <2>7. CASE sep = 5
    <3>1. sep + 1 = 6
      BY <2>7
    <3>. QED
      BY <1>2, <1>3, <2>7, <3>1
  <2>. QED
    BY <2>1, <2>3, <2>4, <2>5, <2>6, <2>7
<1>6. f = Levels(gap, unk, size, f)
  <2>1. [sep \in 1 .. Inside |-> f[sep]] = [sep \in 1 .. Inside |-> Level(gap, unk, size, sep, f[sep + 1])]
    BY <1>5
  <2>. QED
    BY <1>4, <2>1 DEF Levels
<1>. QED
  BY <1>6 DEF Cuts

\* What is cut as far as needed and no further: units of a part.
CutWell(gap, unk, size, p, units) ==
    /\ Apart(gap, p, units)
    /\ \A u \in units : Length(u) <= size
    /\ \A u \in units :
           \/ u.from = p.from
           \/ p.from < u.from /\ Length(Enclosing(gap, u.from - 1)) > size
    /\ \A k \in p.from .. p.to :
           \/ \E u \in units : k \in Text(gap, unk, u)
           \/ k < p.to /\ gap[k] = Sentence
           \/ k \in unk /\ Length(WordAround(gap, k)) > size

\* A part that fits is its own unit.
LEMMA WholeFits ==
    ASSUME NEW gap \in Seq(Gaps), NEW unk, NEW size \in Nat \ {0}, NEW sep,
           NEW p, Whole(gap, p, sep), Length(p) <= size
    PROVE  CutWell(gap, unk, size, p, {p})
<1>1. /\ p.from \in 1 .. Len(gap) + 1 /\ p.to \in 1 .. Len(gap) + 1 /\ p.from <= p.to
      /\ p \in Ranges(gap)
  BY DEF Whole, Ranges
<1>2. Apart(gap, p, {p})
  BY <1>1 DEF Apart
<1>3. Text(gap, unk, p) = p.from .. p.to
  BY DEF Text, Whole
<1>. QED
  BY <1>2, <1>3 DEF CutWell

\* A word above the budget is divided by a hard split alone.
LEMMA HardCutsWell ==
    ASSUME NEW gap \in Seq(Gaps), NEW unk, NEW size \in Nat \ {0},
           NEW p, Whole(gap, p, Inside), Length(p) > size
    PROVE  CutWell(gap, unk, size, p, HardSplit(p, size, unk))
<1>. DEFINE units == HardSplit(p, size, unk)
<1>1. /\ p.from \in 1 .. Len(gap) + 1 /\ p.to \in 1 .. Len(gap) + 1 /\ p.from <= p.to
      /\ p \in Ranges(gap) /\ Len(gap) \in Nat
  BY DEF Whole, Ranges
<1>2. /\ Apart(gap, p, units)
      /\ \A q \in units : Length(q) <= size
      /\ \A k \in (p.from .. p.to) \ unk : \E q \in units : k \in q.from .. q.to
  BY <1>1, HardSplitIs
<1>. HIDE DEF units
<1>3. ASSUME NEW u \in units, u.from # p.from
      PROVE  p.from < u.from /\ Length(Enclosing(gap, u.from - 1)) > size
  <2>1. p.from <= u.from /\ u.from <= u.to /\ u.to <= p.to /\ u.from \in 1 .. Len(gap) + 1
        /\ u.to \in 1 .. Len(gap) + 1
    BY <1>2 DEF Apart, Ranges
  <2>. DEFINE k == u.from - 1
  <2>2. k \in p.from .. p.to - 1 /\ p.from < u.from
    BY <1>1, <1>3, <2>1
  <2>. HIDE DEF k
  <2>. DEFINE sep == Inside
  <2>3. sep \in 1 .. Inside /\ Whole(gap, p, sep) /\ (gap[k] <= sep \/ sep = Inside)
    BY DEF Inside
  <2>. HIDE DEF sep
  <2>4. Length(Enclosing(gap, k)) > size
    BY <2>2, <2>3, EnclosingLarge
  <2>. QED
    BY <2>2, <2>4 DEF k
<1>4. ASSUME NEW k \in p.from .. p.to
      PROVE  \/ \E u \in units : k \in Text(gap, unk, u)
             \/ k \in unk /\ Length(WordAround(gap, k)) > size
  <2>1. CASE k \in unk
    BY <2>1, WordLarge
  <2>2. CASE k \notin unk
    <3>1. PICK u \in units : k \in u.from .. u.to
      BY <1>2, <2>2
    <3>2. k \in Text(gap, unk, u)
      BY <2>2, <3>1 DEF Text
    <3>. QED
      BY <3>2
  <2>. QED
    BY <2>1, <2>2
<1>5. CutWell(gap, unk, size, p, units)
  BY <1>2, <1>3, <1>4 DEF CutWell
<1>. QED
  BY <1>5 DEF units

\* Parts cut well, each by itself, make a part cut well.
LEMMA PartsCutWell ==
    ASSUME NEW gap \in Seq(Gaps), NEW unk, NEW size \in Nat \ {0}, NEW sep \in Separators,
           NEW p, Whole(gap, p, sep), Length(p) > size,
           NEW cut, \A q \in Parts(gap, p, sep) : CutWell(gap, unk, size, q, cut[q]),
           NEW units, units = UNION {cut[q] : q \in Parts(gap, p, sep)}
    PROVE  CutWell(gap, unk, size, p, units)
<1>. DEFINE parts == Parts(gap, p, sep)
<1>1. /\ p.from \in 1 .. Len(gap) + 1 /\ p.to \in 1 .. Len(gap) + 1 /\ p.from <= p.to
      /\ p \in Ranges(gap) /\ Len(gap) \in Nat /\ Begun(gap, p)
  BY DEF Whole, Ranges
<1>2. PartsRight(gap, p, sep, parts)
  BY <1>1, PartsAre
<1>3. \A q \in parts : CutWell(gap, unk, size, q, cut[q])
  OBVIOUS
<1>. HIDE DEF parts
<1>4. ASSUME NEW q \in parts
      PROVE  /\ q \in Ranges(gap) /\ p.from <= q.from /\ q.from <= q.to /\ q.to <= p.to
             /\ q.from \in 1 .. Len(gap) + 1 /\ q.to \in 1 .. Len(gap) + 1
  BY <1>2 DEF PartsRight, Apart, Ranges
<1>5. ASSUME NEW q \in parts, NEW u \in cut[q]
      PROVE  /\ u \in Ranges(gap) /\ q.from <= u.from /\ u.from <= u.to /\ u.to <= q.to
             /\ u.from \in 1 .. Len(gap) + 1 /\ u.to \in 1 .. Len(gap) + 1
             /\ Length(u) <= size
             /\ u.from = q.from \/ Length(Enclosing(gap, u.from - 1)) > size
  <2>1. CutWell(gap, unk, size, q, cut[q])
    BY <1>3
  <2>. QED
    BY <2>1 DEF CutWell, Apart, Ranges
<1>6. \A u \in units : \E q \in parts : u \in cut[q]
  BY DEF parts
<1>7. \A q \in parts : \A u \in cut[q] : u \in units
  BY DEF parts
<1>8. ASSUME NEW u \in units
      PROVE  /\ u \in Ranges(gap) /\ p.from <= u.from /\ u.from <= u.to /\ u.to <= p.to
             /\ Length(u) <= size
  <2>1. PICK q \in parts : u \in cut[q]
    BY <1>6
  <2>. QED
    BY <1>1, <1>4, <1>5, <2>1
<1>9. ASSUME NEW u \in units, NEW v \in units, u # v
      PROVE  u.to < v.from \/ v.to < u.from
  <2>1. PICK q \in parts : u \in cut[q]
    BY <1>6
  <2>2. PICK r \in parts : v \in cut[r]
    BY <1>6
  <2>3. CASE q = r
    <3>1. CutWell(gap, unk, size, q, cut[q])
      BY <1>3
    <3>. QED
      BY <1>9, <2>1, <2>2, <2>3, <3>1 DEF CutWell, Apart
  <2>4. CASE q # r
    <3>1. q.to < r.from \/ r.to < q.from
      BY <1>2, <2>4 DEF PartsRight, Apart
    <3>. QED
      BY <1>4, <1>5, <2>1, <2>2, <3>1
  <2>. QED
    BY <2>3, <2>4
<1>10. ASSUME NEW u \in units, u.from # p.from
       PROVE  p.from < u.from /\ Length(Enclosing(gap, u.from - 1)) > size
  <2>1. PICK q \in parts : u \in cut[q]
    BY <1>6
  <2>2. p.from < u.from
    BY <1>1, <1>4, <1>5, <1>10, <2>1
  <2>3. CASE u.from = q.from
    <3>. DEFINE k == q.from - 1
    <3>1. q.from # p.from /\ At(gap, k, sep)
      BY <1>2, <1>10, <2>3 DEF PartsRight
    <3>2. k \in p.from .. p.to - 1
      BY <1>1, <1>4, <3>1
    <3>. HIDE DEF k
    <3>3. gap[k] <= sep
      <4>1. gap[k] = sep \/ (sep = 4 /\ gap[k] = 3)
        BY <3>1 DEF At, Word, Sentence
      <4>2. sep \in Int
        BY DEF Separators
      <4>. QED
        BY <4>1, <4>2
    <3>4. sep \in 1 .. Inside
      BY DEF Separators, Inside
    <3>5. size \in Nat
      OBVIOUS
    <3>6. Length(Enclosing(gap, k)) > size
      BY <3>2, <3>3, <3>4, <3>5, EnclosingLarge
    <3>. QED
      BY <2>2, <2>3, <3>6 DEF k
  <2>4. CASE u.from # q.from
    BY <1>5, <2>1, <2>2, <2>4
  <2>. QED
    BY <2>3, <2>4
<1>11. ASSUME NEW k \in p.from .. p.to
       PROVE  \/ \E u \in units : k \in Text(gap, unk, u)
              \/ k < p.to /\ gap[k] = Sentence
              \/ k \in unk /\ Length(WordAround(gap, k)) > size
  <2>1. CASE \E q \in parts : k \in q.from .. q.to
    <3>1. PICK q \in parts : k \in q.from .. q.to
      BY <2>1
    <3>2. \/ \E u \in cut[q] : k \in Text(gap, unk, u)
          \/ k < q.to /\ gap[k] = Sentence
          \/ k \in unk /\ Length(WordAround(gap, k)) > size
      BY <1>3, <3>1 DEF CutWell
    <3>3. k < q.to => k < p.to
      BY <1>1, <1>4
    <3>. QED
      BY <1>7, <3>2, <3>3
  <2>2. CASE ~\E q \in parts : k \in q.from .. q.to
    BY <1>2, <2>2 DEF PartsRight
  <2>. QED
    BY <2>1, <2>2
<1>12. Apart(gap, p, units)
  BY <1>8, <1>9 DEF Apart
<1>. QED
  BY <1>8, <1>10, <1>11, <1>12 DEF CutWell

\* From the finest level to the coarsest, what is whole is cut well.
LEMMA CutsWell ==
    ASSUME NEW gap \in Seq(Gaps), NEW unk, NEW size \in Nat \ {0}
    PROVE  \A p \in Ranges(gap) : Whole(gap, p, 1) => CutWell(gap, unk, size, p, Cuts(gap, unk, size)[1][p])
<1>. DEFINE cuts == Cuts(gap, unk, size)
            Good(sep) == \A p \in Ranges(gap) : Whole(gap, p, sep) => CutWell(gap, unk, size, p, cuts[sep][p])
<1>1. \A sep \in 1 .. Inside : cuts[sep] = Level(gap, unk, size, sep, cuts[sep + 1])
  <2>. HIDE DEF cuts
  <2>1. cuts = Levels(gap, unk, size, cuts)
    BY CutsAre DEF cuts
  <2>. QED
    BY <2>1 DEF Levels
<1>. HIDE DEF cuts
<1>2. ASSUME NEW sep \in 1 .. Inside, NEW p \in Ranges(gap), Whole(gap, p, sep), Length(p) <= size
      PROVE  CutWell(gap, unk, size, p, cuts[sep][p])
  <2>1. cuts[sep][p] = {p}
    BY <1>1, <1>2 DEF Level
  <2>2. CutWell(gap, unk, size, p, {p})
    BY <1>2, WholeFits
  <2>. QED
    BY <2>1, <2>2
<1>3. \A p \in Ranges(gap) : ~(Length(p) <= size) => Length(p) > size
  BY DEF Length, Ranges
<1>4. ASSUME NEW finest, finest = Inside
      PROVE  Good(finest)
  <2>. SUFFICES ASSUME NEW p \in Ranges(gap), Whole(gap, p, finest)
                PROVE  CutWell(gap, unk, size, p, cuts[finest][p])
    OBVIOUS
  <2>0. finest \in 1 .. Inside
    BY <1>4 DEF Inside
  <2>1. CASE Length(p) <= size
    BY <1>2, <2>0, <2>1
  <2>2. CASE ~(Length(p) <= size)
    <3>1. cuts[finest][p] = HardSplit(p, size, unk)
      BY <1>1, <1>4, <2>0, <2>2 DEF Level
    <3>2. CutWell(gap, unk, size, p, HardSplit(p, size, unk))
      BY <1>3, <1>4, <2>2, HardCutsWell
    <3>. QED
      BY <3>1, <3>2
  <2>. QED
    BY <2>1, <2>2
<1>5. ASSUME NEW sep \in Separators, NEW next, next = sep + 1, Good(next)
      PROVE  Good(sep)
  <2>. SUFFICES ASSUME NEW p \in Ranges(gap), Whole(gap, p, sep)
                PROVE  CutWell(gap, unk, size, p, cuts[sep][p])
    OBVIOUS
  <2>1. sep \in 1 .. Inside /\ sep # Inside
    BY DEF Separators, Inside
  <2>2. CASE Length(p) <= size
    BY <1>2, <2>1, <2>2
  <2>3. CASE ~(Length(p) <= size)
    <3>. DEFINE cut == cuts[next]
    <3>1. cuts[sep][p] = UNION {cut[q] : q \in Parts(gap, p, sep)}
      <4>1. cuts[sep] = Level(gap, unk, size, sep, cut)
        BY <1>1, <1>5, <2>1
      <4>. HIDE DEF cut
      <4>. QED
        BY <2>1, <2>3, <4>1 DEF Level
    <3>2. ASSUME NEW q \in Parts(gap, p, sep)
          PROVE  CutWell(gap, unk, size, q, cut[q])
      <4>1. Whole(gap, q, next)
        BY <1>5, PartsWhole
      <4>2. q \in Ranges(gap)
        BY <4>1 DEF Whole
      <4>. QED
        BY <1>5, <4>1, <4>2
    <3>. HIDE DEF cut
    <3>. DEFINE units == cuts[sep][p]
    <3>3. \A q \in Parts(gap, p, sep) : CutWell(gap, unk, size, q, cut[q])
      BY <3>2
    <3>4. Length(p) > size /\ units = UNION {cut[q] : q \in Parts(gap, p, sep)}
      BY <1>3, <2>3, <3>1
    <3>. HIDE DEF units
    <3>5. CutWell(gap, unk, size, p, units)
      BY <3>3, <3>4, PartsCutWell
    <3>. QED
      BY <3>5 DEF units
  <2>. QED
    BY <2>2, <2>3
<1>6. Good(1)
  <2>. HIDE DEF Good
  <2>5. Good(5)
    BY <1>4 DEF Inside
  <2>0. 1 \in Separators /\ 2 \in Separators /\ 3 \in Separators /\ 4 \in Separators
        /\ 2 = 1 + 1 /\ 3 = 2 + 1 /\ 4 = 3 + 1 /\ 5 = 4 + 1
    BY DEF Separators
  <2>4. Good(4)
    BY <1>5, <2>0, <2>5
  <2>3. Good(3)
    BY <1>5, <2>0, <2>4
  <2>2. Good(2)
    BY <1>5, <2>0, <2>3
  <2>. QED
    BY <1>5, <2>0, <2>2
<1>. QED
  BY <1>6 DEF cuts

\* What InOrder makes of parts that lie apart: their list, one after another.
Listed(s, parts) ==
    /\ s \in Seq(parts)
    /\ \A u \in parts : \E i \in 1 .. Len(s) : s[i] = u
    /\ \A i \in 2 .. Len(s) : s[i - 1].to < s[i].from

\* The list of parts that lie apart holds each of them, one after another.
LEMMA InOrderLists ==
    ASSUME NEW gap \in Seq(Gaps), NEW p \in Ranges(gap), NEW parts, Apart(gap, p, parts)
    PROVE  Listed(InOrder(parts), parts)
<1>. DEFINE key == [u \in parts |-> u.from]
            place == [u \in parts |-> Cardinality({v \in parts : key[v] <= key[u]})]
            n == Cardinality(parts)
            s == InOrder(parts)
<1>1. IsFiniteSet(parts) /\ \A u \in parts : u \in Ranges(gap)
  <2>1. parts \in SUBSET Ranges(gap)
    BY DEF Apart
  <2>. QED
    BY <2>1, RangesFinite, FS_Subset
<1>2. /\ \A u \in parts : key[u] = u.from /\ u.from \in Int /\ u.to \in Int /\ u.from <= u.to
      /\ key \in [parts -> Int]
  <2>1. \A u \in parts : u.from \in Int /\ u.to \in Int /\ u.from <= u.to
    BY <1>1 DEF Apart, Ranges
  <2>. QED
    BY <2>1
<1>3. \A u, v \in parts : key[u] = key[v] => u = v
  <2>. SUFFICES ASSUME NEW u \in parts, NEW v \in parts, key[u] = key[v], u # v PROVE FALSE
    OBVIOUS
  <2>1. u.to < v.from \/ v.to < u.from
    BY DEF Apart
  <2>2. u.from = v.from
    BY <1>2
  <2>. QED
    BY <1>2, <2>1, <2>2
<1>4. s = [i \in 1 .. n |-> CHOOSE u \in parts : place[u] = i]
  <2>1. \A u \in parts : {v \in parts : v.from <= u.from} = {v \in parts : key[v] <= key[u]}
    OBVIOUS
  <2>. DEFINE P(u) == {v \in parts : v.from <= u.from}
  <2>2. \A u \in parts : place[u] = Cardinality(P(u))
    BY <2>1
  <2>3. InOrder(parts) = [i \in 1 .. n |-> CHOOSE u \in parts : Cardinality(P(u)) = i]
    BY DEF InOrder
  <2>. HIDE DEF place, P, n
  <2>4. \A i : (CHOOSE u \in parts : Cardinality(P(u)) = i) = CHOOSE u \in parts : place[u] = i
    BY <2>2
  <2>. QED
    BY <2>3, <2>4
<1>5. place = [u \in parts |-> Cardinality({v \in parts : key[v] <= key[u]})]
  OBVIOUS
<1>. HIDE DEF key, place, s
<1>6. /\ n \in Nat
      /\ \A i \in 1 .. n : \E u \in parts : place[u] = i
      /\ \A u \in parts : place[u] \in 1 .. n
      /\ \A u, v \in parts : place[u] < place[v] <=> key[u] < key[v]
  <2>1. IsFiniteSet(parts) /\ key \in [parts -> Int]
    BY <1>1, <1>2
  <2>2. \A u \in parts : place[u] \in 1 .. n
    BY <1>3, <1>5, <2>1, PlacesInOrder
  <2>3. \A i \in 1 .. n : \E u \in parts : place[u] = i
    <3>1. Filled(place, parts)
      BY <1>3, <1>5, <2>1, PlacesInOrder
    <3>. QED
      BY <3>1 DEF Filled
  <2>4. \A u, v \in parts : place[u] < place[v] <=> key[u] < key[v]
    BY <1>3, <1>5, <2>1, PlacesInOrder
  <2>5. n \in Nat
    BY <2>1, FS_CardinalityType
  <2>. QED
    BY <2>2, <2>3, <2>4, <2>5
<1>. HIDE DEF n
<1>7. ASSUME NEW i \in 1 .. n
      PROVE  s[i] \in parts /\ place[s[i]] = i
  <2>1. \E u \in parts : place[u] = i
    BY <1>6
  <2>2. s[i] = CHOOSE u \in parts : place[u] = i
    BY <1>4
  <2>. QED
    BY <2>1, <2>2
<1>8. s \in Seq(parts) /\ Len(s) = n
  <2>1. s \in [1 .. n -> parts]
    BY <1>4, <1>7
  <2>. QED
    BY <1>6, <2>1
<1>9. ASSUME NEW u \in parts PROVE \E i \in 1 .. Len(s) : s[i] = u
  <2>. DEFINE i == place[u]
  <2>1. i \in 1 .. n
    BY <1>6
  <2>. HIDE DEF i
  <2>2. s[i] \in parts /\ place[s[i]] = i
    BY <1>7, <2>1
  <2>. DEFINE v == s[i]
  <2>3. v \in parts /\ place[v] = place[u]
    BY <2>2 DEF i
  <2>. HIDE DEF v
  <2>4. place[u] \in Int
    BY <1>6
  <2>5. ~(key[u] < key[v]) /\ ~(key[v] < key[u])
    BY <1>6, <2>3, <2>4
  <2>6. key[u] = key[v]
    <3>1. key[u] \in Int /\ key[v] \in Int
      BY <1>2, <2>3
    <3>. QED
      BY <2>5, <3>1
  <2>7. u = v
    BY <1>3, <2>3, <2>6
  <2>. QED
    BY <1>8, <2>1, <2>7 DEF v
<1>10. ASSUME NEW i \in 2 .. Len(s) PROVE s[i - 1].to < s[i].from
  <2>. DEFINE j == i - 1  u == s[j]  v == s[i]
  <2>1. i \in 1 .. n /\ j \in 1 .. n /\ j < i
    BY <1>6, <1>8
  <2>2. u \in parts /\ v \in parts /\ place[u] = j /\ place[v] = i
    <3>. HIDE DEF j
    <3>. QED
      BY <1>7, <2>1
  <2>. HIDE DEF j, u, v
  <2>3. key[u] < key[v] /\ u # v
    BY <1>6, <2>1, <2>2
  <2>4. u.to < v.from \/ v.to < u.from
    BY <2>2, <2>3 DEF Apart
  <2>5. u.from < v.from
    BY <1>2, <2>2, <2>3
  <2>6. u.to < v.from
    BY <1>2, <2>2, <2>4, <2>5
  <2>. QED
    BY <2>6 DEF u, v, j
<1>11. Listed(s, parts)
  BY <1>8, <1>9, <1>10 DEF Listed
<1>. QED
  BY <1>11 DEF s

\* What a text is cut into, as SplitAsNeeded asks for it.
SegmentRight(x) ==
    LET units == x.units
    IN  /\ \A i \in 1 .. Len(units) : Length(units[i]) \in 1 .. ChunkSize
        /\ \A i \in 2 .. Len(units) :
              /\ units[i - 1].to < units[i].from
              /\ Length(Enclosing(x.gap, units[i].from - 1)) > ChunkSize
        /\ \A k \in 1 .. x.length :
              \/ \E i \in 1 .. Len(units) : k \in Text(x.gap, x.unknown, units[i])
              \/ k < x.length /\ x.gap[k] = Sentence
              \/ k \in x.unknown /\ Length(WordAround(x.gap, k)) > ChunkSize

\* Every text is cut as far as needed and no further (_split_segment).
LEMMA SegmentIsRight ==
    ASSUME NEW gap \in Seq(Gaps), NEW unk
    PROVE  SegmentRight(Segment(gap, unk))
<1>. DEFINE N == Len(gap) + 1
            p == Between(1, N)
            parts == Cuts(gap, unk, ChunkSize)[1][p]
            x == Segment(gap, unk)
            units == x.units
<1>1. ChunkSize \in Nat \ {0}
  BY SizesAssumption
<1>2. N \in Nat /\ N >= 1 /\ p.from = 1 /\ p.to = N /\ p \in Ranges(gap)
  BY DEF Between, Ranges
<1>3. /\ x.units = Split(gap, unk, ChunkSize) /\ x.length = N /\ x.gap = gap
      /\ x.unknown = unk
  BY DEF Segment
<1>. HIDE DEF x, N, p
<1>4. Whole(gap, p, 1)
  <2>1. \A j \in p.from .. p.to - 1 : ~(gap[j] < 1)
    <3>. SUFFICES ASSUME NEW j \in p.from .. p.to - 1 PROVE ~(gap[j] < 1)
      OBVIOUS
    <3>1. j \in 1 .. Len(gap)
      BY <1>2 DEF N
    <3>2. gap[j] \in Gaps
      BY <3>1
    <3>. QED
      BY <3>2 DEF Gaps, Separators, Inside, Piece
  <2>. QED
    BY <1>2, <2>1 DEF Whole, Begun, Ended, Inside, N
<1>5. CutWell(gap, unk, ChunkSize, p, parts)
  <2>. DEFINE size == ChunkSize
  <2>1. size \in Nat \ {0}
    BY <1>1
  <2>. HIDE DEF size
  <2>2. CutWell(gap, unk, size, p, Cuts(gap, unk, size)[1][p])
    BY <1>2, <1>4, <2>1, CutsWell
  <2>. QED
    BY <2>2 DEF size
<1>6. units = InOrder(parts)
  BY <1>3, SplitIs DEF p, N
<1>. HIDE DEF parts, units
<1>7. Listed(units, parts)
  <2>1. Apart(gap, p, parts)
    BY <1>5 DEF CutWell
  <2>. QED
    BY <1>2, <1>6, <2>1, InOrderLists
<1>8. ASSUME NEW i \in 1 .. Len(units)
      PROVE  /\ units[i] \in parts /\ units[i].from \in Int /\ units[i].to \in Int
             /\ Length(units[i]) \in 1 .. ChunkSize /\ units[i].from <= units[i].to
             /\ 1 <= units[i].from
  <2>. DEFINE u == units[i]
  <2>1. u \in parts
    BY <1>7 DEF Listed
  <2>. HIDE DEF u
  <2>2. /\ u \in Ranges(gap) /\ u.from <= u.to /\ Length(u) <= ChunkSize
    BY <1>5, <2>1 DEF CutWell, Apart
  <2>3. u.from \in 1 .. Len(gap) + 1 /\ u.to \in 1 .. Len(gap) + 1
    BY <2>2 DEF Ranges
  <2>4. Length(u) \in 1 .. ChunkSize
    BY <1>1, <2>2, <2>3 DEF Length
  <2>. QED
    BY <2>1, <2>2, <2>3, <2>4 DEF u
<1>9. ASSUME NEW i \in 2 .. Len(units)
      PROVE  /\ units[i - 1].to < units[i].from
             /\ Length(Enclosing(gap, units[i].from - 1)) > ChunkSize
  <2>. DEFINE j == i - 1  u == units[j]  v == units[i]
  <2>0. Len(units) \in Nat
    BY <1>7 DEF Listed
  <2>1. j \in 1 .. Len(units) /\ i \in 1 .. Len(units)
    BY <2>0
  <2>2. u.to < v.from
    BY <1>7 DEF Listed
  <2>. HIDE DEF j
  <2>3. /\ u.from \in Int /\ u.to \in Int /\ u.from <= u.to /\ 1 <= u.from
        /\ v \in parts /\ v.from \in Int
    BY <1>8, <2>1
  <2>. HIDE DEF u, v
  <2>4. v.from # p.from
    BY <1>2, <2>2, <2>3
  <2>5. Length(Enclosing(gap, v.from - 1)) > ChunkSize
    BY <1>5, <2>3, <2>4 DEF CutWell
  <2>. QED
    BY <2>2, <2>5 DEF u, v, j
<1>10. ASSUME NEW k \in 1 .. N
       PROVE  \/ \E i \in 1 .. Len(units) : k \in Text(gap, unk, units[i])
              \/ k < N /\ gap[k] = Sentence
              \/ k \in unk /\ Length(WordAround(gap, k)) > ChunkSize
  <2>1. k \in p.from .. p.to
    BY <1>2
  <2>2. CASE \E u \in parts : k \in Text(gap, unk, u)
    BY <1>7, <2>2 DEF Listed
  <2>3. CASE ~\E u \in parts : k \in Text(gap, unk, u)
    BY <1>2, <1>5, <2>1, <2>3 DEF CutWell
  <2>. QED
    BY <2>2, <2>3
<1>11. SegmentRight(x)
  BY <1>3, <1>8, <1>9, <1>10 DEF SegmentRight, units
<1>. QED
  BY <1>11 DEF x

\* ... and a blank one is not cut.
LEMMA BlankIsRight == SegmentRight(BlankSegment)
<1>1. /\ BlankSegment.units = <<>> /\ BlankSegment.length = 0 /\ Len(<<>>) = 0
  BY DEF BlankSegment
<1>2. 1 .. 0 = {} /\ 2 .. 0 = {}
  OBVIOUS
<1>. QED
  BY <1>1, <1>2 DEF SegmentRight

\* Every segment is a text, cut by Segment, or blank, and never changes.
LEMMA SegmentsRight == ChunkersSpec => []SegmentRight(input)
<1>1. ChunkersInit => SegmentRight(input)
  <2>. SUFFICES ASSUME ChunkersInit PROVE SegmentRight(input)
    OBVIOUS
  <2>1. input \in Inputs \/ input = BlankSegment
    BY DEF ChunkersInit
  <2>2. \/ input = BlankSegment
        \/ input.gap \in Seq(Gaps) /\ input = Segment(input.gap, input.unknown)
    BY <2>1, SegmentsAssumption
  <2>. QED
    <3>. DEFINE gap == input.gap  unk == input.unknown
    <3>1. CASE gap \in Seq(Gaps) /\ input = Segment(gap, unk)
      <4>. HIDE DEF gap, unk
      <4>1. SegmentRight(Segment(gap, unk))
        BY <3>1, SegmentIsRight
      <4>. QED
        BY <3>1, <4>1
    <3>. QED
      BY <2>2, <3>1, BlankIsRight
<1>2. SegmentRight(input) /\ [ChunkersNext]_chunkersVars => SegmentRight(input)'
  <2>. SUFFICES ASSUME SegmentRight(input), [ChunkersNext]_chunkersVars PROVE SegmentRight(input)'
    OBVIOUS
  <2>1. input' = input
    BY DEF ChunkersNext, chunkersVars, recursiveVars, vars, Next, Take, Close, Carry, Reopen, Flush
  <2>. QED
    BY <2>1 DEF SegmentRight
<1>. QED
  BY <1>1, <1>2, PTL DEF ChunkersSpec

\* A text is cut as far as the budget asks and no further, and its units lose
\* only periods of sentences and, of words above the budget, tokens that decode to
\* nothing (_recursive_split, _hard_token_split).
THEOREM SplitsAsNeeded == ChunkersSpec => []SplitAsNeeded
<1>1. SegmentRight(input) => SplitAsNeeded
  BY DEF SegmentRight, SplitAsNeeded
<1>. QED
  BY <1>1, SegmentsRight, PTL
=============================================================================
