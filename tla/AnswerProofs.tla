---------------------------- MODULE AnswerProofs ----------------------------
(* Theorems about Answer, for all rankings, scores and completions. *)
EXTENDS Answer, FusionProofs

\* The scored context in hand: best first.
ContextInv ==
    /\ Len(reranked) \in Nat
    /\ \A i \in 1 .. Len(reranked) :
        reranked[i].score \in Nat /\ reranked[i].score <= reranked[1].score

Strong(sources) == \E i \in 1 .. Len(sources) : sources[i].score >= Threshold

\* Where the handler is: the LLM is not called before the gate has passed the
\* context, and the draft is grounded in it.
ControlInv ==
    /\ pc \in {"idle", "retrieve", "rerank", "gate", "generate", "reply"}
    /\ pc = "rerank" => Len(candidates) \in Nat
    /\ pc \in {"gate", "generate", "reply"} => ContextInv
    /\ pc \in {"retrieve", "rerank", "gate", "generate"} => ~called
    /\ pc = "generate" => Passes
    /\ pc = "reply" =>
        /\ called => Passes
        /\ ~draft.refused => called
        /\ draft.sources = reranked
        /\ Grounded(draft)

\* What the client has been sent.
ReplyInv ==
    /\ pc # "idle" => reply.status = 0
    /\ reply.status = 200 =>
        /\ ~reply.body.refused => called
        /\ called => Strong(reply.body.sources)
        /\ Grounded(reply.body)

CountersInv ==
    /\ metrics \in [total : Nat, success : Nat, error : Nat, timed : Nat]
    /\ sent \in [{200, 400, 502} -> Nat]
    /\ EveryReplyCounted

IInv == ControlInv /\ ReplyInv /\ CountersInv

\* A ranking is a list of distinct chunks, no longer than asked for.
LEMMA RankingsRanked ==
    ASSUME NEW r \in Rankings
    PROVE  /\ Distinct(r) /\ r \in Seq(Chunks)
           /\ Len(r) \in 0 .. CandidateK
           /\ Items(r) \subseteq Chunks
<1>1. PICK m \in 0 .. CandidateK :
        r \in {q \in [1 .. m -> Chunks] : \A i, j \in 1 .. m : q[i] = q[j] => i = j}
  BY DEF Rankings
<1>2. m \in Nat /\ Len(r) = m /\ r \in [1 .. m -> Chunks]
  BY <1>1, LimitsAssumption
<1>3. r \in Seq(Chunks)
  BY <1>2
<1> QED
  BY <1>1, <1>2, <1>3 DEF Distinct, Items

\* What the retrievers deliver: the dense ranking, in hybrid mode also the
\* sparse one.
LEMMA ListsRanked ==
    ASSUME NEW ls, NEW dense \in Rankings, NEW sparse \in Rankings,
           ls = <<dense>> \/ ls = <<dense, sparse>>
    PROVE  /\ RankedLists(ls) /\ ls \in Seq(Seq(Chunks))
           /\ Found(ls) \subseteq Chunks
           /\ \A i \in 1 .. Len(ls) : Len(ls[i]) <= CandidateK
<1>1. /\ Len(ls) \in {1, 2}
      /\ \A i \in 1 .. Len(ls) : ls[i] = dense \/ ls[i] = sparse
  <2>1. CASE ls = <<dense>>
    <3>1. Len(ls) = 1 /\ ls[1] = dense /\ \A i \in 1 .. 1 : i = 1
      BY <2>1
    <3> QED
      BY <3>1
  <2>2. CASE ls = <<dense, sparse>>
    <3>1. Len(ls) = 2 /\ ls[1] = dense /\ ls[2] = sparse /\ \A i \in 1 .. 2 : i = 1 \/ i = 2
      BY <2>2
    <3> QED
      BY <3>1
  <2> QED
    BY <2>1, <2>2
<1>2. ls \in Seq(Seq(Chunks))
  <2> DEFINE SC == Seq(Chunks)
  <2>1. dense \in SC /\ sparse \in SC
    BY RankingsRanked
  <2> HIDE DEF SC
  <2>2. <<dense>> \in Seq(SC) /\ <<dense, sparse>> \in Seq(SC)
    BY <2>1
  <2> QED
    BY <2>2 DEF SC
<1>3. \A i \in 1 .. Len(ls) : /\ Distinct(ls[i]) /\ Items(ls[i]) \subseteq Chunks
                              /\ Len(ls[i]) <= CandidateK
  <2>1. \A r \in Rankings : Len(r) <= CandidateK
    BY RankingsRanked, LimitsAssumption
  <2> QED
    BY <1>1, <2>1, RankingsRanked
<1>4. RankedLists(ls)
  BY <1>1, <1>3 DEF RankedLists
<1> QED
  BY <1>2, <1>3, <1>4 DEF Found

\* Retrieval delivers a list of distinct chunks that the retrievers found, as
\* long as there is room, and in the order the fused lists agree on.
LEMMA RetrieveDelivers ==
    ASSUME Retrieve
    PROVE  /\ lists' \in Seq(Seq(Chunks)) /\ retrieved' \subseteq Chunks
           /\ candidates' \in Seq(Chunks) /\ Distinct(candidates')
           /\ Items(candidates') \subseteq retrieved'
           /\ FusionRespectsRankings' /\ AgreementWins'
<1>1. /\ pc' = "rerank" /\ retrieved' = Found(lists')
      /\ \E dense \in Rankings, sparse \in Rankings :
            \/ lists' = <<dense>> /\ candidates' = dense
            \/ lists' = <<dense, sparse>> /\ candidates' = Fuse(<<dense, sparse>>, RrfK, CandidateK)
  BY DEF Retrieve
<1>2. PICK dense \in Rankings, sparse \in Rankings :
        \/ lists' = <<dense>> /\ candidates' = dense
        \/ lists' = <<dense, sparse>> /\ candidates' = Fuse(<<dense, sparse>>, RrfK, CandidateK)
  BY <1>1
<1>3. /\ RankedLists(lists') /\ lists' \in Seq(Seq(Chunks)) /\ Found(lists') \subseteq Chunks
      /\ \A i \in 1 .. Len(lists') : Len(lists'[i]) <= CandidateK
  BY <1>2, ListsRanked
<1>4. RrfK \in Nat /\ CandidateK \in Nat \ {0}
  BY LimitsAssumption
<1>5. CASE lists' = <<dense>> /\ candidates' = dense
  <2>1. Len(lists') = 1 /\ lists'[1] = dense /\ \A i \in 1 .. 1 : i = 1
    BY <1>5
  <2>2. Found(lists') = Items(dense)
    <3>1. \A c : c \in Found(lists') <=> \E i \in 1 .. Len(lists') : c \in Items(lists'[i])
      BY DEF Found
    <3>2. \A c : c \in Found(lists') <=> c \in Items(dense)
      BY <2>1, <3>1
    <3> QED
      BY <3>2
  <2>3. /\ Distinct(dense) /\ dense \in Seq(Chunks)
        /\ Len(dense) \in 0 .. CandidateK /\ Cardinality(Items(dense)) = Len(dense)
    BY RankingsRanked, ItemsCounted
  <2>4. Len(candidates') = Top(CandidateK, Cardinality(retrieved'))
    BY <1>1, <1>4, <1>5, <2>2, <2>3 DEF Top
  <2>5. FusionRespectsRankings'
    <3>1. \A c, d : (\E i \in 1 .. Len(lists') : Above(lists'[i], c, d)) => Above(candidates', c, d)
      BY <1>5, <2>1
    <3> QED
      BY <1>5, <2>3, <2>4, <3>1 DEF FusionRespectsRankings
  <2>6. AgreementWins'
    <3>1. \A c, d : (\A i \in 1 .. Len(lists') : c \in Items(lists'[i])) => 
                        \A i \in 1 .. Len(lists') : d \in retrieved' => d \in Items(lists'[i])
      BY <1>1, <2>1, <2>2
    <3> QED
      BY <3>1 DEF AgreementWins
  <2> QED
    BY <1>1, <1>3, <1>5, <2>2, <2>3, <2>5, <2>6
<1>6. CASE lists' = <<dense, sparse>> /\ candidates' = Fuse(<<dense, sparse>>, RrfK, CandidateK)
  <2> DEFINE fused == Fuse(lists', RrfK, CandidateK)
             met == Cardinality(Found(lists'))
  <2>1. candidates' = fused
    BY <1>6
  <2> HIDE DEF fused
  <2>2. /\ met \in Nat
        /\ Len(fused) = (IF met < CandidateK THEN met ELSE CandidateK)
        /\ fused \in [1 .. IF met < CandidateK THEN met ELSE CandidateK -> Found(lists')]
        /\ Distinct(fused) /\ Items(fused) \subseteq Found(lists')
        /\ \A c, d \in Found(lists') : Beats(lists', RrfK, c, d) =>
             Above(fused, c, d) \/ {c, d} \cap Items(fused) = {}
    BY <1>3, <1>4, FuseIs DEF fused
  <2>3. Len(candidates') = Top(CandidateK, Cardinality(retrieved'))
    BY <1>1, <1>4, <2>1, <2>2 DEF Top
  <2>4. candidates' \in Seq(Chunks)
    <3> DEFINE n == IF met < CandidateK THEN met ELSE CandidateK
    <3>1. n \in Nat /\ fused \in [1 .. n -> Chunks]
      BY <1>3, <1>4, <2>2
    <3> HIDE DEF n
    <3> QED
      BY <2>1, <3>1
  <2>5. ASSUME NEW c \in retrieved', NEW d \in retrieved',
               \A i \in 1 .. Len(lists') : d \in Items(lists'[i]) => Above(lists'[i], c, d),
               \E i \in 1 .. Len(lists') : Above(lists'[i], c, d)
        PROVE  Above(candidates', c, d) \/ {c, d} \cap Items(candidates') = {}
    <3>1. \A i \in Has(lists', d) : i \in Has(lists', c) /\ Rank(lists'[i], c) < Rank(lists'[i], d)
      BY <2>5 DEF Has, Above
    <3>2. \A i \in Has(lists', d) : Rank(lists'[i], c) <= Rank(lists'[i], d)
      <4>1. \A i \in Has(lists', d) : Rank(lists'[i], c) \in Nat /\ Rank(lists'[i], d) \in Nat
        <5>1. \A i \in Has(lists', d) : /\ Rank(lists'[i], c) \in 1 .. Longest(lists')
                                        /\ Rank(lists'[i], d) \in 1 .. Longest(lists')
                                        /\ Longest(lists') \in Nat
          BY <1>3, <3>1, RankBounded
        <5> QED
          BY <5>1
      <4> QED
        BY <3>1, <4>1
    <3>3. \/ Has(lists', d) # Has(lists', c)
          \/ \E i \in Has(lists', d) : Rank(lists'[i], c) < Rank(lists'[i], d)
      BY <2>5, <3>1 DEF Has, Above
    <3>4. Score(lists', RrfK, d) < Score(lists', RrfK, c)
      BY <1>3, <1>4, <3>1, <3>2, <3>3, ScoreDominates
    <3> QED
      BY <1>1, <2>1, <2>2, <3>4 DEF Beats
  <2>6. FusionRespectsRankings'
    BY <2>1, <2>2, <2>3, <2>5, ItemsCounted DEF FusionRespectsRankings
  <2>7. ASSUME CandidateK <= RrfK + 1, NEW c \in retrieved', NEW d \in retrieved',
               \A i \in 1 .. Len(lists') : c \in Items(lists'[i]),
               NEW e \in 1 .. Len(lists'), d \notin Items(lists'[e])
        PROVE  Above(candidates', c, d) \/ {c, d} \cap Items(candidates') = {}
    <3>1. Len(lists') = 2
      BY <1>6
    <3>2. 1 .. Len(lists') = {1, 2}
      BY <3>1
    <3>3. Has(lists', c) = {1, 2}
      BY <2>7, <3>2 DEF Has
    <3>4. PICK j : Has(lists', d) = {j}
      <4>1. Has(lists', d) # {} /\ Has(lists', d) \subseteq {1, 2} /\ e \in {1, 2} /\ e \notin Has(lists', d)
        BY <1>1, <1>3, <2>7, <3>2, FoundFinite DEF Has
      <4> QED
        BY <4>1
    <3>5. Longest(lists') <= RrfK + 1
      <4>1. Longest(lists') <= CandidateK
        BY <1>1, <1>3, <1>4, LongestBounded
      <4>2. Longest(lists') \in Nat
        <5>1. 1 \in Has(lists', c)
          BY <3>3
        <5> QED
          BY <1>3, <5>1, RankBounded
      <4> QED
        BY <1>4, <2>7, <4>1, <4>2
    <3>6. Score(lists', RrfK, d) < Score(lists', RrfK, c)
      BY <1>3, <1>4, <3>3, <3>4, <3>5, BothBeatOne
    <3> QED
      BY <1>1, <2>1, <2>2, <3>6 DEF Beats
  <2>8. AgreementWins'
    BY <2>7 DEF AgreementWins
  <2> QED
    BY <1>1, <1>3, <2>1, <2>2, <2>4, <2>6, <2>8
<1> QED
  BY <1>2, <1>5, <1>6

\* The part of an answer that is covered is no more than all of it.
LEMMA CoverageBounded ==
    ASSUME NEW x \in Completions
    PROVE  /\ Covered(x) \in 0 .. Len(x.sentences)
           /\ Covered(x) > 0 <=> Cited(x) # {}
<1> DEFINE valid == {k \in 1 .. Len(x.sentences) : x.sentences[k] \cap 1 .. Len(reranked) # {}}
<1>1. Len(x.sentences) \in Nat
  BY CompletionsAssumption
<1>2. IsFiniteSet(1 .. Len(x.sentences)) /\ Cardinality(1 .. Len(x.sentences)) = Len(x.sentences)
  BY <1>1, FS_Interval
<1>3. IsFiniteSet(valid) /\ Cardinality(valid) <= Len(x.sentences)
  BY <1>2, FS_Subset
<1>4. Cardinality(valid) \in Nat
  BY <1>3, FS_CardinalityType
<1>5. Cardinality(valid) = 0 <=> valid = {}
  BY <1>3, FS_EmptySet
<1>6. Cited(x) # {} <=> valid # {}
  <2>1. \A i : i \in UNION Items(x.sentences) <=>
                \E k \in 1 .. Len(x.sentences) : i \in x.sentences[k]
    BY DEF Items
  <2>2. Cited(x) # {} <=> (UNION Items(x.sentences)) \cap 1 .. Len(reranked) # {}
    BY DEF Cited
  <2>3. valid # {} <=> \E k \in 1 .. Len(x.sentences) :
                          \E i \in 1 .. Len(reranked) : i \in x.sentences[k]
    OBVIOUS
  <2> HIDE DEF valid
  <2> QED
    BY <2>1, <2>2, <2>3
<1> QED
  BY <1>1, <1>3, <1>4, <1>5, <1>6 DEF Covered

\* The context is sorted, so its best score is the first.
LEMMA TopScoreFirst ==
    ASSUME ContextInv, Passes
    PROVE  TopScore = reranked[1].score /\ TopScore \in Nat /\ TopScore >= Threshold
<1>1. 1 \in 1 .. Len(reranked)
  BY DEF ContextInv, Passes
<1> DEFINE scores == {reranked[i].score : i \in 1 .. Len(reranked)}
<1>2. reranked[1].score \in scores /\ reranked[1].score \in Nat
  BY <1>1 DEF ContextInv
<1>3. \A s \in scores : s \in Nat /\ s <= reranked[1].score
  BY DEF ContextInv
<1>4. \A s \in scores : (\A i \in 1 .. Len(reranked) : reranked[i].score <= s) =>
                            s = reranked[1].score
  <2> TAKE s \in scores
  <2> HAVE \A i \in 1 .. Len(reranked) : reranked[i].score <= s
  <2>1. reranked[1].score <= s
    BY <1>1
  <2>2. s \in Nat /\ s <= reranked[1].score
    BY <1>3
  <2> HIDE DEF scores
  <2> QED
    BY <1>2, <2>1, <2>2
<1>5. TopScore = reranked[1].score
  BY <1>2, <1>4 DEF TopScore, ContextInv
<1>6. PICK i \in 1 .. Len(reranked) : reranked[i].score >= Threshold
  BY DEF Passes
<1> QED
  BY <1>2, <1>5, <1>6, ScoresAssumption DEF ContextInv

\* The arithmetic of a score times a coverage.
LEMMA Products ==
    ASSUME NEW s \in Nat, NEW c \in Nat, NEW n \in Nat, c <= n
    PROVE  /\ s * c \in Nat /\ s * c <= s * n
           /\ c > 0 => s * c >= s
           /\ c = 0 => s * c = 0
<1>1. s * n = s * c + s * (n - c) /\ s * (n - c) \in Nat /\ s * c \in Nat
  OBVIOUS
<1>2. c > 0 => s * c = s + s * (c - 1) /\ s * (c - 1) \in Nat
  OBVIOUS
<1> QED
  BY <1>1, <1>2

\* The invariant holds before the first query.
LEMMA InitInv == Init => IInv
BY DEF Init, IInv, ControlInv, ReplyInv, CountersInv, EveryReplyCounted

\* Retrieving changes nothing but the candidates, and comes before the reranker.
LEMMA RetrieveStep == IInv /\ Retrieve => IInv'
<1> SUFFICES ASSUME IInv, Retrieve PROVE IInv'
  OBVIOUS
<1>1. Len(candidates') \in Nat
  BY RetrieveDelivers
<1>2. /\ pc' = "rerank" /\ pc = "retrieve" /\ called' = called
      /\ reply' = reply /\ metrics' = metrics /\ sent' = sent
  BY DEF Retrieve
<1>3. ControlInv'
  BY <1>1, <1>2 DEF IInv, ControlInv
<1> QED
  BY <1>2, <1>3 DEF IInv, ReplyInv, CountersInv, EveryReplyCounted

\* The context is ranked with its best score first.
LEMMA RerankStep == IInv /\ Rerank => IInv'
<1> SUFFICES ASSUME IInv, Rerank PROVE IInv'
  OBVIOUS
<1>1. Len(candidates) \in Nat
  BY DEF Rerank, IInv, ControlInv
<1>2. PICK score \in [1 .. Len(candidates) -> Scores],
           top \in [1 .. Top(TopK, Len(candidates)) -> 1 .. Len(candidates)] :
        /\ Best(score, top)
        /\ reranked' = [i \in 1 .. Len(top) |->
                           [chunk |-> candidates[top[i]], score |-> score[top[i]]]]
  BY DEF Rerank
<1>3. Len(top) \in Nat
  BY <1>1, <1>2, LimitsAssumption DEF Top
<1>4. Len(top) = Top(TopK, Len(candidates))
  BY <1>1, <1>2, LimitsAssumption DEF Top
<1>5. \A i \in 1 .. Len(top) :
        /\ score[top[i]] \in Nat
        /\ reranked'[i].score = score[top[i]]
        /\ top[i] \in 1 .. Len(candidates)
  BY <1>2, <1>4, ScoresAssumption
<1>6. \A i \in 1 .. Len(top) : score[top[i]] <= score[top[1]]
  <2> TAKE i \in 1 .. Len(top)
  <2>1. /\ 1 \in 1 .. Len(top)
        /\ i = 1 \/ 1 < i
    BY <1>3
  <2>2. score[top[1]] \in Nat /\ score[top[i]] \in Nat
    BY <1>5, <2>1
  <2>3. CASE i = 1
    BY <2>2, <2>3
  <2>4. CASE 1 < i
    <3>1. score[top[1]] > score[top[i]] \/ score[top[1]] = score[top[i]]
      BY <1>2, <2>1, <2>4 DEF Best
    <3> QED
      BY <3>1, <2>2
  <2> QED
    BY <2>1, <2>3, <2>4
<1>7. Len(reranked') = Len(top)
  BY <1>2, <1>3
<1>8. ContextInv'
  BY <1>3, <1>5, <1>6, <1>7 DEF ContextInv
<1>9. /\ pc' = "gate" /\ pc = "rerank" /\ called' = called
      /\ reply' = reply /\ metrics' = metrics /\ sent' = sent
  BY DEF Rerank
<1>10. ControlInv'
  BY <1>8, <1>9 DEF IInv, ControlInv
<1> QED
  BY <1>9, <1>10 DEF IInv, ReplyInv, CountersInv, EveryReplyCounted

\* What passes the gate has a score at the threshold; the rest is a refusal.
LEMMA GateStep == IInv /\ (Refuse \/ Proceed) => IInv'
<1> SUFFICES ASSUME IInv, Refuse \/ Proceed PROVE IInv'
  OBVIOUS
<1>1. /\ pc = "gate" /\ reranked' = reranked /\ called' = called
      /\ reply' = reply /\ metrics' = metrics /\ sent' = sent
  BY DEF Refuse, Proceed
<1>2. ContextInv' /\ ~called
  BY <1>1 DEF IInv, ControlInv, ContextInv
<1>3. Refuse => draft' = Refusal /\ pc' = "reply"
  BY DEF Refuse
<1>4. Proceed => Passes' /\ pc' = "generate"
  BY <1>1 DEF Proceed, Passes
<1>5. ControlInv'
  <2>1. Refuse => draft'.sources = reranked' /\ draft'.refused /\ Grounded(draft')
    BY <1>1, <1>3 DEF Refusal, Grounded
  <2> QED
    BY <1>1, <1>2, <1>3, <1>4, <2>1 DEF IInv, ControlInv
<1> QED
  BY <1>1, <1>3, <1>4, <1>5 DEF IInv, ReplyInv, CountersInv, EveryReplyCounted

\* A completion becomes an answer with its confidence, or a refusal.
LEMMA CompleteStep == IInv /\ Complete => IInv'
<1> SUFFICES ASSUME IInv, Complete PROVE IInv'
  OBVIOUS
<1>1. /\ pc = "generate" /\ pc' = "reply" /\ reranked' = reranked /\ called'
      /\ reply' = reply /\ metrics' = metrics /\ sent' = sent
  BY DEF Complete
<1>2. ContextInv /\ Passes
  BY <1>1 DEF IInv, ControlInv
<1>3. ContextInv' /\ Passes'
  BY <1>1, <1>2 DEF ContextInv, Passes
<1>4. draft'.sources = reranked /\ Grounded(draft')
  <2>1. PICK x \in Completions :
          draft' = IF x.sentinel \/ x.sentences = <<>> THEN Refusal
                   ELSE [refused   |-> FALSE,
                         citations |-> Cited(x),
                         part      |-> TopScore * Covered(x),
                         of        |-> Len(x.sentences),
                         sources   |-> reranked]
    BY DEF Complete, Generated, Answered, Covered
  <2>2. CASE draft' = Refusal
    BY <2>2 DEF Refusal, Grounded
  <2>3. CASE draft' # Refusal
    <3> DEFINE n == Len(x.sentences)
    <3>1. /\ draft'.refused = FALSE /\ draft'.citations = Cited(x)
          /\ draft'.part = TopScore * Covered(x) /\ draft'.of = n
          /\ draft'.sources = reranked
      BY <2>1, <2>3
    <3>2. TopScore = reranked[1].score /\ TopScore \in Nat /\ TopScore >= Threshold
      BY <1>2, TopScoreFirst
    <3>3. Covered(x) \in 0 .. n /\ n \in Nat /\ (Covered(x) > 0 <=> Cited(x) # {})
      BY CoverageBounded, CompletionsAssumption
    <3> HIDE DEF n
    <3>4. /\ TopScore * Covered(x) \in Nat /\ TopScore * Covered(x) <= TopScore * n
          /\ Covered(x) > 0 => TopScore * Covered(x) >= TopScore
          /\ Covered(x) = 0 => TopScore * Covered(x) = 0
      BY <3>2, <3>3, Products
    <3>5. 1 \in 1 .. Len(reranked)
      BY <1>2 DEF ContextInv, Passes
    <3>6. draft'.part <= reranked[1].score * n
      BY <3>1, <3>2, <3>4
    <3>7. draft'.part > 0 => Cited(x) # {}
      BY <3>1, <3>3, <3>4
    <3>8. Cited(x) # {} => draft'.part >= Threshold
      <4>1. draft'.part \in Nat /\ Threshold \in Nat
        BY <3>1, <3>4, ScoresAssumption
      <4> QED
        BY <3>1, <3>2, <3>3, <3>4, <4>1
    <3> QED
      BY <3>1, <3>5, <3>6, <3>7, <3>8 DEF Grounded
  <2> QED
    BY <2>2, <2>3
<1>5. ControlInv'
  BY <1>1, <1>3, <1>4 DEF ControlInv
<1> QED
  BY <1>1, <1>5 DEF IInv, ReplyInv, CountersInv, EveryReplyCounted

\* Whatever ends a query is counted as the reply says.
LEMMA ReplyStep == IInv /\ (Respond \/ Raise \/ UnknownUser) => IInv'
<1> SUFFICES ASSUME IInv, Respond \/ Raise \/ UnknownUser PROVE IInv'
  OBVIOUS
<1>1. pc' = "idle"
  BY DEF Respond, Raise, UnknownUser
<1>2. ControlInv'
  BY <1>1 DEF ControlInv
<1>3. ReplyInv'
  <2>1. CASE Respond
    BY <1>1, <2>1 DEF Respond, IInv, ControlInv, ReplyInv, Passes, Strong, Grounded
  <2>2. CASE Raise \/ UnknownUser
    BY <1>1, <2>2 DEF Raise, UnknownUser, ReplyInv
  <2> QED
    BY <2>1, <2>2
<1>4. CountersInv'
  <2>1. CountersInv
    BY DEF IInv
  <2>2. CASE Respond
    <3>1. /\ metrics' = [metrics EXCEPT !.total = @ + 1, !.success = @ + 1, !.timed = @ + 1]
          /\ sent' = [sent EXCEPT ![200] = @ + 1]
      BY <2>2 DEF Respond
    <3>2. sent'[200] = sent[200] + 1 /\ sent'[400] = sent[400] /\ sent'[502] = sent[502]
      BY <2>1, <3>1 DEF CountersInv
    <3>3. /\ metrics'.success = metrics.success + 1 /\ metrics'.timed = metrics.timed + 1
          /\ metrics'.error = metrics.error /\ metrics'.total = metrics.total + 1
      BY <2>1, <3>1 DEF CountersInv
    <3>4. sent' \in [{200, 400, 502} -> Nat]
      BY <2>1, <3>1 DEF CountersInv
    <3>5. metrics' \in [total : Nat, success : Nat, error : Nat, timed : Nat]
      <4>1. metrics \in [total : Nat, success : Nat, error : Nat, timed : Nat]
        BY <2>1 DEF CountersInv
      <4>2. metrics' = [total |-> metrics.total + 1, success |-> metrics.success + 1,
                      error |-> metrics.error, timed |-> metrics.timed + 1]
        BY <3>1, <4>1
      <4>3. /\ metrics.total \in Nat /\ metrics.success \in Nat
            /\ metrics.error \in Nat /\ metrics.timed \in Nat
        BY <4>1
      <4> QED
        BY <4>2, <4>3
    <3>6. sent[200] \in Nat /\ sent[502] \in Nat
      BY <2>1 DEF CountersInv
    <3>7. EveryReplyCounted'
      BY <2>1, <3>2, <3>3, <3>6 DEF CountersInv, EveryReplyCounted
    <3> QED
      BY <3>4, <3>5, <3>7 DEF CountersInv
  <2>3. CASE Raise
    <3>1. /\ metrics' = [metrics EXCEPT !.total = @ + 1, !.error = @ + 1]
          /\ sent' = [sent EXCEPT ![502] = @ + 1]
      BY <2>3 DEF Raise
    <3>2. sent'[502] = sent[502] + 1 /\ sent'[200] = sent[200] /\ sent'[400] = sent[400]
      BY <2>1, <3>1 DEF CountersInv
    <3>3. /\ metrics'.success = metrics.success /\ metrics'.timed = metrics.timed
          /\ metrics'.error = metrics.error + 1 /\ metrics'.total = metrics.total + 1
      BY <2>1, <3>1 DEF CountersInv
    <3>4. sent' \in [{200, 400, 502} -> Nat]
      BY <2>1, <3>1 DEF CountersInv
    <3>5. metrics' \in [total : Nat, success : Nat, error : Nat, timed : Nat]
      <4>1. metrics \in [total : Nat, success : Nat, error : Nat, timed : Nat]
        BY <2>1 DEF CountersInv
      <4>2. metrics' = [total |-> metrics.total + 1, success |-> metrics.success,
                      error |-> metrics.error + 1, timed |-> metrics.timed]
        BY <3>1, <4>1
      <4>3. /\ metrics.total \in Nat /\ metrics.success \in Nat
            /\ metrics.error \in Nat /\ metrics.timed \in Nat
        BY <4>1
      <4> QED
        BY <4>2, <4>3
    <3>6. sent[200] \in Nat /\ sent[502] \in Nat
      BY <2>1 DEF CountersInv
    <3>7. EveryReplyCounted'
      BY <2>1, <3>2, <3>3, <3>6 DEF CountersInv, EveryReplyCounted
    <3> QED
      BY <3>4, <3>5, <3>7 DEF CountersInv
  <2>4. CASE UnknownUser
    <3>1. metrics' = metrics /\ sent' = [sent EXCEPT ![400] = @ + 1]
      BY <2>4 DEF UnknownUser
    <3>2. sent'[400] = sent[400] + 1 /\ sent'[200] = sent[200] /\ sent'[502] = sent[502]
      BY <2>1, <3>1 DEF CountersInv
    <3>3. metrics' = metrics
      BY <2>1, <3>1 DEF CountersInv
    <3>4. sent' \in [{200, 400, 502} -> Nat]
      BY <2>1, <3>1 DEF CountersInv
    <3>5. metrics' \in [total : Nat, success : Nat, error : Nat, timed : Nat]
      BY <2>1, <3>1 DEF CountersInv
    <3>6. sent[200] \in Nat /\ sent[502] \in Nat
      BY <2>1 DEF CountersInv
    <3>7. EveryReplyCounted'
      BY <2>1, <3>2, <3>3, <3>6 DEF CountersInv, EveryReplyCounted
    <3> QED
      BY <3>4, <3>5, <3>7 DEF CountersInv
  <2> QED
    BY <2>2, <2>3, <2>4
<1> QED
  BY <1>2, <1>3, <1>4 DEF IInv

\* A new query starts from nothing.
LEMMA AskStep == IInv /\ Ask => IInv'
BY DEF Ask, IInv, ControlInv, ReplyInv, CountersInv, EveryReplyCounted

\* Every step keeps the invariant.
LEMMA Step == IInv /\ [Next]_vars => IInv'
<1>1. IInv /\ UNCHANGED vars => IInv'
  BY DEF vars, IInv, ControlInv, ContextInv, ReplyInv, CountersInv, EveryReplyCounted, Passes
<1> QED
  BY <1>1, RetrieveStep, RerankStep, GateStep, CompleteStep, ReplyStep, AskStep DEF Next

\* The invariant, in every behaviour.
LEMMA InvariantHolds == Spec => []IInv
BY InitInv, Step, PTL DEF Spec

\* Whatever the scores and the LLM: no generation, and no answer, without a
\* source at the threshold.
THEOREM GateGuarantee == Spec => []NoGenerationOnWeakContext
<1>1. IInv => NoGenerationOnWeakContext
  BY DEF IInv, ControlInv, ReplyInv, NoGenerationOnWeakContext, Strong, Passes
<1> QED
  BY <1>1, InvariantHolds, PTL

\* Whatever the completion: refusals are bare, and an answer's confidence is
\* bounded by its best source and positive only with a valid citation.
THEOREM Confidence == Spec => []ConfidenceGrounded
<1>1. IInv => ConfidenceGrounded
  BY DEF IInv, ReplyInv, ConfidenceGrounded
<1> QED
  BY <1>1, InvariantHolds, PTL

\* However queries end, the request counters add up to the replies.
THEOREM CountersAddUp == Spec => []EveryReplyCounted
<1>1. IInv => EveryReplyCounted
  BY DEF IInv, CountersInv
<1> QED
  BY <1>1, InvariantHolds, PTL

\* The chunks a list of sources shows, and that it shows none twice.
ChunksOf(sources) == {sources[i].chunk : i \in 1 .. Len(sources)}
OnceEach(sources) ==
    \A i, j \in 1 .. Len(sources) : sources[i].chunk = sources[j].chunk => i = j

\* Where the chunks come from, from the candidates to the reply: what the
\* retrievers returned for this query, each chunk once.
SourcesInv ==
    /\ pc = "rerank" => Distinct(candidates) /\ Items(candidates) \subseteq retrieved
    /\ pc \in {"gate", "generate", "reply"} =>
        OnceEach(reranked) /\ ChunksOf(reranked) \subseteq retrieved
    /\ pc = "reply" => draft.citations \subseteq ChunksOf(reranked)
    /\ reply.status # 200 => reply.body = NoResponse
    /\ OnceEach(reply.body.sources)
    /\ ChunksOf(reply.body.sources) \subseteq retrieved
    /\ reply.body.citations \subseteq ChunksOf(reply.body.sources)

\* A reply without a response shows nothing.
LEMMA NothingShown ==
    /\ NoResponse \in Response
    /\ ChunksOf(NoResponse.sources) = {} /\ OnceEach(NoResponse.sources)
    /\ NoResponse.citations = {}
<1>1. NoResponse \in Response /\ Len(NoResponse.sources) = 0 /\ NoResponse.citations = {}
  BY DEF NoResponse, Response
<1> QED
  BY <1>1 DEF ChunksOf, OnceEach

\* What the proofs below carry through a step: the control and reply parts of
\* the invariant, which hold by InvariantHolds, and where the chunks come from.
ShownInv == IInv /\ TypeOK /\ SourcesInv

\* Before the first query.
LEMMA InitShown == Init => TypeOK /\ SourcesInv
<1> SUFFICES ASSUME Init PROVE TypeOK /\ SourcesInv
  OBVIOUS
<1>1. /\ metrics \in [total : Nat, success : Nat, error : Nat, timed : Nat]
      /\ sent \in [{200, 400, 502} -> Nat]
  BY DEF Init
<1>2. lists \in Seq(Seq(Chunks)) /\ candidates \in Seq(Chunks) /\ reranked \in Seq(Source)
  BY DEF Init
<1>3. reply \in [status : {0, 200, 400, 502}, body : Response] /\ draft \in Response
  BY NothingShown DEF Init
<1>4. TypeOK
  BY <1>1, <1>2, <1>3 DEF Init, TypeOK
<1>5. SourcesInv
  BY NothingShown DEF Init, SourcesInv
<1> QED
  BY <1>4, <1>5

\* A new query forgets what the last one retrieved, and its reply.
LEMMA AskShown == ShownInv /\ Ask => TypeOK' /\ SourcesInv'
<1> SUFFICES ASSUME TypeOK, SourcesInv, Ask PROVE TypeOK' /\ SourcesInv'
  BY DEF ShownInv
<1>1. /\ pc' = "retrieve" /\ retrieved' = {} /\ called' = FALSE
      /\ reply' = [status |-> 0, body |-> NoResponse]
      /\ lists' = lists /\ candidates' = candidates /\ reranked' = reranked
      /\ draft' = draft /\ metrics' = metrics /\ sent' = sent
  BY DEF Ask
<1>2. TypeOK'
  BY <1>1, NothingShown DEF TypeOK
<1>3. SourcesInv'
  BY <1>1, NothingShown DEF SourcesInv
<1> QED
  BY <1>2, <1>3

\* The candidates come from the retrievers' lists.
LEMMA RetrieveShown == ShownInv /\ Retrieve => TypeOK' /\ SourcesInv'
<1> SUFFICES ASSUME ShownInv, Retrieve PROVE TypeOK' /\ SourcesInv'
  OBVIOUS
<1>1. /\ pc = "retrieve" /\ pc' = "rerank" /\ called' = called /\ reply' = reply
      /\ reranked' = reranked /\ draft' = draft /\ metrics' = metrics /\ sent' = sent
  BY DEF Retrieve
<1>2. /\ lists' \in Seq(Seq(Chunks)) /\ retrieved' \subseteq Chunks
      /\ candidates' \in Seq(Chunks) /\ Distinct(candidates')
      /\ Items(candidates') \subseteq retrieved'
  BY RetrieveDelivers
<1>3. TypeOK'
  BY <1>1, <1>2 DEF ShownInv, TypeOK
<1>4. reply.body = NoResponse /\ reply.status = 0
  BY <1>1 DEF ShownInv, IInv, ReplyInv, SourcesInv
<1>5. SourcesInv'
  BY <1>1, <1>2, <1>4, NothingShown DEF SourcesInv
<1> QED
  BY <1>3, <1>5

\* The reranker picks places of the candidates, none twice.
LEMMA RerankShown == ShownInv /\ Rerank => TypeOK' /\ SourcesInv'
<1> SUFFICES ASSUME ShownInv, Rerank PROVE TypeOK' /\ SourcesInv'
  OBVIOUS
<1>1. /\ pc = "rerank" /\ pc' = "gate" /\ lists' = <<>> /\ candidates' = <<>>
      /\ retrieved' = retrieved /\ called' = called /\ draft' = draft
      /\ reply' = reply /\ metrics' = metrics /\ sent' = sent
  BY DEF Rerank
<1>2. TypeOK /\ SourcesInv /\ Distinct(candidates) /\ Items(candidates) \subseteq retrieved
  BY <1>1 DEF ShownInv, SourcesInv
<1>3. PICK score \in [1 .. Len(candidates) -> Scores],
           top \in [1 .. Top(TopK, Len(candidates)) -> 1 .. Len(candidates)] :
        /\ Best(score, top)
        /\ reranked' = [i \in 1 .. Len(top) |->
                           [chunk |-> candidates[top[i]], score |-> score[top[i]]]]
  BY DEF Rerank
<1>4. Len(candidates) \in Nat /\ candidates \in Seq(Chunks)
  BY <1>2 DEF TypeOK
<1> DEFINE n == Top(TopK, Len(candidates))
<1>5. n \in Nat /\ Len(top) = n
  BY <1>3, <1>4, LimitsAssumption DEF Top
<1> HIDE DEF n
<1>6. \A i \in 1 .. n :
        /\ top[i] \in 1 .. Len(candidates)
        /\ reranked'[i].chunk = candidates[top[i]]
        /\ reranked'[i] \in Source
  BY <1>3, <1>4, <1>5 DEF n, Source
<1>7. reranked' \in Seq(Source) /\ Len(reranked') = n
  <2>1. reranked' = [i \in 1 .. n |-> reranked'[i]]
    BY <1>3, <1>5
  <2>2. reranked' \in [1 .. n -> Source]
    BY <1>6, <2>1
  <2> QED
    BY <1>5, <2>2
<1>8. \A i, j \in 1 .. n : top[i] = top[j] => i = j
  <2> SUFFICES ASSUME NEW i \in 1 .. n, NEW j \in 1 .. n, top[i] = top[j], i < j PROVE FALSE
    BY <1>5
  <2>1. score[top[i]] > score[top[j]] \/ top[i] < top[j]
    BY <1>3, <1>5 DEF Best
  <2>2. score[top[i]] \in Nat /\ top[i] \in Nat
    <3>1. top[i] \in 1 .. Len(candidates)
      BY <1>6
    <3>2. score[top[i]] \in Scores
      BY <1>3, <3>1
    <3>3. top[i] \in Nat
      BY <1>4, <3>1
    <3>4. score[top[i]] \in Nat
      BY <3>2, ScoresAssumption
    <3> QED
      BY <3>3, <3>4
  <2> QED
    BY <2>1, <2>2
<1>9. OnceEach(reranked')
  <2> SUFFICES ASSUME NEW i \in 1 .. n, NEW j \in 1 .. n,
                      reranked'[i].chunk = reranked'[j].chunk
               PROVE  i = j
    BY <1>6, <1>7 DEF OnceEach
  <2>1. /\ reranked'[i].chunk = candidates[top[i]] /\ top[i] \in 1 .. Len(candidates)
        /\ reranked'[j].chunk = candidates[top[j]] /\ top[j] \in 1 .. Len(candidates)
    BY <1>6, <1>7
  <2>2. top[i] = top[j]
    BY <1>2, <2>1 DEF Distinct
  <2> QED
    BY <1>8, <2>2
<1>10. ChunksOf(reranked') \subseteq retrieved
  <2>1. \A i \in 1 .. n : candidates[top[i]] \in retrieved
    BY <1>2, <1>6 DEF Items
  <2> QED
    BY <1>6, <1>7, <2>1 DEF ChunksOf
<1>11. TypeOK'
  BY <1>1, <1>2, <1>7 DEF TypeOK
<1>12. SourcesInv'
  BY <1>1, <1>2, <1>9, <1>10 DEF SourcesInv
<1> QED
  BY <1>11, <1>12

\* A refusal cites nothing.
LEMMA GateShown == ShownInv /\ (Refuse \/ Proceed) => TypeOK' /\ SourcesInv'
<1> SUFFICES ASSUME TypeOK, SourcesInv, Refuse \/ Proceed PROVE TypeOK' /\ SourcesInv'
  BY DEF ShownInv
<1>1. /\ pc = "gate" /\ pc' \in {"reply", "generate"}
      /\ pc' = "reply" => draft' = Refusal
      /\ draft' \in {draft, Refusal} /\ UNCHANGED <<lists, candidates, reranked, retrieved>>
      /\ UNCHANGED <<called, reply, metrics, sent>>
  BY DEF Refuse, Proceed
<1>2. Refusal \in Response /\ Refusal.citations = {}
  BY DEF TypeOK, Refusal, Response
<1>3. TypeOK'
  BY <1>1, <1>2 DEF TypeOK
<1>4. SourcesInv'
  BY <1>1, <1>2 DEF SourcesInv
<1> QED
  BY <1>3, <1>4

\* An answer cites blocks of the context it was generated from.
LEMMA CompleteShown == ShownInv /\ Complete => TypeOK' /\ SourcesInv'
<1> SUFFICES ASSUME ShownInv, Complete PROVE TypeOK' /\ SourcesInv'
  OBVIOUS
<1>1. /\ pc = "generate" /\ pc' = "reply" /\ called' = TRUE
      /\ UNCHANGED <<lists, candidates, reranked, retrieved, reply, metrics, sent>>
  BY DEF Complete
<1>2. PICK x \in Completions :
        draft' = IF Generated(x).sentences = <<>> THEN Refusal ELSE Answered(Generated(x))
  BY DEF Complete
<1>3. TypeOK /\ SourcesInv /\ ContextInv /\ Passes
  BY <1>1 DEF ShownInv, IInv, ControlInv
<1>4. Refusal \in Response /\ Refusal.citations = {}
  BY <1>3 DEF TypeOK, Refusal, Response
<1>5. CASE draft' = Refusal
  BY <1>1, <1>3, <1>4, <1>5 DEF TypeOK, SourcesInv
<1>6. CASE draft' # Refusal
  <2>1. /\ draft' = [refused |-> FALSE, citations |-> Cited(x),
                     part |-> TopScore * Covered(x), of |-> Len(x.sentences),
                     sources |-> reranked]
        /\ x.sentences # <<>>
    BY <1>2, <1>6 DEF Generated, Answered, Covered
  <2>2. Cited(x) \subseteq ChunksOf(reranked)
    BY DEF Cited, ChunksOf
  <2>3. Cited(x) \subseteq Chunks
    <3>1. reranked \in Seq(Source)
      BY <1>3 DEF TypeOK
    <3>2. \A i \in 1 .. Len(reranked) : reranked[i] \in Source
      BY <3>1
    <3>3. \A i \in 1 .. Len(reranked) : reranked[i].chunk \in Chunks
      BY <3>2 DEF Source
    <3> QED
      BY <3>3 DEF Cited
  <2>4. x.sentences \in Seq(SUBSET Nat) /\ Covered(x) \in 0 .. Len(x.sentences)
    BY CompletionsAssumption, CoverageBounded
  <2>5. Len(x.sentences) \in Nat \ {0} /\ Covered(x) \in Nat
    BY <2>1, <2>4
  <2>6. TopScore * Covered(x) \in Nat
    BY <1>3, <2>5, TopScoreFirst
  <2>7. draft' \in Response
    BY <1>3, <2>1, <2>3, <2>5, <2>6 DEF Response, TypeOK
  <2>8. TypeOK'
    BY <1>1, <1>3, <2>7 DEF TypeOK
  <2>9. SourcesInv'
    BY <1>1, <1>3, <2>1, <2>2 DEF SourcesInv
  <2> QED
    BY <2>8, <2>9
<1> QED
  BY <1>5, <1>6

\* The reply is the draft, which shows the context.
LEMMA ReplyShown == ShownInv /\ (Respond \/ Raise \/ UnknownUser) => TypeOK' /\ SourcesInv'
<1> SUFFICES ASSUME ShownInv, Respond \/ Raise \/ UnknownUser PROVE TypeOK' /\ SourcesInv'
  OBVIOUS
<1>1. TypeOK /\ SourcesInv
  BY DEF ShownInv
<1>2. CountersInv'
  BY ReplyStep DEF ShownInv, IInv
<1>3. CASE Respond
  <2>1. /\ pc = "reply" /\ pc' = "idle" /\ reply' = [status |-> 200, body |-> draft]
        /\ reranked' = <<>> /\ draft' = NoResponse
        /\ UNCHANGED <<lists, candidates, retrieved, called>>
    BY <1>3 DEF Respond
  <2>2. draft.sources = reranked
    BY <2>1 DEF ShownInv, IInv, ControlInv
  <2>3. TypeOK'
    <3>1. reply' \in [status : {0, 200, 400, 502}, body : Response] /\ draft' \in Response
      BY <1>1, <2>1, NothingShown DEF TypeOK
    <3>2. reranked' \in Seq(Source)
      BY <2>1
    <3> QED
      BY <1>1, <1>2, <2>1, <3>1, <3>2 DEF TypeOK, CountersInv
  <2>4. SourcesInv'
    BY <1>1, <2>1, <2>2 DEF SourcesInv
  <2> QED
    BY <2>3, <2>4
<1>4. CASE Raise \/ UnknownUser
  <2>1. /\ pc' = "idle" /\ reply'.body = NoResponse /\ reply'.status \in {400, 502}
        /\ reply' \in [status : {0, 200, 400, 502}, body : Response]
        /\ retrieved' = retrieved /\ draft' = draft
        /\ called' = called \/ called' = (pc = "generate")
        /\ lists' = lists \/ lists' = <<>>
        /\ candidates' = candidates \/ candidates' = <<>>
        /\ reranked' = reranked \/ reranked' = <<>>
    <3>1. CASE Raise
      BY <3>1, NothingShown DEF Raise
    <3>2. CASE UnknownUser
      BY <3>2, NothingShown DEF UnknownUser
    <3> QED
      BY <1>4, <3>1, <3>2
  <2> DEFINE LL == Seq(Seq(Chunks))
             L == Seq(Chunks)
             SS == Seq(Source)
  <2>2. <<>> \in LL /\ <<>> \in L /\ <<>> \in SS
    OBVIOUS
  <2>3. lists \in LL /\ candidates \in L /\ reranked \in SS /\ called \in BOOLEAN
    BY <1>1 DEF TypeOK
  <2> HIDE DEF LL, L, SS
  <2>4. lists' \in LL /\ candidates' \in L /\ reranked' \in SS /\ called' \in BOOLEAN
    BY <2>1, <2>2, <2>3
  <2>5. TypeOK'
    BY <1>1, <1>2, <2>1, <2>4 DEF TypeOK, CountersInv, LL, L, SS
  <2>6. SourcesInv'
    BY <1>1, <2>1, NothingShown DEF SourcesInv
  <2> QED
    BY <2>5, <2>6
<1> QED
  BY <1>3, <1>4

\* In every behaviour, the chunks come from where they should.
LEMMA ShownHolds == Spec => []ShownInv
<1>1. ShownInv /\ UNCHANGED vars => TypeOK' /\ SourcesInv'
  BY DEF ShownInv, vars, TypeOK, SourcesInv
<1>2. ShownInv /\ [Next]_vars => TypeOK' /\ SourcesInv'
  BY <1>1, AskShown, RetrieveShown, RerankShown, GateShown, CompleteShown, ReplyShown DEF Next
<1>3. ShownInv /\ [Next]_vars => ShownInv'
  BY <1>2, Step DEF ShownInv
<1>4. Init => ShownInv
  BY InitInv, InitShown DEF ShownInv
<1> QED
  BY <1>3, <1>4, PTL DEF Spec

\* Every variable of the query path keeps its type: lists of chunks, sources
\* with scores, a positive number of sentences under every confidence.
THEOREM TypesHold == Spec => []TypeOK
<1>1. ShownInv => TypeOK
  BY DEF ShownInv
<1> QED
  BY <1>1, ShownHolds, PTL

\* A reply shows and cites nothing but what was retrieved for this query under
\* the caller's ACL, and shows no chunk twice, however lists are fused, scores
\* fall and completions cite.
THEOREM OnlyRetrievedShown == Spec => []ShowsOnlyRetrieved
<1>1. ShownInv => ShowsOnlyRetrieved
  <2> SUFFICES ASSUME ShownInv PROVE ShowsOnlyRetrieved
    OBVIOUS
  <2> DEFINE sources == reply.body.sources
             chunks == [i \in 1 .. Len(sources) |-> sources[i].chunk]
  <2>1. OnceEach(sources) /\ ChunksOf(sources) \subseteq retrieved
        /\ reply.body.citations \subseteq ChunksOf(sources)
    BY DEF ShownInv, SourcesInv
  <2>2. Len(sources) \in Nat
    BY DEF ShownInv, TypeOK, Response
  <2>3. Len(chunks) = Len(sources) /\ Distinct(chunks) /\ Items(chunks) = ChunksOf(sources)
    <3> HIDE DEF sources
    <3>1. Len(chunks) = Len(sources)
      BY <2>2
    <3> QED
      BY <2>1, <2>2, <3>1 DEF Distinct, OnceEach, Items, ChunksOf
  <2>4. Cardinality(ChunksOf(sources)) = Len(sources)
    BY <2>3, ItemsCounted
  <2> QED
    BY <2>1, <2>4 DEF ShowsOnlyRetrieved, ChunksOf
<1> QED
  BY <1>1, ShownHolds, PTL

\* Only retrieval fills the candidates, so that what it delivers holds until
\* the reranker has them.
LEMMA OnlyRetrieveFuses ==
    [Next]_vars /\ ~Retrieve => pc' # "rerank" \/ UNCHANGED <<pc, lists, candidates, retrieved>>
BY DEF Next, vars, Ask, UnknownUser, Rerank, Refuse, Proceed, Complete, Respond, Raise

\* For every pair of rankings and every damping: fusion fills the room it has,
\* repeats nothing, and never overrules what no list contradicts.
THEOREM FusionRespects == Spec => []FusionRespectsRankings
<1>1. Init => FusionRespectsRankings
  BY DEF Init, FusionRespectsRankings
<1>2. FusionRespectsRankings /\ [Next]_vars => FusionRespectsRankings'
  BY OnlyRetrieveFuses, RetrieveDelivers DEF FusionRespectsRankings
<1> QED
  BY <1>1, <1>2, PTL DEF Spec

\* For every pair of rankings no longer than the damping plus one, a chunk both
\* retrievers found comes before every chunk only one of them found.
THEOREM AgreementPrevails == Spec => []AgreementWins
<1>1. Init => AgreementWins
  BY DEF Init, AgreementWins
<1>2. AgreementWins /\ [Next]_vars => AgreementWins'
  BY OnlyRetrieveFuses, RetrieveDelivers DEF AgreementWins
<1> QED
  BY <1>1, <1>2, PTL DEF Spec
=============================================================================
