------------------------------- MODULE Answer -------------------------------
(***************************************************************************)
(* POST /v1/query (api/routers/query.py) and AnswerService.answer          *)
(* (services/answer_service.py): retrieve, rerank, gate, generate, reply,  *)
(* one query after another (the handler does not await).  What the store,  *)
(* the cross-encoder and the LLM come up with is any value: two ranked     *)
(* lists, a score per candidate, a completion.  A completion is a sequence *)
(* of sentences, a sentence the set of [n] markers in it.                  *)
(***************************************************************************)
EXTENDS Fusion

CONSTANTS
    Chunks,       \* what the caller may retrieve
    Scores,       \* scores of the cross-encoder, ascending
    Completions,  \* what the LLM may return
    CandidateK,   \* candidate_k, top_k_dense
    TopK,         \* reranker.top_k
    RrfK,         \* rrf_k
    Threshold,    \* gate_threshold
    MaxQueries    \* bound: queries that are asked

ASSUME LimitsAssumption ==
    /\ CandidateK \in Nat \ {0} /\ TopK \in Nat \ {0} /\ RrfK \in Nat
    /\ MaxQueries \in Nat

\* ScoreThresholdGate.__init__ raises unless the threshold is in [0, 1], where
\* the sigmoid puts the scores.
ASSUME ScoresAssumption == Scores \subseteq Nat /\ Threshold \in Nat

ASSUME CompletionsAssumption ==
    \A x \in Completions :
        /\ x.sentinel \in BOOLEAN
        /\ x.sentences \in Seq(SUBSET Nat)

VARIABLES
    pc,           \* the call the handler is in
    lists,        \* the dense ranking, and in hybrid mode the sparse one
    candidates,   \* retrieved chunks, best first
    reranked,     \* their best TopK, with scores
    retrieved,    \* (history) what the retrievers returned for this query
    called,       \* (history) the LLM has been called for it
    draft,        \* the AnswerResponse
    reply,        \* the reply to the last query
    metrics,      \* the counters of MetricsRegistry
    sent          \* how many replies had each status

vars == <<pc, lists, candidates, reranked, retrieved, called, draft, reply, metrics, sent>>

Modes == {"dense", "hybrid"}
Top(i, j) == IF i < j THEN i ELSE j
Rankings == UNION {{r \in [1 .. n -> Chunks] : \A i, j \in 1 .. n : r[i] = r[j] => i = j} :
                   n \in 0 .. CandidateK}
NoResponse == [refused |-> FALSE, citations |-> {}, part |-> 0, of |-> 1,
               sources |-> <<>>]

Init ==
    /\ pc = "idle"
    /\ lists = <<>>
    /\ candidates = <<>>
    /\ reranked = <<>>
    /\ retrieved = {}
    /\ called = FALSE
    /\ draft = NoResponse
    /\ reply = [status |-> 0, body |-> NoResponse]
    /\ metrics = [total |-> 0, success |-> 0, error |-> 0, timed |-> 0]
    /\ sent = [status \in {200, 400, 502} |-> 0]

Asked == sent[200] + sent[400] + sent[502]

\* A query of a user in the directory, or of nobody, is started on.
Ask ==
    /\ pc = "idle" /\ Asked < MaxQueries
    /\ pc' = "retrieve"
    /\ retrieved' = {}
    /\ called' = FALSE
    /\ reply' = [status |-> 0, body |-> NoResponse]
    /\ UNCHANGED <<lists, candidates, reranked, draft, metrics, sent>>

\* get_user_acl does not know the user: 400, before anything is counted.
UnknownUser ==
    /\ pc = "idle" /\ Asked < MaxQueries
    /\ reply' = [status |-> 400, body |-> NoResponse]
    /\ sent' = [sent EXCEPT ![400] = @ + 1]
    /\ UNCHANGED <<pc, lists, candidates, reranked, retrieved, called, draft, metrics>>

\* DenseRetriever.retrieve, or HybridRetriever.retrieve.
Retrieve ==
    /\ pc = "retrieve"
    /\ \E mode \in Modes, dense \in Rankings :
        IF mode = "dense"
        THEN lists' = <<dense>> /\ candidates' = dense
        ELSE \E sparse \in Rankings :
                /\ lists' = <<dense, sparse>>
                /\ candidates' = Fuse(<<dense, sparse>>, RrfK, CandidateK)
    /\ retrieved' = Found(lists')
    /\ pc' = "rerank"
    /\ UNCHANGED <<reranked, called, draft, reply, metrics, sent>>

\* The places of the best TopK candidates: the sort is stable.
Best(score, top) ==
    /\ \A i, j \in 1 .. Len(top) : i < j =>
        \/ score[top[i]] > score[top[j]]
        \/ score[top[i]] = score[top[j]] /\ top[i] < top[j]
    /\ \A d \in 1 .. Len(candidates) : \A i \in 1 .. Len(top) :
        d \notin Items(top) => \/ score[top[i]] > score[d]
                               \/ score[top[i]] = score[d] /\ top[i] < d

\* CrossEncoderReranker.rerank.
Rerank ==
    /\ pc = "rerank"
    /\ \E score \in [1 .. Len(candidates) -> Scores],
          top \in [1 .. Top(TopK, Len(candidates)) -> 1 .. Len(candidates)] :
        /\ Best(score, top)
        /\ reranked' = [i \in 1 .. Len(top) |->
                            [chunk |-> candidates[top[i]], score |-> score[top[i]]]]
    /\ lists' = <<>> /\ candidates' = <<>>
    /\ pc' = "gate"
    /\ UNCHANGED <<retrieved, called, draft, reply, metrics, sent>>

\* Mutant: the gate asks whether there is any context.
PassesAny == reranked # <<>>
\* ScoreThresholdGate.passes.
Passes == \E i \in 1 .. Len(reranked) : reranked[i].score >= Threshold

\* AnswerService._refuse.
Refusal ==
    [refused |-> TRUE, citations |-> {}, part |-> 0, of |-> 1,
     sources |-> reranked]

Refuse ==
    /\ pc = "gate" /\ ~Passes
    /\ draft' = Refusal
    /\ pc' = "reply"
    /\ UNCHANGED <<lists, candidates, reranked, retrieved, called, reply, metrics, sent>>

Proceed ==
    /\ pc = "gate" /\ Passes
    /\ pc' = "generate"
    /\ UNCHANGED <<lists, candidates, reranked, retrieved, called, draft, reply, metrics, sent>>

TopScore == CHOOSE s \in {reranked[i].score : i \in 1 .. Len(reranked)} :
                \A i \in 1 .. Len(reranked) : reranked[i].score <= s

\* Mutant: markers are read as positions from zero.
CitedFromZero(x) ==
    {reranked[i + 1].chunk : i \in {i \in UNION Items(x.sentences) : i < Len(reranked)}}
\* parse_citations: the chunks of the markers that name a block of the context.
Cited(x) ==
    {reranked[i].chunk : i \in (UNION Items(x.sentences)) \cap 1 .. Len(reranked)}

\* citation_coverage: the sentences with a marker that names a block.
Covered(x) ==
    Cardinality({k \in 1 .. Len(x.sentences) :
                    x.sentences[k] \cap 1 .. Len(reranked) # {}})

\* GroundedGenerator.generate: the sentinel anywhere in a completion empties it.
Generated(x) ==
    IF x.sentinel THEN [sentences |-> <<>>, citations |-> {}]
    ELSE [sentences |-> x.sentences, citations |-> Cited(x)]

\* The AnswerResponse for a result; its confidence is part / of.
Answered(result) ==
    [refused |-> FALSE, citations |-> result.citations,
     part |-> TopScore * Covered(result), of |-> Len(result.sentences),
     sources |-> reranked]

\* Mutant: a blank answer is answered with.
CompleteBlank ==
    /\ pc = "generate"
    /\ \E x \in Completions : draft' = Answered(Generated(x))
    /\ called' = TRUE
    /\ pc' = "reply"
    /\ UNCHANGED <<lists, candidates, reranked, retrieved, reply, metrics, sent>>
\* The LLM answers; a result without text is a refusal.
Complete ==
    /\ pc = "generate"
    /\ \E x \in Completions :
        draft' = IF Generated(x).sentences = <<>> THEN Refusal ELSE Answered(Generated(x))
    /\ called' = TRUE
    /\ pc' = "reply"
    /\ UNCHANGED <<lists, candidates, reranked, retrieved, reply, metrics, sent>>

\* Mutant: a refusal is recorded as an error.
RespondByOutcome ==
    /\ pc = "reply"
    /\ reply' = [status |-> 200, body |-> draft]
    /\ metrics' = IF draft.refused
                  THEN [metrics EXCEPT !.total = @ + 1, !.error = @ + 1]
                  ELSE [metrics EXCEPT !.total = @ + 1, !.success = @ + 1, !.timed = @ + 1]
    /\ sent' = [sent EXCEPT ![200] = @ + 1]
    /\ reranked' = <<>> /\ draft' = NoResponse
    /\ pc' = "idle"
    /\ UNCHANGED <<lists, candidates, retrieved, called>>
\* Answers and refusals are recorded as successes and timed.
Respond ==
    /\ pc = "reply"
    /\ reply' = [status |-> 200, body |-> draft]
    /\ metrics' = [metrics EXCEPT !.total = @ + 1, !.success = @ + 1, !.timed = @ + 1]
    /\ sent' = [sent EXCEPT ![200] = @ + 1]
    /\ reranked' = <<>> /\ draft' = NoResponse
    /\ pc' = "idle"
    /\ UNCHANGED <<lists, candidates, retrieved, called>>

\* The embedder, the store, the cross-encoder (not called without candidates)
\* or the LLM raises: 502.
Raise ==
    /\ pc \in {"retrieve", "rerank", "generate"}
    /\ pc = "rerank" => candidates # <<>>
    /\ reply' = [status |-> 502, body |-> NoResponse]
    /\ metrics' = [metrics EXCEPT !.total = @ + 1, !.error = @ + 1]
    /\ sent' = [sent EXCEPT ![502] = @ + 1]
    /\ called' = (pc = "generate")
    /\ lists' = <<>> /\ candidates' = <<>> /\ reranked' = <<>>
    /\ pc' = "idle"
    /\ UNCHANGED <<retrieved, draft>>

Next ==
    \/ Ask \/ UnknownUser
    \/ Retrieve \/ Rerank \/ Refuse \/ Proceed \/ Complete \/ Respond
    \/ Raise

Spec == Init /\ [][Next]_vars

-----------------------------------------------------------------------------
(* Correctness.                                                            *)

Source == [chunk : Chunks, score : Scores]
Response == [refused : BOOLEAN, citations : SUBSET Chunks, part : Nat, of : Nat \ {0},
             sources : Seq(Source)]

TypeOK ==
    /\ pc \in {"idle", "retrieve", "rerank", "gate", "generate", "reply"}
    /\ lists \in Seq(Seq(Chunks)) /\ candidates \in Seq(Chunks)
    /\ reranked \in Seq(Source)
    /\ retrieved \subseteq Chunks
    /\ called \in BOOLEAN
    /\ draft \in Response
    /\ reply \in [status : {0, 200, 400, 502}, body : Response]
    /\ metrics \in [total : Nat, success : Nat, error : Nat, timed : Nat]
    /\ sent \in [{200, 400, 502} -> Nat]

\* The guarantee of docs/architecture.md: the LLM only ever sees context whose
\* best score reaches the threshold, and no answer is given without it.
NoGenerationOnWeakContext ==
    LET Strong(sources) == \E i \in 1 .. Len(sources) : sources[i].score >= Threshold
    IN  /\ pc = "reply" /\ called => Strong(reranked)
        /\ reply.status = 200 /\ ~reply.body.refused => called
        /\ reply.status = 200 /\ called => Strong(reply.body.sources)

\* A refusal shows no citation and no confidence; an answer is not more
\* confident than its best source, is confident only if it cites one, and if it
\* does at least by the threshold's share for one sentence (_confidence,
\* citation_coverage and parse_citations agree on what a valid marker is).
Grounded(r) ==
    /\ r.refused => r.citations = {} /\ r.part = 0
    /\ ~r.refused =>
        /\ \E i \in 1 .. Len(r.sources) : r.part <= r.sources[i].score * r.of
        /\ r.part > 0 => r.citations # {}
        /\ r.citations # {} => r.part >= Threshold

ConfidenceGrounded == reply.status = 200 => Grounded(reply.body)

\* Whatever a reply shows or cites, the retrievers returned for this very query
\* under the caller's ACL, and what is cited is shown.
ShowsOnlyRetrieved ==
    LET shown == {reply.body.sources[i].chunk : i \in 1 .. Len(reply.body.sources)}
    IN  /\ reply.body.citations \subseteq shown
        /\ shown \subseteq retrieved
        /\ Len(reply.body.sources) = Cardinality(shown)

\* The counters say what was replied: every pipeline that ran is a success or
\* an error, once; a query that was turned away is neither.
EveryReplyCounted ==
    /\ metrics.success = sent[200] /\ metrics.timed = sent[200]
    /\ metrics.error = sent[502]
    /\ metrics.total = sent[200] + sent[502]

\* Fusion loses nothing it has room for, repeats nothing, and does not overrule
\* the lists where they agree: a chunk that no list places lower than another
\* is not fused lower, nor left out for it (reciprocal_rank_fusion).
FusionRespectsRankings ==
    pc = "rerank" =>
        /\ Len(candidates) = Cardinality(Items(candidates))
        /\ Len(candidates) = Top(CandidateK, Cardinality(retrieved))
        /\ \A c, d \in retrieved :
            /\ c # d
            /\ \A i \in 1 .. Len(lists) : d \in Items(lists[i]) => Above(lists[i], c, d)
            /\ \E i \in 1 .. Len(lists) : Above(lists[i], c, d)
            => Above(candidates, c, d) \/ {c, d} \cap Items(candidates) = {}

\* A chunk that both retrievers found outranks every chunk only one of them
\* found, as long as the lists are no longer than the damping (hybrid mode).
AgreementWins ==
    pc = "rerank" /\ CandidateK <= RrfK + 1 =>
        \A c, d \in retrieved :
            /\ \A i \in 1 .. Len(lists) : c \in Items(lists[i])
            /\ \E i \in 1 .. Len(lists) : d \notin Items(lists[i])
            => Above(candidates, c, d) \/ {c, d} \cap Items(candidates) = {}
=============================================================================
