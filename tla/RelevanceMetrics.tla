-------------------------- MODULE RelevanceMetrics --------------------------
(***************************************************************************)
(* How a ranking is scored against a golden example: the relevance         *)
(* predicate (evaluation/dataset.py), the metrics                          *)
(* (evaluation/metrics/retrieval.py) and the row of RetrievalEvaluator.    *)
(*                                                                         *)
(* A chunk is [id, document, says, words]; says are the spans its text     *)
(* contains.  No caller gives a total_relevant_cap.                        *)
(***************************************************************************)
EXTENDS Fractions, Sequences, FiniteSetsExt

CONSTANTS
    K,         \* how deep a ranking is scored
    Gain       \* Gain[rank]: 1 / log2(rank + 1), in some unit

ASSUME KAssumption == K \in Nat \ {0}
ASSUME GainAssumption ==
    /\ Gain \in [1 .. K -> Nat \ {0}]
    /\ \A i, j \in 1 .. K : i < j => Gain[j] < Gain[i]

\* GoldenExample.relevant_documents
RelevantDocuments(example) ==
    IF example.expected_documents = {} THEN {example.document} ELSE example.expected_documents

IsRelevant(chunk, example) ==
    \/ chunk.says \cap example.answer_spans # {}
    \/ chunk.document \in RelevantDocuments(example)
    \/ chunk.id \in example.expected_chunks

\* relevance_flags: the ranks of the relevant chunks.
RelevantRanks(chunks, example) == {i \in DOMAIN chunks : IsRelevant(chunks[i], example)}

Top(ranks) == {i \in ranks : i <= K}

\* _total_relevant: how many were retrieved, and no less than one.
TotalRelevant(ranks) == IF ranks = {} THEN 1 ELSE Cardinality(ranks)

Recall(ranks, total) == Ratio(Cardinality(Top(ranks)), total)
Precision(ranks) == Ratio(Cardinality(Top(ranks)), K)
ReciprocalRank(ranks) == IF ranks = {} THEN Zero ELSE <<1, Min(ranks)>>
HitRate(ranks) == IF Top(ranks) = {} THEN Zero ELSE One

Dcg(ranks) == SumFunctionOnSet(Gain, Top(ranks))

\* Mutant: the ideal ranking is always K deep.
NdcgOfDepthK(ranks, total) ==
    IF total <= 0 THEN Zero ELSE Ratio(Dcg(ranks), Dcg(1 .. K))

\* The ideal ranking has all the relevant chunks that fit first.
Ndcg(ranks, total) ==
    IF total <= 0 THEN Zero ELSE Ratio(Dcg(ranks), Dcg(1 .. IF total < K THEN total ELSE K))

\* A row of RetrievalEvaluator.evaluate_examples; latency is left out.
RetrievalRow(chunks, example) ==
    LET ranks == RelevantRanks(chunks, example)
        total == TotalRelevant(ranks)
    IN  [recall |-> Recall(ranks, total), precision |-> Precision(ranks),
         mrr |-> ReciprocalRank(ranks), ndcg |-> Ndcg(ranks, total),
         hit_rate |-> HitRate(ranks), retrieved |-> Len(chunks)]
=============================================================================
