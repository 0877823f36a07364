--------------------------- MODULE AnswerMetrics ---------------------------
(***************************************************************************)
(* How an answer is scored: the citations (evaluation/citation_eval.py),   *)
(* the lexical metrics (evaluation/metrics/generation.py) and the judges   *)
(* (evaluation/judges), an LLM's first and the lexical one when that fails.*)
(*                                                                         *)
(* An answer is a sequence of sentences, a sentence a sequence of tokens   *)
(* [word, cites, plain]: a word, or a marker [n], whose number is a word   *)
(* too for the metrics; plain, if it is written as str(n) is, and not [01].*)
(***************************************************************************)
EXTENDS Fractions, Sequences, SequencesExt

CONSTANTS
    Stopwords,    \* _STOPWORDS
    Replies       \* what the LLM's judge may reply: [kind, score]

ASSUME RepliesAssumption ==
    \A r \in Replies : /\ r.kind \in {"raises", "unparseable", "nan", "number"}
                       /\ r.score \in Int \X (Nat \ {0})

\* extract_citation_indices; the numbers of a marker start at 0.
Markers(sentence) == {sentence[i].cites : i \in DOMAIN sentence} \ {-1}
MarkersOf(answer) == UNION {Markers(answer[s]) : s \in DOMAIN answer}

\* parse_citations, which AnswerService uses too: the markers of a source.
Valid(markers, context) == markers \cap DOMAIN context

\* Mutant: a sentence that cites anything at all is not missing a citation.
MissingMarkers(answer, context) == {s \in DOMAIN answer : Markers(answer[s]) = {}}

\* The sentences of _missing_sentences: no marker of a source.
Missing(answer, context) == {s \in DOMAIN answer : Valid(Markers(answer[s]), context) = {}}

\* evaluate_citations, supports being the judge's verdict on each valid marker:
\* one half or more supports the claim.
EvaluateCitations(answer, context, supports) ==
    LET valid == Valid(MarkersOf(answer), context)
        supported == {n \in valid : AtMost(<<1, 2>>, supports[n])}
        unsupported == (MarkersOf(answer) \ valid) \cup (valid \ supported)
        missing == Missing(answer, context)
        all == Cardinality(supported) + Cardinality(unsupported) + Cardinality(missing)
    IN  [supported |-> Cardinality(supported), unsupported |-> Cardinality(unsupported),
         missing |-> Cardinality(missing),
         score |-> IF all = 0 THEN One ELSE <<Cardinality(supported), all>>]

-----------------------------------------------------------------------------
(* The lexical metrics.                                                    *)

Words(sentence) == [i \in DOMAIN sentence |-> sentence[i].word]
Tokens(answer) == FlattenSeq([s \in DOMAIN answer |-> Words(answer[s])])
ContentWords(words) == Range(words) \ Stopwords

\* faithfulness: sentences with three fifths of their words in the sources.
Faithfulness(answer, context) ==
    LET contextWords == UNION {ContentWords(context[c].words) : c \in DOMAIN context}
        Grounded(s) == LET words == ContentWords(Words(s))
                       IN  words # {} /\ AtMost(<<3, 5>>, <<Cardinality(words \cap contextWords),
                                                           Cardinality(words)>>)
    IN  Ratio(Cardinality({s \in DOMAIN answer : Grounded(answer[s])}), Len(answer))

Count(words, w) == Cardinality({i \in DOMAIN words : words[i] = w})

\* token_f1: a word of the answer counts while the truth has more of it.
Overlap(answer, truth) ==
    Cardinality({i \in DOMAIN answer :
                    Count(SubSeq(answer, 1, i - 1), answer[i]) < Count(truth, answer[i])})
TokenF1(answer, truth) ==
    IF answer = <<>> \/ truth = <<>> THEN Zero
    ELSE Ratio(2 * Overlap(answer, truth), Len(answer) + Len(truth))

\* answer_completeness
Completeness(answer, truth) ==
    Ratio(Cardinality(ContentWords(truth) \cap ContentWords(answer)),
          Cardinality(ContentWords(truth)))

\* _citing_sentence looks for the marker as str(n) writes it: the claim is the
\* sentences that have it so, or the whole answer.
Citing(answer, n) ==
    LET plainly == {t \in DOMAIN answer :
                       \E i \in DOMAIN answer[t] : answer[t][i].cites = n /\ answer[t][i].plain}
    IN  IF plainly = {} THEN DOMAIN answer ELSE plainly

\* LexicalJudge.citation_support.
Support(answer, context, n) ==
    LET claim == UNION {Range(Words(answer[s])) : s \in Citing(answer, n)}
        overlap == Ratio(Cardinality(claim \cap Range(context[n].words)), Cardinality(claim))
    IN  IF AtMost(<<1, 2>>, overlap) THEN One ELSE overlap

-----------------------------------------------------------------------------
(* FallbackJudge over LLMJudge and LexicalJudge.                           *)

\* Mutant: the score is taken as the model gave it.
VerdictUnclamped(reply, lexical) ==
    CASE reply.kind = "raises" -> lexical
      [] reply.kind = "unparseable" -> Zero
      [] reply.kind = "nan" -> One
      [] reply.kind = "number" -> reply.score

\* _parse_verdict, with the lexical verdict if anything raised: no JSON is 0, a
\* number is clamped, and min(1.0, nan) is 1.0.
Verdict(reply, lexical) ==
    CASE reply.kind = "raises" -> lexical
      [] reply.kind = "unparseable" -> Zero
      [] reply.kind = "nan" -> One
      [] reply.kind = "number" -> IF AtMost(reply.score, Zero) THEN Zero
                                  ELSE IF AtMost(One, reply.score) THEN One ELSE reply.score

Verdicts(lexical) == {Verdict(r, lexical) : r \in Replies}
=============================================================================
