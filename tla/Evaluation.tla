----------------------------- MODULE Evaluation -----------------------------
(***************************************************************************)
(* EvaluationRunner.run (evaluation/runner.py) as scripts/evaluate.py      *)
(* calls it: every golden example is retrieved for, then every example is  *)
(* answered and judged, the rows become a report, and the report is        *)
(* written in three formats to files that the next run overwrites.  The    *)
(* retriever, the service and the file system may fail at each call; then  *)
(* the run ends there.                                                     *)
(***************************************************************************)
EXTENDS RelevanceMetrics, AnswerMetrics

CONSTANTS
    Setups,       \* what is evaluated: [dataset, rankings, generation, responses, formats]
    MaxRuns       \* bound: how often the program is run

Formats == <<"json", "md", "csv">>

IsSequence(s) == s \in Seq(Range(s))

\* One set of rankings, and of the service's responses, for each example.  The
\* service does not answer with nothing, and answers from sources.
ASSUME SetupsAssumption ==
    /\ MaxRuns \in Nat \ {0}
    /\ \A s \in Setups :
           /\ IsSequence(s.dataset)
           /\ DOMAIN s.rankings = DOMAIN s.dataset /\ DOMAIN s.responses = DOMAIN s.dataset
           /\ s.generation \in BOOLEAN /\ s.formats \subseteq Range(Formats)
           /\ \A i \in DOMAIN s.dataset :
                  /\ s.dataset[i].answerable \in BOOLEAN /\ IsSequence(s.dataset[i].answer)
                  /\ \A chunks \in s.rankings[i] : IsSequence(chunks) /\ Len(chunks) <= K
                  /\ \A r \in s.responses[i] :
                         /\ r.refused \in BOOLEAN /\ IsSequence(r.sources)
                         /\ r.answer \in Seq(Seq([word : STRING, cites : Int, plain : BOOLEAN]))
                         /\ r.refused \/ (r.answer # <<>> /\ r.sources # <<>>)

VARIABLES
    setup,          \* the golden set, and what the parts under test may return
    runs,           \* how often the program was started
    status,         \* where run() is
    retrievalRows,  \* retr_rows
    responses,      \* the responses of the service so far
    generationRows, \* gen_rows
    summary,        \* the EvaluationReport
    unwritten,      \* write_reports: the set of the formats still to write
    published       \* the report files: by which run, and whether whole

evaluationVars == <<setup, runs, status, retrievalRows, responses, generationRows,
                    summary, unwritten, published>>

Dataset == setup.dataset
NoSummary == [retrieval |-> <<>>, generation |-> <<>>, per_question |-> <<>>]
Absent == [run |-> 0, whole |-> TRUE]

EvaluationBegin ==
    /\ runs = 0 /\ status = "idle" /\ retrievalRows = <<>> /\ responses = <<>>
    /\ generationRows = <<>> /\ summary = NoSummary /\ unwritten = {}
    /\ published = [f \in Range(Formats) |-> Absent]

EvaluationInit == setup \in Setups /\ EvaluationBegin

\* main(): the rows of a run before this one are gone, its files are not.
Run ==
    /\ status \in {"idle", "failed"} /\ runs < MaxRuns
    /\ runs' = runs + 1 /\ status' = "retrieving"
    /\ retrievalRows' = <<>> /\ responses' = <<>> /\ generationRows' = <<>>
    /\ summary' = NoSummary /\ unwritten' = {}
    /\ UNCHANGED <<setup, published>>

\* The retriever, the service, or the file system raises, and so does run().
Fail ==
    /\ status' = "failed"
    /\ UNCHANGED <<setup, runs, retrievalRows, responses, generationRows, summary, unwritten>>

-----------------------------------------------------------------------------
(* RetrievalEvaluator.evaluate_examples                                    *)

Unretrieved == status = "retrieving" /\ Len(retrievalRows) < Len(Dataset)

RetrieveExample ==
    /\ Unretrieved
    /\ LET next == Len(retrievalRows) + 1
       IN  \E chunks \in setup.rankings[next] :
               retrievalRows' = Append(retrievalRows, RetrievalRow(chunks, Dataset[next]))
    /\ UNCHANGED <<setup, runs, status, responses, generationRows, summary, unwritten, published>>

RetrievalFails == Unretrieved /\ Fail /\ UNCHANGED published

RetrievalDone ==
    /\ status = "retrieving" /\ Len(retrievalRows) = Len(Dataset)
    /\ status' = IF setup.generation THEN "generating" ELSE "reporting"
    /\ UNCHANGED <<setup, runs, retrievalRows, responses, generationRows, summary,
                   unwritten, published>>

-----------------------------------------------------------------------------
(* GenerationEvaluator.evaluate_examples                                   *)

Unanswered == status = "generating" /\ Len(responses) = Len(generationRows)
                                    /\ Len(responses) < Len(Dataset)
Judged(example, response) == example.answerable /\ ~response.refused

\* Mutant: a refusal is returned before the question is known to be unanswerable.
RefusalFirst(example, response) ==
    [answered |-> Judged(example, response), refused |-> response.refused,
     unanswerable |-> ~example.answerable /\ ~response.refused,
     unanswerable_correct |-> Zero,
     faithfulness |-> Zero, answer_correctness |-> Zero, answer_completeness |-> Zero,
     citation_accuracy |-> Zero]

\* A row before the judge is asked.
Unscored(example, response) ==
    [answered |-> Judged(example, response), refused |-> response.refused,
     unanswerable |-> ~example.answerable,
     unanswerable_correct |-> IF ~example.answerable /\ response.refused THEN One ELSE Zero,
     faithfulness |-> Zero, answer_correctness |-> Zero, answer_completeness |-> Zero,
     citation_accuracy |-> Zero]

\* AnswerService.answer, and the rows of _evaluate_one that need no judge.
AnswerExample ==
    /\ Unanswered
    /\ LET example == Dataset[Len(responses) + 1]
       IN  \E response \in setup.responses[Len(responses) + 1] :
               /\ responses' = Append(responses, response)
               /\ generationRows' = IF Judged(example, response) THEN generationRows
                                    ELSE Append(generationRows, Unscored(example, response))
    /\ UNCHANGED <<setup, runs, status, retrievalRows, summary, unwritten, published>>

ServiceFails == Unanswered /\ Fail /\ UNCHANGED published

BeingJudged == status = "generating" /\ Len(responses) > Len(generationRows)

\* The four calls of the judge; no reply of the model makes one of them raise.
JudgeExample ==
    /\ BeingJudged
    /\ LET example == Dataset[Len(responses)]
           response == Last(responses)
           said == Tokens(response.answer)
           context == response.sources
           row == Unscored(example, response)
       IN  \E f \in Verdicts(Faithfulness(response.answer, context)),
              c \in Verdicts(TokenF1(said, example.answer)),
              a \in Verdicts(Completeness(said, example.answer)) :
           \E supports \in [Valid(MarkersOf(response.answer), context) ->
                               UNION {Verdicts(Support(response.answer, context, n)) :
                                          n \in Valid(MarkersOf(response.answer), context)}] :
              /\ \A n \in DOMAIN supports :
                     supports[n] \in Verdicts(Support(response.answer, context, n))
              /\ generationRows' = Append(generationRows,
                   [row EXCEPT !.faithfulness = f, !.answer_correctness = c,
                               !.answer_completeness = a,
                               !.citation_accuracy =
                                   EvaluateCitations(response.answer, context, supports).score])
    /\ UNCHANGED <<setup, runs, status, retrievalRows, responses, summary, unwritten, published>>

GenerationDone ==
    /\ status = "generating" /\ Len(generationRows) = Len(Dataset)
    /\ status' = "reporting"
    /\ UNCHANGED <<setup, runs, retrievalRows, responses, generationRows, summary,
                   unwritten, published>>

-----------------------------------------------------------------------------
(* The report and its files.                                               *)

AggregateRetrieval(rows) ==
    [key \in {"recall", "precision", "mrr", "ndcg", "hit_rate"} |->
        Mean([i \in DOMAIN rows |-> rows[i][key]])]

Quality == {"faithfulness", "answer_correctness", "answer_completeness", "citation_accuracy"}

\* Quality is averaged over the answered examples.
AggregateGeneration(rows) ==
    LET answered == {i \in DOMAIN rows : rows[i].answered}
        unanswerable == {i \in DOMAIN rows : rows[i].unanswerable}
        refusals == Cardinality({i \in DOMAIN rows : rows[i].refused})
        Average(key) == Mean([i \in answered |-> rows[i][key]])
    IN  [faithfulness |-> Average("faithfulness"),
         answer_correctness |-> Average("answer_correctness"),
         answer_completeness |-> Average("answer_completeness"),
         citation_accuracy |-> Average("citation_accuracy"),
         refusal_rate |-> Ratio(refusals, Len(rows)),
         unanswerable_accuracy |-> Mean([i \in unanswerable |-> rows[i].unanswerable_correct])]

\* dict.update
Updated(entry, row) ==
    [key \in DOMAIN entry \cup DOMAIN row |->
        IF key \in DOMAIN row THEN row[key] ELSE entry[key]]

\* _per_question: the rows of an example, by its place in the dataset.
PerQuestion ==
    [i \in DOMAIN Dataset |->
        LET entry == Updated([answerable |-> Dataset[i].answerable], retrievalRows[i])
        IN  IF generationRows = <<>> THEN entry ELSE Updated(entry, generationRows[i])]

\* The report is assembled; write_reports makes the directory and writes the
\* formats asked for in a fixed order, and csv only if there is a question.
Assemble ==
    /\ status = "reporting"
    /\ summary' = [retrieval |-> AggregateRetrieval(retrievalRows),
                   generation |-> IF setup.generation THEN AggregateGeneration(generationRows)
                                  ELSE <<>>,
                   per_question |-> PerQuestion]
    /\ unwritten' = {f \in setup.formats : f = "csv" => Dataset # <<>>}
    /\ status' \in {"writing"} \cup (IF setup.formats = {} THEN {} ELSE {"failed"})
    /\ UNCHANGED <<setup, runs, retrievalRows, responses, generationRows, published>>

Writing == status = "writing" /\ unwritten # {}

\* The format that is written next.
Turn == CHOOSE f \in unwritten :
            \E i \in DOMAIN Formats : /\ f = Formats[i]
                                     /\ \A j \in 1 .. i - 1 : Formats[j] \notin unwritten

Write ==
    /\ Writing
    /\ published' = [published EXCEPT ![Turn] = [run |-> runs, whole |-> TRUE]]
    /\ unwritten' = unwritten \ {Turn}
    /\ UNCHANGED <<setup, runs, status, retrievalRows, responses, generationRows, summary>>

\* Mutant: a format that cannot be written is passed over.
WriteOthers ==
    /\ Writing
    /\ published' = [published EXCEPT ![Turn] = [run |-> runs, whole |-> FALSE]]
    /\ unwritten' = unwritten \ {Turn}
    /\ UNCHANGED <<setup, runs, status, retrievalRows, responses, generationRows, summary>>

\* The file cannot be opened, or it is, which empties it, and the rest fails.
WriteFails ==
    /\ Writing /\ Fail
    /\ \/ UNCHANGED published
       \/ published' = [published EXCEPT ![Turn] = [run |-> runs, whole |-> FALSE]]

Return ==
    /\ status = "writing" /\ unwritten = {}
    /\ status' = "idle"
    /\ UNCHANGED <<setup, runs, retrievalRows, responses, generationRows, summary,
                   unwritten, published>>

EvaluationNext ==
    \/ Run \/ RetrieveExample \/ RetrievalFails \/ RetrievalDone
    \/ AnswerExample \/ ServiceFails \/ JudgeExample \/ GenerationDone
    \/ Assemble \/ Write \/ WriteFails \/ Return

EvaluationSpec == EvaluationInit /\ [][EvaluationNext]_evaluationVars

-----------------------------------------------------------------------------
(* What the evaluation promises.                                           *)

\* Every score of a row is between 0 and 1, as JudgeVerdict and the metrics
\* promise, and the rows are no more than the examples.
EvaluationTypeOK ==
    /\ setup \in Setups /\ runs \in 0 .. MaxRuns
    /\ status \in {"idle", "retrieving", "generating", "reporting", "writing", "failed"}
    /\ Len(retrievalRows) <= Len(Dataset) /\ Len(responses) <= Len(Dataset)
    /\ Len(generationRows) \in Len(responses) - 1 .. Len(responses)
    /\ \A i \in DOMAIN retrievalRows :
           \A key \in {"recall", "precision", "mrr", "ndcg", "hit_rate"} :
               IsScore(retrievalRows[i][key])
    /\ \A i \in DOMAIN generationRows :
           \A key \in Quality \cup {"unanswerable_correct"} : IsScore(generationRows[i][key])
    /\ unwritten \subseteq setup.formats
    /\ published \in [Range(Formats) -> [run : 0 .. runs, whole : BOOLEAN]]

\* One ranking is scored in five ways, by functions that do not know of each
\* other.  They agree: recall is the hit rate, for _total_relevant counts what was
\* retrieved; precision, mrr and ndcg are above 0 just when there is a hit, and
\* no more than 1; the relevant chunks fit below the first of them; ndcg is 1
\* only when a relevant chunk is first, and always when all retrieved are
\* relevant.  No mean exceeds the mean hit rate.
RetrievalScoresAgree ==
    /\ \A i \in DOMAIN retrievalRows :
           LET row == retrievalRows[i]
               found == row.precision[1]
           IN  /\ row.hit_rate \in {Zero, One} /\ Equal(row.recall, row.hit_rate)
               /\ \A key \in {"precision", "mrr", "ndcg"} :
                      (row[key][1] > 0) <=> (row.hit_rate = One)
               /\ row.hit_rate = One => row.mrr[2] + found - 1 <= row.retrieved
               /\ Equal(row.ndcg, One) => row.mrr = One
               /\ row.retrieved > 0 /\ found = row.retrieved => Equal(row.ndcg, One)
    /\ status \in {"writing", "idle"} /\ runs > 0 =>
           /\ Equal(summary.retrieval.recall, summary.retrieval.hit_rate)
           /\ \A key \in {"precision", "mrr", "ndcg"} :
                  AtMost(summary.retrieval[key], summary.retrieval.hit_rate)

\* The report of the generation is about the responses there were, question by
\* question: refusals count for the refusal rate, and for the accuracy on
\* unanswerable questions when right; an answer to an unanswerable question
\* counts nowhere in the quality, which is that of the other answers.
OutcomesCounted ==
    status \in {"writing", "idle"} /\ runs > 0 /\ setup.generation =>
        LET all == DOMAIN Dataset
            refused == {i \in all : responses[i].refused}
            unanswerable == {i \in all : ~Dataset[i].answerable}
            answered == all \ (refused \cup unanswerable)
            generation == summary.generation
            Total(key) == Sum([i \in all |-> generationRows[i][key]])
        IN  /\ Equal(generation.refusal_rate, Ratio(Cardinality(refused), Len(Dataset)))
            /\ Equal(generation.unanswerable_accuracy,
                     Ratio(Cardinality(refused \cap unanswerable), Cardinality(unanswerable)))
            /\ \A key \in Quality :
                   generation[key][1] * Total(key)[2] * Cardinality(answered)
                       = Total(key)[1] * generation[key][2]
            /\ \A i \in all : LET row == summary.per_question[i]
                             IN  /\ row.answerable = Dataset[i].answerable
                                 /\ row.refused = responses[i].refused

\* Whatever the judge says of an answer's citations, each distinct marker is
\* counted once, as supported or not, and each sentence without a valid one as
\* missing: the sentences that citation_coverage (generation/citations.py) does
\* not count.  The score is 1 only if that coverage is.
CitationsAgree ==
    BeingJudged =>
        LET answer == Last(responses).answer
            context == Last(responses).sources
            covered == {s \in DOMAIN answer :
                           \E n \in Markers(answer[s]) : 1 <= n /\ n <= Len(context)}
        IN  \A supports \in [Valid(MarkersOf(answer), context) -> {Zero, <<1, 2>>, One}] :
                LET r == EvaluateCitations(answer, context, supports)
                IN  /\ r.supported + r.unsupported = Cardinality(MarkersOf(answer))
                    /\ r.missing + Cardinality(covered) = Len(answer)
                    /\ Equal(r.score, One) => covered = DOMAIN answer /\ r.unsupported = 0

\* A report file is never newer than one written before it, and one that is not
\* whole is the last its run wrote: so files of one run that are all there are
\* whole, but for the last, and a partial set is recognised by its runs.
ReportsOrdered ==
    \A i, j \in DOMAIN Formats :
        i < j /\ {Formats[i], Formats[j]} \subseteq setup.formats =>
            /\ published[Formats[j]].run <= published[Formats[i]].run
            /\ ~published[Formats[i]].whole =>
                   published[Formats[j]].run < published[Formats[i]].run
=============================================================================
