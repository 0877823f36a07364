# Verification of the RAG engine

TLA+ models of the retrieval-augmented generation engine in this repository: what the API, the
vector store, the in-memory indexes and the answer pipeline do, checked with TLC on small
instances and, where stated, proved with TLAPS for every value of the constants. Paths below are
relative to the repository root (`src/` in `PROJECT.json`).

## 1. Inventory

| Part | State it keeps | Operations | Talks to |
|---|---|---|---|
| API documents (`api/routers/documents.py`) | none of its own | ingest, list, delete | store, chunker, embedder, BM25 index |
| API query (`api/routers/query.py`, `services/answer_service.py`) | none of its own | query: access check, retrieve, rerank, gate, generate, refuse | retrievers, reranker, LLM client, metrics |
| Composition root (`api/services.py`, `api/app.py`) | `app.state.services` | start-up, `reindex_sparse` | everything |
| Vector store (`storage/qdrant_store.py`, `storage/memory_store.py`) | the collection (in Qdrant) | ensure, upsert, search, delete, scroll | Qdrant |
| Retrieval (`retrieval/`) | BM25 index per process | dense, sparse, hybrid (RRF), multi-query, cached | store, embedder, cache |
| Reranking (`reranking/`) | none | cross-encoder and lexical rerank | - |
| Generation (`generation/`) | none | gate, prompt, LLM call, sentinel, citations | LLM providers |
| Metrics (`utils/metrics.py`) | counters, latencies | record, observe, snapshot | - |
| Ingestion (`ingestion/`, `scripts/ingest.py`) | the report of a batch | load, segment, chunk, embed, upsert, skip | store |
| Caches (`services/cache/`, `retrieval/cached.py`) | TTL entries of results and embeddings | get, set, factory fallback | redis or memory |
| Query rewriting (`services/query_rewriting/`) | none | rewrite, expand | - |
| Evaluation (`evaluation/`, `scripts/evaluate.py`) | rows of a run, report files | metrics, judges, runner, comparison, report | retrievers, answer service, judges |
| Demo (`scripts/bootstrap_demo.py`) | none | seed the collection | composition root |
| Web client (`web/`, `frontend/app.py`) | view state of panels | ingest, query, metrics polling | API |

How they interact. Handlers are `async def` functions whose bodies never await, and the container
runs one uvicorn worker, so inside one process a request runs from its first line to its last
without interruption. Concurrency is between processes: API workers or replicas, and
`scripts/bootstrap_demo.py`, which seeds the same Qdrant collection from a process of its own. They
share the collection and interleave at every Qdrant call; each keeps a BM25 index in memory that
only it rebuilds. Requests are not transactions: an ingest is a sequence of upserts and a rebuild
of the index, a delete is a paged scan, a delete call and another paged scan, and any call can
fail, with or without having taken effect.

What is hard here, and which property of which module is about it, is listed line by line under
`hazards` in `PROJECT.json`.

What makes each part correct:

* store and index: a paged scan that races writers delivers a regular read; what was confirmed to
  a client as ingested is searchable, as deleted is gone; copies of a chunk never disagree, above
  all not about its ACL; every request ends;
* answer pipeline: an answer is given only from gated context, a refusal carries no citations and
  no confidence, every outcome is counted once, errors are not answers;
* metrics: a snapshot taken between two half-recorded requests is still consistent;
* fusion and ranking: nothing is lost, duplicated, or ranked against every list;
* chunking: nothing of the text is lost but what a separator or the tokenizer swallows, and a chunk
  exceeds the token budget by no more than is stated;
* caches: an answer is no older than a TTL and a call, and shown only to a scope of access it was
  computed for;
* ingestion runs: a report says what the collection has, wherever the run ends; a chunk is cited
  with the section or page its text is in;
* evaluation: scores of one ranking agree, every outcome counts once, a failure leaves report files
  whose origin can be told.

## 2. Plan

Order of work, most important behaviour first.

| # | Module | About | Composes / refines | Status |
|---|---|---|---|---|
| 1 | `Corpus` | collection, paged scans, ingest / list / delete / query handlers, seeding, BM25 indexes, crashes | implements `RegularIndex` | done, proved |
| 2 | `RegularIndex` | abstract promise: an index is empty or one regular read of the store | - | done |
| 3 | `Metrics` | request counters updated under separate acquisitions of one lock | - | done, proved |
| 4 | `Answer` | query handler and answer pipeline: access check, retrieve, rerank, gate, generate, refuse, count | uses `Fusion` | done, proved |
| 5 | `Fusion` | reciprocal rank fusion as operators | - | done, proved |
| 6 | `Packing`, `Splitting`, `RecursiveChunker`, `FixedSizeChunker`, `SemanticChunker` | the three chunkers | composed by `Chunkers` | done, proved |
| 7 | `RetrievalCache` | cached and multi-query retrieval over a corpus that changes; Redis that comes and goes | `Searching`, `QueryRewriting`, `Fusion`; implements `BoundedStaleness` | done, proved |
| 8 | `BoundedStaleness` | abstract promise: an answer is that of a corpus at most so old | - | done |
| 9 | `IngestRun` | `scripts/ingest.py`: files, directories, skipped documents, aborts | `Loaders` | done, proved |
| 10 | `Loaders` | what each loader makes of the items of a file | - | done, proved |
| 11 | `Evaluation` | `scripts/evaluate.py`: rows, judges, aggregation, report files | `RelevanceMetrics`, `AnswerMetrics`, `Fractions`; with 9 in `Offline` | done, proved |

The proofs are in a module for each composition (`CorpusProofs`, `MetricsProofs`, `AnswerProofs`,
`ChunkersProofs`, `RetrievalCacheProofs`, `OfflineProofs`), over the lemmas of `FoldProofs` and `FusionProofs`.

What would be worth adding: the web panels, once they promise anything about replies that overtake one
another.
## 3. How the modules correspond to the code

`map` in `PROJECT.json` names the lines of every definition. The outlines:

**`Corpus`.** One process is a worker (the API) or a seeder (`bootstrap_demo`). `store` is the set of
points of the Qdrant collection, `sparse[p]` the chunks of process *p*'s BM25 index. `pc[p]` is the
next call of the running handler and `op[p]` the operation it serves; `todo`, `target`, `batch`,
`acc` and `offset` are the handler's locals. Each call to Qdrant is a step, so that processes
interleave exactly there; everything between two calls belongs to the step of the first of them. A
write may be applied, in part or in full, and still be reported as failed (`Upsert`, `Erase`,
`CreateCollection`, `CreatePayloadIndex`); any other call may raise without effect (`CallFails`).
`Raise` is what the `except` clauses make of it: a 502 for a request, an empty corpus for
`build_services`. `ReadPage` is one iteration of the loop of `scroll_all`; what happens to the list
it returns is part of the step that reads the last page (`FinishBoot`, `FinishList`, `FindDoomed`,
`FinishReindex`). `Crash` and `Start` lose and rebuild everything in memory. `must`, `may`, `acked` and
`purged` are history variables and guard nothing. A chunk is its id, document, part and ACL, its text
and vector being no part of any decision; scores are abstracted to "any `CandidateK` of the visible
chunks".

**`RegularIndex`.** The abstract index. Its only step replaces the index by a set between `must`
(stored throughout the read) and `may` (stored at some point of it), or empties it.

**`Metrics`.** `inside` is who is in a `with self._lock` block: a set, so that mutual exclusion is a
consequence of the guard `Free` and not of the data type. `Read` and `Write` are the two halves of
`_counters[name] = _counters.get(name, 0) + amount`. `Follow` is the order of `record_request` and
`observe_latency`. The API calls the registry from one event loop; the threads are those the class is
documented for ("Thread-safe accumulator").

**`Answer`, `Fusion`.** `pc` follows `AnswerService.answer` inside the handler. The two retrievers
return any rankings without repetition, the cross-encoder any scores, the LLM any completion of
`Completions`; what the code does with them is exact, `Fuse` included: shares `1/(k + rank)` are
compared as fractions of a common denominator, ties are broken by the order of first appearance in the
dictionary, and `Rerank` picks the stable order (`Best`). Scores are natural numbers; only their order
and their product with the coverage matter, and confidence is kept as the fraction `part / of`, without
the rounding to four places. `Generated` is the part of
`GroundedGenerator`, `Answered` and `Refusal` the responses. Markers are numbers, valid ones being those in `1 .. n`; citations are a
set (their order is left out). `Raise` is an exception of a call that is really made: no model is
called for an empty candidate list.

**The chunkers.** `Splitting` defines `_recursive_split` over texts given by the separators between
their tokens; the parts of a text are a set, which `InOrder` lists from left to right. `". "` is a separator whose period disappears with it. A token unknown to the tokenizer is
a whole word, or what punctuation leaves of one (`Unknowable`). Only a hard split decodes: its pieces lose
their unknown tokens, are dropped if nothing is left, and carry `##`, which counts as two tokens more, if they
begin inside a word (`HardSplit`, `Text`, `Tokens`). `Packing` is `_pack` and `_carry_overlap` as loops,
unit by unit; units are given by where they end, so that the tokens of a range are one difference.
`FixedSizeChunker` and `SemanticChunker` are the other two loops; `TokenCount` is what `make_chunk` counts, in
the text a window decodes to and not in the tokens it was cut from. `Chunkers` gives a segment to one of
the three.

**`RetrievalCache`, over `Searching`, `QueryRewriting` and `Fusion`.** A request is one call of
`retrieve`, of a `CachedRetriever` or of a `MultiQueryRetriever` over it; `todo[r]` are its searches, one
for each variant. Nothing locks the cache, so every call that reaches it, the embedder or the store is a
step: `Hit` or `Miss` (and `Pop`, which removes whatever is under the key by then), `Embed` with the
embedding cache, `Retrieve`, `Set`. `Change` and `Tick` are the corpus and the clock; `Tick` also drops
expired keys of Redis, where the dictionary keeps them until they are read. With Redis, the server may go
and come back (`RedisToggles`), and each call of a client that does not reach it raises (`CacheFails`).
The lists of the variants are fused by chunk id, as `reciprocal_rank_fusion` does (`Ids`, `Fuse`): a chunk
whose ACL changed between two variants is one item, whose shares add up, shown as the first list has it
(`Merge`, `Reply`). An entry records `asof`, the time of its search, which the code does not, and nothing reads but the
proofs. Hashing a key keeps apart what the key's parts keep apart. `MaxCall` bounds the time from a
search to the write of its result, without which nothing bounds how late a result is cached.

**`BoundedStaleness`.** The abstract retriever: each answer is that of the search asked, in some contents
the store had in the last `Bound` units. `RetrievalCache` implements it with `Bound = TTL + MaxCall - 1`.

**`Loaders`, `IngestRun`.** A file is the sequence of its items: lines, nodes of a parsed page, pages.
`Markdown` and `Html` are folds of the loops over them, with the buffer and the current title as their
state; `Rejected` and `Breaks` are the exceptions that are `ValueError` or `FileNotFoundError` and those
that are not. `IngestRun` follows `main()` (`stage`, `argument`) and, inside `ingest_paths`, one document at
a time: loaded and chunked in one step, embedded and stored in the next, which may fail with any part of the
document's chunks stored (`PartlyStored`, as `Upsert` in `Corpus`): with a `ValueError`, which skips the
document (`IndexRejects`; a reply of the store that is no JSON is one), or with another exception, which ends
the run (`IndexBreaks`). The numbers of chunks a segment is cut into are any up to `MaxParts`. `visits`,
`passed`, `first` and `reported` are history variables.

**`RelevanceMetrics`, `AnswerMetrics`, `Evaluation`.** Scores are exact fractions (`Fractions`), where the
code rounds to four places. The weights of nDCG are any decreasing natural numbers (`Gain`). An answer is
its sentences' tokens; what is judged as its citing part are the sentences with a marker, or the whole answer
if a marker is found in no sentence (`Citing`); a judge's reply is a number, possibly out of range, NaN, text without a verdict, or
an exception, and `Verdict` what `_parse_verdict` and `FallbackJudge` make of it. The evaluation
retrieves for every example, then answers and judges each, aggregates, and writes the report files one
after another; `published` is by which run each was last written, and whether whole. `Offline` runs
either program; they share nothing.

## 4. The runs

| Run | Instance | What it shows |
|---|---|---|
| `corpus_one_worker` | one worker, three ids, one-point pages, requests of two versions of a document with different ACLs and of a document without chunks, three kinds of caller | copies agree with the store and queries stay within the caller's ACL (`CopiesAgree`, `QueriesConfined`), through crashes and failed calls |
| `corpus_two_workers` | two workers, one document, two ids, one-point pages | scans that race writers are regular; what a 200 reply promises about ingest and delete holds (`ScanRegular`, `ConfirmedIngestIndexed`, `ConfirmedDeleteFinal`, `DeleteTakesAll`) |
| `corpus_seeding` | a worker and a seeder, two ids, one-point pages, fair | every index refines `RegularIndex`; every request that has begun ends (`RequestsAnswered`) |
| `corpus_reingest` | one worker | counterexample: a document ingested twice is stored twice |
| `corpus_stale_index` | one worker, queries of members | counterexample: a deleted chunk is returned after a failed delete |
| `metrics` | three requests, two readers | no update lost, snapshots consistent and growing |
| `answer` | four chunks, rankings of up to three, the best two of them, four scores, completions of up to two sentences, three queries | gate, confidence, sources, counters, and the two properties of fusion |
| `chunkers` | chunk size 3, overlap 2; texts of up to five tokens and some of seven, and up to six with unknown tokens; segments of up to seven tokens, known or not, whole words or pieces; up to five sentences | what each chunker loses, divides, repeats and where it breaks |
| `chunkers_budget` | as `chunkers`, texts of words | counterexample: a chunk above `chunk_size` |
| `retrieval_cache` | two requests, plain or of two variants, by a caller in the group and one outside; one update that deletes a chunk and restricts another; TTL 1, three times | no answer crosses an access boundary or is too old (`CacheConfined`, `StalenessBounded`), and what a multi-query reply consists of |
| `cache_unreachable` | as `retrieval_cache` | counterexample: Redis unreachable from the start fails retrievals |
| `offline` | every file of up to three items of each kind; command lines over eight files of different fates, in and out of a directory; golden sets of up to two questions with every ranking of up to three of four chunks, and nine responses; two evaluations | what a report and a citation say of a file (`ReportAccurate`, `NearestProvenance`); that scores, counts and report files are consistent |

**Bounds and why they are enough.** `ChunkIds` bounds how many chunks are ever ingested: two are
needed for a page boundary to fall between a chunk that stays and one that goes, a third for an id on
each side of it. Pages of one point put a boundary everywhere. A run out of ids behaves like an upsert
that fails. Two processes suffice for every pairwise race, as all sharing is through the store; the
theorems cover any number. In `metrics` three requests allow one to be at each of the three counters.
In `answer` `RrfK` 2 and rankings of three keep `CandidateK <= RrfK + 1`, the boundary up to which
agreement of both retrievers outranks any single list (the configuration's 20 and 60 are inside it); a threshold in
the middle of four scores gives weak and strong contexts; markers `[0]` and `[3]` lie just outside a
context of two. `MaxQueries` is three, one for each status. In `chunkers` an overlap one below the chunk size is the extreme
the constructor admits; percentile 40 of four similarities falls between two ranks. In `retrieval_cache` with TTL 1 and calls of
up to one unit, three times let an entry be filled late, be hit at the end of its life, and expire between
the look and the pop. Two requests give every interleaving of two searches of one key: one fills while the
other looks, or fills it too. A third search, which would read what a late fill overwrote or find that a pop
took a fresh entry, is beyond the instance; that part rests on the theorems, which hold for any number of
requests. Three items put a heading before,
between and after texts; three ranks of four chunks give every number of hits at every place;
`MaxRuns` is two for files of an earlier run to be found by a later.

`CHECK_DEADLOCK FALSE` is set where the system may stop: nobody need send a request, queries are
bounded, a chunker, a retrieval and the programs of `Offline` end. In `metrics` readers can always ask again, and deadlock is checked.

**Fairness.** `FairSpec` assumes weak fairness of `Progress(p)` for each process: a handler that runs
keeps running, and its calls return or raise (the Qdrant client has a timeout). The handlers never
await, so nothing else in the process can keep one from its next step. Nothing is assumed of clients,
operators, crashes or failures. That a scan ends although others write rests on each page moving the
offset strictly forward in a finite space of ids: two ids here, 2^128 in Qdrant. In `Corpus` alone liveness is in
question: elsewhere a call goes through finitely many steps without waiting for anyone.

**Symmetry** is used only in runs of invariants and of the step property of `metrics`, over sets whose
members the modules never order or name; in `retrieval_cache` over the two requests, which `StalenessBounded`
treats alike.

## 5. What is proved

Every safety property and every step property that a passing run checks is also a theorem. The theorems rest on the named assumptions beside the constants and on nothing
else. Most state what constructors and settings enforce (`chunk_overlap < chunk_size`, a threshold in range,
positive limits, a percentile up to 100). The others state what the data are:

* `RankingAssumption` (`Searching`): the store has one point for each chunk id, as Qdrant has, and a
  ranking gives each chunk a place of its own;
* `TextsAssumption`: `Texts` has every text a search is made for;
* `SemanticAssumption`, `InputsAssumption` (chunkers): there is one similarity fewer than there are
  sentences, and no unit is empty, which is what `split_sentences` and `_recursive_split` deliver;
* `SegmentsAssumption`: what the recursive chunker is given are texts, whose units are the ones
  `_recursive_split` makes of them;
* `DisksAssumption`, `SetupsAssumption`, `RepliesAssumption` (offline programs): the types of files, of a
  golden dataset, and of what retrievers, the service and a judge return. `OfflineAssumption` says that there
  is some disk and some setup, so that the program that is not run has one to rest at;
* `GainAssumption`: the discounts of nDCG are positive and fall with the rank, as `1 / log2(rank + 1)` does.

**`FoldProofs`**: what the others need of finite sets. Loops that add up, filter or sort are written with
folds, which the library defines by recursion over subsets. The induction theorems of the library take an
operator, which the provers cannot instantiate; `SetInduction` and `NatInductionSet` take the *set* of those
that have the property instead, and that suffices wherever the property can be comprehended over a set known
beforehand. From them follow: a fold over a finite set exists and is unique; sums unfold, can be taken in any
order, are monotone, and dominate termwise; a product is divisible by each factor; the elements ahead of each
number a strict order; a sorted sequence is the one `SetToSortSeq` chooses.

**`FusionProofs`**: `Fuse` for any lists. `ScoreIsSum` (a score is a sum of exact shares of a common
denominator), `BeatsIsOrder` (score, then first appearance, is a strict order) and `FuseIs` (the result is the
head of that order, without repetition, as long as there is room) are the lemmas; `ScoreDominates` (a chunk
no worse in every list scores no less) and `BothBeatOne` (two ranks up to `k + 1` outweigh any single one)
are the two facts about reciprocal ranks.

**`CorpusProofs`**, for any number of workers, seeders, documents, groups, ids and any page size.
`TypeOK` is inductive. The safety properties are not: `IInv` adds

* `ControlInv`, `HistoryInv`: where a process stands in its operation; while it watches the store,
  `must[p]` is within the store and the store within `may[p]`;
* `UsedInv`, `OneChunkPerId`: every id in any copy has been drawn, and an id names one chunk wherever
  copies of it are (store, indexes, answers, histories). `CopiesAgree` alone is not inductive, since a
  copy may outlive the stored chunk and must not meet another of the same id later: fresh ids
  (`FreshIds`) are what prevents it;
* `ConfirmedStays`: while a scan is open, whatever the process has confirmed or is about to, and is
  still stored, was stored throughout, so the scan will deliver it;
* `DoomedInv`, `ErasedInv`: the ids to delete include all of the document that stayed stored, and
  deleted ids are in no later `may`, so no open scan can bring them back.

`ScanRegular`, `ConfirmedIngestIndexed`, `ConfirmedDeleteFinal`, `CopiesAgree`, `DeleteTakesAll` and
`QueriesConfined` follow, and the step simulation of `RegularIndex` (`ImplementsRegularIndex`): every
step of `Corpus` opens, continues, closes or publishes a read, or leaves the index alone.

**`MetricsProofs`**, for every finite set of requests and any readers. `LockInv` says that one thread
at most is inside and what it has read is still true; each counter is the cardinality of the requests that
have passed it (`NothingLost`), and as the sets are nested so are the numbers (`SnapshotConsistent`);
snapshots are bounded by counters, which only grow (`SnapshotsGrow`).

**`AnswerProofs`**, for all rankings, scores, completions, thresholds and limits. `ControlInv` carries
the gate's verdict from `Proceed` to the reply; `ContextInv` says that the first score of the context
is the best, so that `TopScore` is defined and confidence bounded by it; `CoverageBounded` and
`Products` are the arithmetic of coverage. `NoGenerationOnWeakContext`, `ConfidenceGrounded` and
`EveryReplyCounted` follow. `ShowsOnlyRetrieved` needs `SourcesInv`, which follows the chunks from the
retrievers through fusion, reranking and generation to the reply, each of which must neither add nor repeat
one. `FusionRespectsRankings` and `AgreementWins` look at the state after `Retrieve` alone and are `FuseIs`,
`ScoreDominates` and `BothBeatOne` of its lists.

**`ChunkersProofs`**, for every budget, overlap, percentile and segment.

* `Packing`: `OverBudgetByOverlapOnly`, `NothingSkipped`, `OverlapMaximal`, `Greedy`. Because a range's
  tokens are the difference of two ends, `TokensInv` (the running total equals that difference) needs no
  induction over the units.
* `Splitting`: `SplitAsNeeded`, for texts of any length. `_recursive_split` is a recursive function with one
  level for each separator. That there is such a function is proved by building it from the finest level up
  (`CutsAre`); the induction over the levels (`CutsWell`) is then five uses of one step (`PartsCutWell`).
  What goes down a level is `Whole`: the separators already tried are left in a part only where a period
  stands alone, the one case in which a separator is found and ignored (that none is left would be false).
  From it, whatever is cut at a separator lies in a stretch without coarser ones
  that is itself above the budget (`EnclosingLarge`); at the last level none is left at all, so that what a
  hard split loses is of one word above the budget (`WordLarge`). The parts of a level are a set, and `InOrderLists` says
  that the list they stand for is the text from left to right.
* `FixedSizeChunker`: `WindowsCover` needs `FixedInv`, which says which windows were passed over because they
  decode to nothing, that the windows start at multiples of the step, and that the loop stops only when the
  last one has reached the end. `CountIs` bounds the count of the decoded text.
* `SemanticChunker`: `SentencesChunked` needs `HandInv` (what is in hand starts where the last chunk ends, and
  is over the budget only as a single sentence). `BreaksAtShifts` needs `Reasons` and `Followed` (each end so
  far had a reason, each shift so far was an end), and of the percentile that it lies between two of the
  similarities, for which the sorted sequence is taken to be any that has as many elements up to each value
  as there are (`Ordered`), which is what sorting is for. The attempt to prove an earlier form of it
  failed on a segment of one sentence at percentile 100, where there is no similarity to compare: the property
  now says `Count > 1`.

**`RetrievalCacheProofs`**, for any requests, corpora, updates, TTL and synonyms. `CacheConfined` says
nothing of what the cache holds, so it is not inductive; `Sound` adds that an entry is the hits of the one
search its key stands for, in a corpus the store had at `asof`, and expires at most `MaxCall + TTL` after
that (`EntriesSound`); that a cached vector is that of its text; and that what a request has found answers
the search it is at (`PendingSound`), which must hold across the steps of others. That a key stands for one
search is a lemma (`KeyInjective`; the assumption that no group is called `*` is needed exactly there). A
pop may take a fresh entry: it loses a hit and nothing else. From the invariant, a live entry is recent
(`LiveEntryRecent`), and each step of `RetrievalCache` is one of `BoundedStaleness` or a stutter
(`CacheImplementsPromise`). `MultiQuerySound` needs `Planned`: at any time the searches answered and those
left are, in order, the variants `expand_query` made, which differ and start with the rewritten query; the
rest is `FuseIs` of the ids in the answers, and `MergeIs`, which takes each id back to a chunk some answer
has.

**`OfflineProofs`**, for any files, command lines, datasets, rankings, responses and judges. The two programs
share nothing: `EachProgram` gives each its own specification, under which its theorems are stated, and
`PromisesKept` puts them together again.

* `ReportAccurate` looks back at every report, so the invariant `Counts` says why later steps cannot disturb
  them: what is stored was made by an earlier visit or by the one under way, what is about to be stored
  belongs to the last visit, and no later visit adds to the chunks of an earlier one. What a failed upsert
  leaves is any part of a document, so nothing is said of how many of its chunks are stored; that they are of
  a file that could be loaded is `Provenance`, as a chunk was made of the segments of its file.
* `NearestProvenance`: the loop of a loader is unfolded (`Walked`) and keeps an invariant, `Cutting`: its title
  is the nearest at the item it has reached, buffer and segments share out the text so far, each under the
  title of its positions. Of that, `SegmentsRight` is what is left after the last flush. The pages of a PDF are
  numbered by the pages ahead of them. On top, `Provenance` says that a chunk has what its segment has, which
  no later visit changes.
* `RetrievalScoresAgree`: the ideal gain dominates because the relevant ranks map one to one to the first ranks
  without moving down. Means are sums of fractions, of which the order does not matter.
* `OutcomesCounted`, `CitationsAgree`, `ReportsOrdered`, with the types: `RunInv` says for each stage of a run
  that its rows are those of the examples and responses so far (`RowRight`), that the summary is computed from
  the rows that are still there, and that of the files due those written come first. A run that fails leaves
  older files, so the order is kept between runs, not only within one.

**Only model-checked**:

* `RequestsAnswered`, which is liveness: the prover handles neither fairness nor ENABLED;
* the counterexamples of section 6, which are runs by their nature.

## 6. Where code and documentation disagree

Shown by runs:

* `docs/architecture.md` promises idempotent re-ingestion by stable chunk ids; `make_chunk` leaves
  `chunk_id` to its random default, so re-ingesting doubles a document (`corpus_reingest`).
* The BM25 index is "scrolled out of the vector store so there is a single source of truth"; after a
  delete whose reply is lost, the index serves what the store no longer has (`corpus_stale_index`).
* `_pack` merges "within the token budget"; a chunk that starts with an overlap may exceed it by up
  to the overlap (`chunkers_budget`), and by no more (`OverBudgetByOverlapOnly`).
* `services/cache/factory.py` falls back to memory when Redis is "not installed or unreachable"; its
  client does not connect until it is used, so only the first of the two is noticed
  (`cache_unreachable`).

Met while modelling, each visible in the definitions, without a run of its own:

* A fixed-size chunk is said never to exceed "the embedder's context budget" (`ingestion/chunkers/fixed.py:9`),
  and `tests/unit/test_chunkers.py:36` asserts `token_count <= 10` for `chunk_size=10`, with a tokenizer of whole
  words. With the model's tokenizer a window that begins inside a word decodes to a text that starts with `##`,
  and its `token_count` may exceed `chunk_size`, by two at most and in no other case (`WindowsCover`).
* Semantic chunks "never exceed the embedder's context" (`ingestion/chunkers/semantic.py:6-7`); `max_tokens` is
  compared only where a sentence would join others, so a sentence longer than that is a chunk all the same, and
  so is a segment of one sentence (`Extend`, `Flush`). `SentencesChunked` states that there is no other case.
* A text without separators is hard split, "handled explicitly" (`ingestion/chunkers/recursive.py:12-13`); of a
  word above the budget that loses the tokens the tokenizer does not know, and a text of nothing else has no
  chunk at all (`HardSplit`).
* `docker-compose.yml` calls the API stateless; its replicas answer hybrid queries from indexes of their
  own, rebuilt by the process that wrote and no other (`api/services.py:61`).
* `token_usage` is for cost tracking (`models/domain.py:131`); a completion that is refused reports none
  (`services/answer_service.py:116`).
* `ingest_paths` is said to skip "unsupported/unreadable" files (`ingestion/pipeline.py:74`); one without
  permission, or a corrupt PDF, ends the run instead (`LoadBreaks`), and one that can be read is skipped when
  the model or the store's client raises a `ValueError`, possibly with its chunks stored (`IndexRejects`).
* Recall@K is documented as "coverage of relevant items" (`docs/evaluation.md:44`); the evaluator divides by
  the relevant chunks it has retrieved, so recall is the hit rate, 1 or 0, as the docstring of
  `_total_relevant` says (`RetrievalScoresAgree`).
* Generation metrics are "averaged over answered (non-refused) examples" (`evaluation/report.py:92-93`); an
  answer to an unanswerable question is not refused and not averaged either, in line with
  `docs/evaluation.md:68` (`OutcomesCounted`).
* `BM25Retriever.index` assigns `_chunks` before it builds `BM25Okapi`
  (`retrieval/sparse/bm25_retriever.py:48-51`), which divides by the number of distinct terms: a corpus without
  a single `[a-z0-9]` token raises there and leaves the new chunks beside the old index. `FinishReindex` replaces
  the index as a whole (section 7).
* The fallback judge promises that a run "never crashes because the LLM was unavailable"
  (`evaluation/judges/fallback.py:5`); that holds of the judge, while the answer service the run calls
  first may raise (`ServiceFails`).
* A judge's score of NaN becomes 1.0, as `min(1.0, nan)` is 1.0 (`Verdict`); the number of a citation
  marker counts as a word of the lexical metrics (`Words`); `expand_query` with `max_variants` 1 returns
  two variants when a word has synonyms (`Add`, where `MultiQuerySound` relies on `max_queries` alone); a
  `#` comment in a fenced block of Markdown is taken for a heading.

## 7. What is not modelled

* The web client: its panels keep what the last reply said, and a load overwrites them. Replies to
  overlapping requests may arrive in either order, and nothing in the code or its documentation promises
  more than that, so there is nothing to check beyond what the API returns.
* Prompts, LLM clients, the extractive generator, the embedder's inside, settings, logging, tracing and
  middleware are text, calls to third parties or configuration. What they can do to the parts above (return
  anything, raise) is in `Corpus`, `Answer`, `RetrievalCache` and `IngestRun`; the limits settings enforce
  are the assumptions about the constants.
* Of the evaluation: latencies, `total_relevant_cap` (no caller gives one), the layout of rendered reports,
  and the tables of `comparison.py`, which run the same evaluator over other retrievers.
* The parsers under the loaders (BeautifulSoup, pypdf, the regular expression of headings): what is a
  heading, a string or a page is given.
* The in-memory store beyond its search, and the lexical reranker: stand-ins for Qdrant and the
  cross-encoder in tests and evaluation.
* The text of chunks: in `Corpus` no decision depends on it, so a rebuild of the BM25 index over a corpus without
  a single token, which raises half-way, does not occur.
* A lifespan that fails altogether leaves `app.state.services` unset; nothing changes state after that.
