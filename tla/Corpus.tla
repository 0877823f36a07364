------------------------------- MODULE Corpus -------------------------------
(***************************************************************************)
(* The chunk corpus: one Qdrant collection shared by API workers           *)
(* (api/routers/documents.py, api/routers/query.py) and seeding processes  *)
(* (scripts/bootstrap_demo.py), and the BM25 index every process keeps in  *)
(* memory (api/services.py, retrieval/sparse/bm25_retriever.py).           *)
(*                                                                         *)
(* A handler is an `async def` whose body never awaits, so one process     *)
(* runs one request at a time; processes interleave between calls to       *)
(* Qdrant.  A call may fail, and a failed write may have been applied.     *)
(***************************************************************************)
EXTENDS Naturals, FiniteSets, Sequences

CONSTANTS
    Workers,      \* API processes
    Seeders,      \* runs of scripts/bootstrap_demo.py
    Docs,         \* document ids
    Groups,       \* access groups
    Users,        \* the ACLs of the users who query (get_user_acl)
    ChunkIds,     \* bound: chunk ids (random UUIDs), ordered as point ids
    Requests,     \* bodies of POST /v1/ingest: sequences of documents
    SeedCorpus,   \* the bundled demo corpus: a sequence of documents
    PageSize,     \* batch_size of scroll_all
    CandidateK    \* candidate_k of the retrievers

Document == [doc : Docs, acl : SUBSET Groups, parts : Nat]

ASSUME ProcsAssumption == Workers \cap Seeders = {}
ASSUME IdsAssumption == ChunkIds \subseteq Nat
ASSUME RequestsAssumption ==
    /\ Requests \subseteq Seq(Document)
    /\ SeedCorpus \in Seq(Document)
ASSUME BoundsAssumption == PageSize \in Nat \ {0} /\ CandidateK \in Nat \ {0}

Procs == Workers \cup Seeders
Admin == [unrestricted |-> TRUE, groups |-> {}]   \* acl = None in the code
Callers == {Admin} \cup [unrestricted : {FALSE}, groups : SUBSET Groups]
ASSUME UsersAssumption == Users \subseteq Callers
Chunk == [id : ChunkIds, doc : Docs, part : Nat, acl : SUBSET Groups]

VARIABLES
    collection,   \* "absent", "bare" (no payload index) or "indexed"
    store,        \* the points of the collection
    used,         \* chunk ids generated so far
    pc, op,       \* per process: the next call, and the operation it serves
    todo,         \* documents of the request still to upsert
    target,       \* document id of the DELETE request
    batch,        \* ids upserted by the ingest, or to erase by the delete
    acc, offset,  \* scroll_all: chunks read so far, where the next page starts
    sparse,       \* the BM25 index of the process
    caller, hits, \* the query served last: who asked, what was retrieved
    must, may,    \* history: in the store throughout / at some point of a scan
    acked, purged \* history: ids whose ingest / delete this process confirmed

vars == <<collection, store, used, pc, op, todo, target, batch, acc, offset,
          sparse, caller, hits, must, may, acked, purged>>

requestVars == <<todo, target, batch, acc, offset>>
queryVars == <<caller, hits>>
ledgerVars == <<acked, purged>>

Scanning == {"scan", "reindex"}
Watching == Scanning \cup {"erase"}
States == {"down", "idle", "exists", "create", "payload", "upsert", "fuse"}
              \cup Watching

Ids(S) == {c.id : c \in S}

Init ==
    /\ collection = "absent"
    /\ store = {}
    /\ used = {}
    /\ pc = [p \in Procs |-> "down"]
    /\ op = [p \in Procs |-> "none"]
    /\ todo = [p \in Procs |-> <<>>]
    /\ target = [p \in Procs |-> {}]
    /\ batch = [p \in Procs |-> {}]
    /\ acc = [p \in Procs |-> {}]
    /\ offset = [p \in Procs |-> 0]
    /\ sparse = [p \in Procs |-> {}]
    /\ caller = [p \in Procs |-> Admin]
    /\ hits = [p \in Procs |-> {}]
    /\ must = [p \in Procs |-> {}]
    /\ may = [p \in Procs |-> {}]
    /\ acked = [p \in Procs |-> {}]
    /\ purged = [p \in Procs |-> {}]

-----------------------------------------------------------------------------
(* Control shared by the handlers.                                         *)

Goto(p, where) == pc' = [pc EXCEPT ![p] = where]

\* The handler starts: its locals are fresh, the last query's answer is gone.
Begin(p, what, where, docs, doomed) ==
    /\ op' = [op EXCEPT ![p] = what]
    /\ Goto(p, where)
    /\ todo' = [todo EXCEPT ![p] = docs]
    /\ target' = [target EXCEPT ![p] = doomed]
    /\ batch' = [batch EXCEPT ![p] = {}]
    /\ acc' = [acc EXCEPT ![p] = {}]
    /\ offset' = [offset EXCEPT ![p] = 0]
    /\ caller' = [caller EXCEPT ![p] = Admin]
    /\ hits' = [hits EXCEPT ![p] = {}]

\* The handler returns or raises: a worker waits for the next request, a
\* seeding process that is past start-up exits.
Finish(p) ==
    LET Exits == p \in Seeders /\ op[p] # "boot"
    IN  /\ op' = [op EXCEPT ![p] = "none"]
        /\ Goto(p, IF Exits THEN "down" ELSE "idle")
        /\ todo' = [todo EXCEPT ![p] = <<>>]
        /\ target' = [target EXCEPT ![p] = {}]
        /\ batch' = [batch EXCEPT ![p] = {}]
        /\ acc' = [acc EXCEPT ![p] = {}]
        /\ offset' = [offset EXCEPT ![p] = 0]

\* An exception inside the handler: build_services carries on with an empty
\* corpus, a request handler answers 502 and leaves the index as it was.
Raise(p) ==
    /\ Finish(p)
    /\ sparse' = IF op[p] = "boot" THEN [sparse EXCEPT ![p] = {}] ELSE sparse
    /\ UNCHANGED <<queryVars, ledgerVars>>

\* scroll_all starts: the locals of the scan are fresh.
OpenScan(p, where) ==
    /\ Goto(p, where)
    /\ acc' = [acc EXCEPT ![p] = {}]
    /\ offset' = [offset EXCEPT ![p] = 0]

\* History: which chunks the store held throughout, and at some point of,
\* the scan a process is running.
Opens(p) == pc'[p] \in Scanning /\ pc'[p] # pc[p]
Observe ==
    /\ must' = [p \in Procs |->
                  IF Opens(p) THEN store'
                  ELSE IF pc'[p] \in Watching THEN must[p] \cap store' ELSE {}]
    /\ may' = [p \in Procs |->
                  IF Opens(p) THEN store'
                  ELSE IF pc'[p] \in Watching THEN may[p] \cup store' ELSE {}]

-----------------------------------------------------------------------------
(* Requests arrive, processes start and stop.                              *)

\* lifespan / main: a new process, its memory empty, runs build_services.
Start(p) ==
    /\ pc[p] = "down"
    /\ Begin(p, "boot", "exists", <<>>, {})
    /\ sparse' = [sparse EXCEPT ![p] = {}]
    /\ acked' = [acked EXCEPT ![p] = {}]
    /\ UNCHANGED <<collection, store, used, purged>>

\* POST /v1/ingest, or the body of bootstrap_demo after build_services.
Ingest(p) ==
    /\ pc[p] = "idle"
    /\ \E docs \in IF p \in Workers THEN Requests ELSE {SeedCorpus} :
            Begin(p, "ingest", "exists", docs, {})
    /\ UNCHANGED <<collection, store, used, sparse, ledgerVars>>

\* DELETE /v1/documents/{id}: there is no ensure_collection here.
Delete(p) ==
    /\ p \in Workers /\ pc[p] = "idle"
    /\ \E d \in Docs : Begin(p, "delete", "scan", <<>>, {d})
    /\ UNCHANGED <<collection, store, used, sparse, ledgerVars>>

\* GET /v1/documents
List(p) ==
    /\ p \in Workers /\ pc[p] = "idle"
    /\ Begin(p, "list", "scan", <<>>, {})
    /\ UNCHANGED <<collection, store, used, sparse, ledgerVars>>

\* The process dies, whatever it was doing; its index goes with it.
Crash(p) ==
    /\ pc[p] # "down"
    /\ Begin(p, "none", "down", <<>>, {})
    /\ sparse' = [sparse EXCEPT ![p] = {}]
    /\ acked' = [acked EXCEPT ![p] = {}]
    /\ UNCHANGED <<collection, store, used, purged>>

-----------------------------------------------------------------------------
(* ensure_collection: three calls, each of which may fail.                 *)

AfterEnsure(p) ==
    IF op[p] = "boot"
    THEN OpenScan(p, "scan")
    ELSE Goto(p, "upsert") /\ UNCHANGED <<acc, offset>>

CollectionExists(p) ==
    /\ pc[p] = "exists"
    /\ IF collection = "absent"
       THEN Goto(p, "create") /\ UNCHANGED <<acc, offset>>
       ELSE AfterEnsure(p)
    /\ UNCHANGED <<collection, store, used, op, todo, target, batch, sparse,
                   queryVars, ledgerVars>>

\* create_collection is refused when another process was faster (then only
\* CallFails is left).
CreateCollection(p) ==
    /\ pc[p] = "create" /\ collection = "absent"
    /\ collection' = "bare"
    /\ \/ /\ Goto(p, "payload")
          /\ UNCHANGED <<op, requestVars, sparse, queryVars, ledgerVars>>
       \/ Raise(p)
    /\ UNCHANGED <<store, used>>

CreatePayloadIndex(p) ==
    /\ pc[p] = "payload"
    /\ collection' = "indexed"
    /\ \/ /\ AfterEnsure(p)
          /\ UNCHANGED <<op, todo, target, batch, sparse, queryVars, ledgerVars>>
       \/ Raise(p)
    /\ UNCHANGED <<store, used>>

-----------------------------------------------------------------------------
(* Writing.                                                                *)

\* make_chunk copies the document's ACL onto every chunk and leaves chunk_id
\* to its default, a fresh UUID4.
\* Mutant: chunk_id derived from the position of the chunk.
PositionalIds(d) == {[i \in 1 .. d.parts |-> i]} \cap [1 .. d.parts -> ChunkIds]
FreshIds(d) ==
    {f \in [1 .. d.parts -> ChunkIds \ used] :
        \A i, j \in 1 .. d.parts : f[i] = f[j] => i = j}
\* Mutant: the chunks carry the document's title where the ACL belongs.
TitledChunks(d, ids) ==
    {[id |-> ids[i], doc |-> d.doc, part |-> i, acl |-> {d.doc}] :
        i \in 1 .. d.parts}
NewChunks(d, ids) ==
    {[id |-> ids[i], doc |-> d.doc, part |-> i, acl |-> d.acl] :
        i \in 1 .. d.parts}

\* A point with the same id is replaced.
Upserted(S, new) == {c \in S : c.id \notin Ids(new)} \cup new

\* The next document of the request is chunked, embedded and upserted.  When
\* the call fails any part of the batch may be in the store.
Upsert(p) ==
    /\ pc[p] = "upsert" /\ todo[p] # <<>> /\ collection # "absent"
    /\ \E ids \in FreshIds(Head(todo[p])) :
        LET new == NewChunks(Head(todo[p]), ids)
        IN  /\ used' = used \cup Ids(new)
            /\ \/ /\ store' = Upserted(store, new)
                  /\ todo' = [todo EXCEPT ![p] = Tail(@)]
                  /\ batch' = [batch EXCEPT ![p] = @ \cup Ids(new)]
                  /\ UNCHANGED <<pc, op, target, acc, offset, sparse,
                                 queryVars, ledgerVars>>
               \/ /\ \E part \in SUBSET new : store' = Upserted(store, part)
                  /\ Raise(p)
    /\ UNCHANGED collection

\* All documents are in: reindex_sparse begins.
Reindex(p) ==
    /\ pc[p] = "upsert" /\ todo[p] = <<>>
    /\ OpenScan(p, "reindex")
    /\ UNCHANGED <<collection, store, used, op, todo, target, batch, sparse,
                   queryVars, ledgerVars>>

Erased(S, ids) == {c \in S : c.id \notin ids}

\* store.delete of the ids found by the first scan (no call when there are
\* none), then reindex_sparse begins.
Erase(p) ==
    /\ pc[p] = "erase"
    /\ \/ /\ store' = Erased(store, batch[p])
          /\ OpenScan(p, "reindex")
          /\ UNCHANGED <<op, todo, target, batch, sparse, queryVars, ledgerVars>>
       \/ /\ batch[p] # {}
          /\ \E ids \in SUBSET batch[p] : store' = Erased(store, ids)
          /\ Raise(p)
    /\ UNCHANGED <<collection, used>>

-----------------------------------------------------------------------------
(* scroll_all, one page per step, and what its caller does with the list.  *)

Remaining(S, from) == {c \in S : from <= c.id}
Page(S, from) ==
    {c \in Remaining(S, from) :
        Cardinality({d \in Remaining(S, from) : d.id < c.id}) < PageSize}
Beyond(S, from) == Remaining(S, from) \ Page(S, from)

\* Mutant: the offset Qdrant returned is not passed to the next call.
ReadPageAgain(p) ==
    /\ pc[p] \in Scanning /\ collection # "absent"
    /\ Beyond(store, offset[p]) # {}
    /\ acc' = [acc EXCEPT ![p] = @ \cup Page(store, offset[p])]
    /\ UNCHANGED <<collection, store, used, pc, op, todo, target, batch, offset,
                   sparse, queryVars, ledgerVars>>
\* Mutant: the offset is taken as the last id read, one past the next one.
ReadPageSkipping(p) ==
    /\ pc[p] \in Scanning /\ collection # "absent"
    /\ Beyond(store, offset[p]) # {}
    /\ acc' = [acc EXCEPT ![p] = @ \cup Page(store, offset[p])]
    /\ \E next \in Ids(Beyond(store, offset[p])) :
        /\ \A i \in Ids(Beyond(store, offset[p])) : next <= i
        /\ offset' = [offset EXCEPT ![p] = next + 1]
    /\ UNCHANGED <<collection, store, used, pc, op, todo, target, batch, sparse,
                   queryVars, ledgerVars>>
ReadPage(p) ==
    /\ pc[p] \in Scanning /\ collection # "absent"
    /\ Beyond(store, offset[p]) # {}
    /\ acc' = [acc EXCEPT ![p] = @ \cup Page(store, offset[p])]
    /\ \E next \in Ids(Beyond(store, offset[p])) :
        /\ \A i \in Ids(Beyond(store, offset[p])) : next <= i
        /\ offset' = [offset EXCEPT ![p] = next]
    /\ UNCHANGED <<collection, store, used, pc, op, todo, target, batch, sparse,
                   queryVars, ledgerVars>>

LastPage(p) ==
    /\ pc[p] \in Scanning /\ collection # "absent"
    /\ Beyond(store, offset[p]) = {}
    /\ UNCHANGED <<collection, store, used, queryVars>>

ScannedBy(p) == acc[p] \cup Page(store, offset[p])

\* build_services: the corpus becomes the first index.
FinishBoot(p) ==
    /\ LastPage(p) /\ op[p] = "boot"
    /\ sparse' = [sparse EXCEPT ![p] = ScannedBy(p)]
    /\ Finish(p)
    /\ UNCHANGED ledgerVars

FinishList(p) ==
    /\ LastPage(p) /\ op[p] = "list"
    /\ Finish(p)
    /\ UNCHANGED <<sparse, ledgerVars>>

\* Mutant: only the last page is searched for the document.
FindDoomedLastPage(p) ==
    /\ LastPage(p) /\ pc[p] = "scan" /\ op[p] = "delete"
    /\ batch' = [batch EXCEPT ![p] =
            Ids({c \in Page(store, offset[p]) : c.doc \in target[p]})]
    /\ Goto(p, "erase")
    /\ UNCHANGED <<op, todo, target, acc, offset, sparse, ledgerVars>>
\* The chunk ids of the document are known.
FindDoomed(p) ==
    /\ LastPage(p) /\ pc[p] = "scan" /\ op[p] = "delete"
    /\ batch' = [batch EXCEPT ![p] =
                    Ids({c \in ScannedBy(p) : c.doc \in target[p]})]
    /\ Goto(p, "erase")
    /\ UNCHANGED <<op, todo, target, acc, offset, sparse, ledgerVars>>

\* Mutant: the handler answers 200 without having called sparse.index.
FinishStale(p) ==
    /\ LastPage(p) /\ pc[p] = "reindex"
    /\ acked' = IF op[p] = "ingest"
                THEN [acked EXCEPT ![p] = @ \cup batch[p]] ELSE acked
    /\ purged' = IF op[p] = "delete"
                 THEN [purged EXCEPT ![p] = @ \cup batch[p]] ELSE purged
    /\ Finish(p)
    /\ UNCHANGED sparse
\* The index is replaced and the handler answers 200.
FinishReindex(p) ==
    /\ LastPage(p) /\ pc[p] = "reindex"
    /\ sparse' = [sparse EXCEPT ![p] = ScannedBy(p)]
    /\ acked' = IF op[p] = "ingest"
                THEN [acked EXCEPT ![p] = @ \cup batch[p]] ELSE acked
    /\ purged' = IF op[p] = "delete"
                 THEN [purged EXCEPT ![p] = @ \cup batch[p]] ELSE purged
    /\ Finish(p)

-----------------------------------------------------------------------------
(* POST /v1/query: the retrieval half of AnswerService.answer.             *)

\* retrieval/access.py; the filter of QdrantVectorStore says the same.
AclAllows(chunkAcl, who) ==
    who.unrestricted \/ chunkAcl = {} \/ chunkAcl \cap who.groups # {}
Visible(S, who) == {c \in S : AclAllows(c.acl, who)}

\* A ranking cut at candidate_k, scores abstracted.
TopK(S) ==
    {R \in SUBSET S :
        Cardinality(R) = IF Cardinality(S) <= CandidateK
                         THEN Cardinality(S) ELSE CandidateK}

\* The dense search, for mode "dense" all there is.
QueryDense(p) ==
    /\ p \in Workers /\ pc[p] = "idle" /\ collection # "absent"
    /\ \E who \in Users : \E found \in TopK(Visible(store, who)) :
        /\ caller' = [caller EXCEPT ![p] = who]
        /\ hits' = [hits EXCEPT ![p] = found]
    /\ \E hybrid \in BOOLEAN :
        /\ Goto(p, IF hybrid THEN "fuse" ELSE "idle")
        /\ op' = [op EXCEPT ![p] = IF hybrid THEN "query" ELSE "none"]
    /\ UNCHANGED <<collection, store, used, requestVars, sparse, ledgerVars>>

\* Mutant: the ACL is not passed to the BM25 half.
QueryHybridUnscoped(p) ==
    /\ pc[p] = "fuse"
    /\ \E found \in TopK(sparse[p]) :
        \E fused \in TopK(hits[p] \cup {c \in found : c.id \notin Ids(hits[p])}) :
            hits' = [hits EXCEPT ![p] = fused]
    /\ Finish(p)
    /\ UNCHANGED <<collection, store, used, sparse, caller, ledgerVars>>
\* The BM25 half, then reciprocal rank fusion: a chunk in both lists appears
\* once, as the dense list has it.
QueryHybrid(p) ==
    /\ pc[p] = "fuse"
    /\ \E found \in TopK(Visible(sparse[p], caller[p])) :
        \E fused \in TopK(hits[p] \cup {c \in found : c.id \notin Ids(hits[p])}) :
            hits' = [hits EXCEPT ![p] = fused]
    /\ Finish(p)
    /\ UNCHANGED <<collection, store, used, sparse, caller, ledgerVars>>

-----------------------------------------------------------------------------
\* A call that is sure to raise: the collection was created by another process
\* in between, or does not exist (delete and list do not ensure it).  Running
\* out of chunk ids is the model's bound, met like a failing upsert.
Refused(p) ==
    /\ \/ pc[p] = "create" /\ collection # "absent"
       \/ pc[p] \in Scanning /\ collection = "absent"
       \/ pc[p] = "upsert" /\ todo[p] # <<>> /\ FreshIds(Head(todo[p])) = {}
    /\ Raise(p)
    /\ UNCHANGED <<collection, store, used>>

\* Any call to Qdrant, the embedder or the chunker may raise without effect.
CallFails(p) ==
    /\ pc[p] \notin {"down", "idle", "fuse"}
    /\ Raise(p)
    /\ UNCHANGED <<collection, store, used>>

\* The steps of a process that is serving something.
Progress(p) ==
    \/ CollectionExists(p) \/ CreateCollection(p) \/ CreatePayloadIndex(p)
    \/ Upsert(p) \/ Reindex(p) \/ Erase(p)
    \/ ReadPage(p) \/ FinishBoot(p) \/ FinishList(p)
    \/ FindDoomed(p) \/ FinishReindex(p) \/ QueryHybrid(p)
    \/ Refused(p)

Serve(p) == Progress(p) \/ CallFails(p)

Arrive(p) == Start(p) \/ Ingest(p) \/ Delete(p) \/ List(p) \/ QueryDense(p)

Next == (\E p \in Procs : Serve(p) \/ Arrive(p) \/ Crash(p)) /\ Observe

Spec == Init /\ [][Next]_vars

\* A running process keeps executing its handler and its calls return;
\* nothing obliges a call to fail, clients to send requests, operators to
\* start processes, or processes to crash.
FairSpec == Spec /\ \A p \in Procs : WF_vars(Progress(p) /\ Observe)

-----------------------------------------------------------------------------
(* Correctness.                                                            *)

TypeOK ==
    /\ collection \in {"absent", "bare", "indexed"}
    /\ store \subseteq Chunk
    /\ used \subseteq ChunkIds
    /\ pc \in [Procs -> States]
    /\ op \in [Procs -> {"none", "boot", "ingest", "delete", "list", "query"}]
    /\ todo \in [Procs -> Seq(Document)]
    /\ target \in [Procs -> SUBSET Docs]
    /\ batch \in [Procs -> SUBSET ChunkIds]
    /\ acc \in [Procs -> SUBSET Chunk]
    /\ offset \in [Procs -> Nat]
    /\ sparse \in [Procs -> SUBSET Chunk]
    /\ caller \in [Procs -> Callers]
    /\ hits \in [Procs -> SUBSET Chunk]
    /\ must \in [Procs -> SUBSET Chunk]
    /\ may \in [Procs -> SUBSET Chunk]
    /\ acked \in [Procs -> SUBSET ChunkIds]
    /\ purged \in [Procs -> SUBSET ChunkIds]

\* While process p pages through the collection and others write to it,
\* scroll_all loses no chunk that stays and invents none: what it has read
\* was stored at some point of the scan, and every chunk below the offset
\* that stayed in the store has been read (QdrantVectorStore.scroll_all).
ScanRegular ==
    \A p \in Procs : pc[p] \in Scanning =>
        /\ acc[p] \subseteq may[p]
        /\ \A c \in must[p] : c.id < offset[p] => c \in acc[p]

\* Content whose ingest a process confirmed is in that process's BM25 index
\* for as long as it is stored (documents.py: "then rebuild the BM25 index so
\* hybrid retrieval sees the new content immediately"), through failed
\* requests and concurrent writers, until the process restarts.
ConfirmedIngestIndexed ==
    \A p \in Procs : acked[p] \cap Ids(store) \subseteq Ids(sparse[p])

\* Content whose deletion a process confirmed never shows up again: not in
\* the store, whoever ingests, and not in that process's index, not even
\* after a restart in the middle of other writers' work.
ConfirmedDeleteFinal ==
    \A p \in Procs : purged[p] \cap (Ids(store) \cup Ids(sparse[p])) = {}

\* DELETE removes every chunk of the document that was stored when the
\* request came in, whatever is ingested or deleted while it pages.
DeleteTakesAll ==
    [][\A p \in Procs : pc[p] = "erase" /\ pc'[p] = "reindex" =>
            \A c \in must[p] : c.doc \in target[p] => c \notin store']_vars

\* Copies never diverge: a chunk a process has indexed or retrieved is, if an
\* entry with its id is stored at all, identical to that entry, ACL included.
CopiesAgree ==
    \A p \in Procs : \A c \in sparse[p] \cup hits[p] : \A d \in store :
        c.id = d.id => c = d

\* Whatever a query returned, from the store or from a stale index, the
\* caller may see, by the copy's ACL and by the stored one.
QueriesConfined ==
    \A p \in Procs : \A c \in hits[p] :
        /\ AclAllows(c.acl, caller[p])
        /\ \A d \in store : c.id = d.id => AclAllows(d.acl, caller[p])

\* Every process's index is one regular read of the shared store, or empty
\* (the specification of RegularIndex).
Index == INSTANCE RegularIndex
IndexIsRegular == Index!Spec

\* A request that has begun is answered, unless the process dies: every scan
\* ends although other processes write while it pages.
RequestsAnswered ==
    \A p \in Procs : pc[p] \notin {"idle", "down"} ~> pc[p] \in {"idle", "down"}

-----------------------------------------------------------------------------
(* What the documentation promises and the code does not keep.             *)

\* docs/architecture.md: "support delete + re-embed on change via idempotent
\* upserts keyed by a stable chunk_id": one chunk per part of a document.
ReingestIdempotent ==
    \A c, d \in store : c.doc = d.doc /\ c.part = d.part => c = d

\* bm25_retriever.py: the index is "scrolled out of the vector store so there
\* is a single source of truth": a retrieved chunk is one the store has had
\* since the process that answers last heard from it.
SingleSourceOfTruth ==
    [][\A p \in Procs : pc[p] = "fuse" /\ pc'[p] = "idle" =>
            hits'[p] \subseteq store']_vars
=============================================================================
